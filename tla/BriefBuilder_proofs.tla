------------------------- MODULE BriefBuilder_proofs -------------------------
(***************************************************************************)
(* What holds of a brief for every world, every limit, any number of calls *)
(* and any events around them.                                             *)
(***************************************************************************)
EXTENDS BriefBuilder, SetInduction

-----------------------------------------------------------------------------
(* Sequences and records *)

LEMMA AppendElements ==
    ASSUME NEW X, NEW s \in Seq(X), NEW x \in X
    PROVE  Append(s, x) \in Seq(X) /\ ToSet(Append(s, x)) = ToSet(s) \cup {x}
    <1>1. /\ Append(s, x) \in Seq(X) /\ Len(s) \in Nat /\ DOMAIN s = 1 .. Len(s)
          /\ DOMAIN Append(s, x) = 1 .. Len(s) + 1
          /\ Append(s, x)[Len(s) + 1] = x
          /\ \A i \in 1 .. Len(s) : Append(s, x)[i] = s[i]
        OBVIOUS
    <1>2. \A i : i \in 1 .. Len(s) + 1 <=> i \in 1 .. Len(s) \/ i = Len(s) + 1
        BY <1>1
    <1> QED BY <1>1, <1>2 DEF ToSet

\* A sequence of whatever it holds, and one element more.
LEMMA Appended ==
    ASSUME NEW s, s \in Seq(ToSet(s)), NEW x
    PROVE  /\ Append(s, x) \in Seq(ToSet(Append(s, x)))
           /\ Len(s) \in Nat /\ DOMAIN s = 1 .. Len(s)
           /\ Len(Append(s, x)) = Len(s) + 1
           /\ DOMAIN Append(s, x) = DOMAIN s \cup {Len(s) + 1} /\ Len(s) + 1 \notin DOMAIN s
           /\ Append(s, x)[Len(s) + 1] = x
           /\ \A i \in DOMAIN s : Append(s, x)[i] = s[i]
    <1> DEFINE X == ToSet(s) \cup {x}
    <1>1. s \in Seq(X) /\ x \in X
        <2>1. s \in [1 .. Len(s) -> ToSet(s)] /\ Len(s) \in Nat
            BY LenProperties
        <2>2. s \in [1 .. Len(s) -> X]
            BY <2>1
        <2> QED BY <2>1, <2>2, IsASeq
    <1> HIDE DEF X
    <1>2. Append(s, x) \in Seq(X)
        BY <1>1
    <1>3. Append(s, x) \in Seq(ToSet(Append(s, x)))
        BY <1>2, OwnElements
    <1>4. /\ Len(s) \in Nat /\ DOMAIN s = 1 .. Len(s)
          /\ Len(Append(s, x)) = Len(s) + 1 /\ DOMAIN Append(s, x) = 1 .. Len(s) + 1
          /\ Append(s, x)[Len(s) + 1] = x
          /\ \A i \in 1 .. Len(s) : Append(s, x)[i] = s[i]
        BY <1>1
    <1>5. 1 .. Len(s) + 1 = (1 .. Len(s)) \cup {Len(s) + 1} /\ Len(s) + 1 \notin 1 .. Len(s)
        BY <1>4
    <1> QED BY <1>3, <1>4, <1>5

LEMMA ConcatElements ==
    ASSUME NEW X, NEW s \in Seq(X), NEW t \in Seq(X)
    PROVE  s \o t \in Seq(X) /\ ToSet(s \o t) = ToSet(s) \cup ToSet(t)
    <1>1. s \o t \in Seq(X) /\ DOMAIN (s \o t) = 1 .. Len(s) + Len(t)
          /\ DOMAIN s = 1 .. Len(s) /\ DOMAIN t = 1 .. Len(t) /\ Len(s) \in Nat /\ Len(t) \in Nat
        OBVIOUS
    <1>2. \A i \in 1 .. Len(s) + Len(t) :
             (s \o t)[i] = IF i <= Len(s) THEN s[i] ELSE t[i - Len(s)]
        OBVIOUS
    <1>3. ToSet(s \o t) \subseteq ToSet(s) \cup ToSet(t)
        <2> SUFFICES ASSUME NEW i \in 1 .. Len(s) + Len(t)
                     PROVE  (s \o t)[i] \in ToSet(s) \cup ToSet(t)
            BY <1>1 DEF ToSet
        <2>1. CASE i <= Len(s)
            <3>1. i \in DOMAIN s BY <1>1, <2>1
            <3> QED BY <1>2, <2>1, <3>1 DEF ToSet
        <2>2. CASE ~(i <= Len(s))
            <3>1. i - Len(s) \in DOMAIN t BY <1>1, <2>2
            <3> QED BY <1>2, <2>2, <3>1 DEF ToSet
        <2> QED BY <2>1, <2>2
    <1>4. ToSet(s) \subseteq ToSet(s \o t)
        <2>1. \A i \in DOMAIN s : i \in DOMAIN (s \o t) /\ (s \o t)[i] = s[i]
            BY <1>1, <1>2
        <2> QED BY <2>1 DEF ToSet
    <1>5. ToSet(t) \subseteq ToSet(s \o t)
        <2>1. ASSUME NEW j \in DOMAIN t
              PROVE  j + Len(s) \in DOMAIN (s \o t) /\ (s \o t)[j + Len(s)] = t[j]
            <3>1. j + Len(s) \in 1 .. Len(s) + Len(t) /\ ~(j + Len(s) <= Len(s))
                  /\ (j + Len(s)) - Len(s) = j
                BY <1>1
            <3> QED BY <1>1, <1>2, <3>1
        <2> QED BY <2>1 DEF ToSet
    <1> QED BY <1>1, <1>3, <1>4, <1>5

LEMMA TakeElements ==
    ASSUME NEW X, NEW s \in Seq(X), NEW n \in Nat
    PROVE  Take(s, n) \in Seq(X) /\ ToSet(Take(s, n)) \subseteq ToSet(s)
    <1> DEFINE m == IF Len(s) < n THEN Len(s) ELSE n
    <1>1. m \in Nat /\ m <= Len(s)
        OBVIOUS
    <1>2. \A i \in 1 .. m : i \in DOMAIN s
        BY <1>1
    <1> HIDE DEF m
    <1>3. SubSeq(s, 1, m) = [i \in 1 .. m |-> s[i]]
        BY <1>1
    <1>4. SubSeq(s, 1, m) \in Seq(X)
        BY <1>1, <1>2, <1>3
    <1>5. Take(s, n) = SubSeq(s, 1, m)
        BY DEF Take, m
    <1> QED BY <1>2, <1>3, <1>4, <1>5 DEF ToSet

\* What a record says after others were put over it.
LEMMA OverFields ==
    ASSUME NEW new, NEW old
    PROVE  /\ DOMAIN Over(new, old) = DOMAIN new \cup DOMAIN old
           /\ \A f \in DOMAIN new : Over(new, old)[f] = new[f]
           /\ \A f \in DOMAIN old \ DOMAIN new : Over(new, old)[f] = old[f]
           /\ Over(new, old) = [f \in DOMAIN Over(new, old) |-> Over(new, old)[f]]
    BY DEF Over

\* What a comprehension has picked after each element.
Picks(f, s, I, X) ==
    /\ f \in [0 .. Len(s) -> Seq(X)] /\ f[0] = <<>>
    /\ \A i \in 1 .. Len(s) : f[i] = IF i \in I THEN Append(f[i - 1], s[i]) ELSE f[i - 1]

LEMMA AtRun ==
    ASSUME NEW X, NEW s \in Seq(X), NEW I
    PROVE  \E f : Picks(f, s, I, X) /\ At(s, I) = f[Len(s)]
    <1> DEFINE n == Len(s)
               next == [i \in 1 .. n |-> [t \in Seq(X) |-> IF i \in I THEN Append(t, s[i]) ELSE t]]
    <1>0. n \in Nat /\ DOMAIN s = 1 .. n /\ \A i \in 1 .. n : s[i] \in X
        OBVIOUS
    <1>1. next \in [1 .. n -> [Seq(X) -> Seq(X)]]
        BY <1>0, AppendProperties
    <1>2. PICK f \in [0 .. n -> Seq(X)] : f[0] = <<>> /\ \A i \in 1 .. n : f[i] = next[i][f[i - 1]]
        <2>1. <<>> \in Seq(X) OBVIOUS
        <2>2. Stepping(next, n, Seq(X))
            BY <1>1 DEF Stepping
        <2> HIDE DEF n, next
        <2>3. \E f : Runs(f, next, n, Seq(X), <<>>)
            BY <1>0, <2>1, <2>2, Recursion
        <2> QED BY <2>3 DEF Runs
    <1>3. \A i \in 1 .. n : f[i - 1] \in Seq(X)
                            /\ f[i] = IF i \in I THEN Append(f[i - 1], s[i]) ELSE f[i - 1]
        <2> TAKE i \in 1 .. n
        <2>1. i - 1 \in 0 .. n
            BY <1>0
        <2>2. f[i - 1] \in Seq(X) /\ f[i] = next[i][f[i - 1]]
            BY <1>2, <2>1
        <2>3. next[i] = [t \in Seq(X) |-> IF i \in I THEN Append(t, s[i]) ELSE t]
            OBVIOUS
        <2> HIDE DEF next
        <2> QED BY <2>2, <2>3
    <1> DEFINE Rhs(g) == [i \in 0 .. n |-> IF i = 0 THEN <<>>
                            ELSE IF i \in I THEN Append(g[i - 1], s[i]) ELSE g[i - 1]]
               upTo == CHOOSE g : g = Rhs(g)
    <1>4. f = Rhs(f)
        <2>1. \A i \in 0 .. n : i = 0 \/ i \in 1 .. n
            BY <1>0
        <2>2. f = [i \in 0 .. n |-> f[i]]
            BY <1>2
        <2> HIDE DEF next, n
        <2> QED BY <1>2, <1>3, <2>1, <2>2
    <1>5. upTo = Rhs(upTo)
        BY <1>4
    <1>6. At(s, I) = upTo[n]
        BY DEF At
    <1> HIDE DEF upTo, next
    <1>7. upTo[0] = f[0] /\ \A i \in 1 .. n : upTo[i - 1] = f[i - 1] => upTo[i] = f[i]
        <2>1. upTo[0] = <<>>
            BY <1>0, <1>5
        <2>2. ASSUME NEW i \in 1 .. n, upTo[i - 1] = f[i - 1] PROVE upTo[i] = f[i]
            <3>1. i \in 0 .. n /\ i # 0
                BY <1>0
            <3>2. upTo[i] = Rhs(upTo)[i]
                BY <1>5
            <3>3. Rhs(upTo)[i] = IF i \in I THEN Append(upTo[i - 1], s[i]) ELSE upTo[i - 1]
                BY <3>1
            <3> QED BY <1>3, <2>2, <3>2, <3>3
        <2> QED BY <1>2, <2>1, <2>2
    <1>8. upTo[n] = f[n]
        <2> HIDE DEF n
        <2>1. \A i \in 0 .. n : upTo[i] = f[i]
            BY <1>0, <1>7, Unrolled
        <2> QED BY <1>0, <2>1
    <1> QED BY <1>2, <1>3, <1>6, <1>8 DEF Picks

LEMMA AtElements ==
    ASSUME NEW X, NEW s \in Seq(X), NEW I
    PROVE  At(s, I) \in Seq(X) /\ ToSet(At(s, I)) = {s[i] : i \in I \cap DOMAIN s}
    <1> DEFINE n == Len(s)
    <1>0. n \in Nat /\ DOMAIN s = 1 .. n /\ \A i \in 1 .. n : s[i] \in X
        OBVIOUS
    <1>1. PICK f : Picks(f, s, I, X) /\ At(s, I) = f[n]
        BY AtRun
    <1>2. f \in [0 .. n -> Seq(X)] /\ f[0] = <<>>
        BY <1>1 DEF Picks
    <1>3. \A i \in 1 .. n : f[i - 1] \in Seq(X)
                            /\ f[i] = IF i \in I THEN Append(f[i - 1], s[i]) ELSE f[i - 1]
        <2>1. \A i \in 1 .. n : i - 1 \in 0 .. n
            BY <1>0
        <2> QED BY <1>1, <1>2, <2>1 DEF Picks
    <1> DEFINE Upto(k) == {s[i] : i \in {j \in I : j \in 1 .. k}}
               Good == {k \in Nat : k > n \/ ToSet(f[k]) = Upto(k)}
    <1>9. 0 \in Good
        BY <1>2 DEF ToSet
    <1>10. ASSUME NEW k \in Good PROVE k + 1 \in Good
        <2>1. CASE k + 1 > n
            BY <2>1
        <2>2. CASE k + 1 <= n
            <3>1. k + 1 \in 1 .. n /\ f[k] \in Seq(X) /\ s[k + 1] \in X /\ ToSet(f[k]) = Upto(k)
                BY <1>0, <1>2, <2>2
            <3>2. f[k + 1] = IF k + 1 \in I THEN Append(f[k], s[k + 1]) ELSE f[k]
                <4>1. (k + 1) - 1 = k OBVIOUS
                <4> QED BY <1>3, <3>1, <4>1
            <3>3. Upto(k + 1) = IF k + 1 \in I THEN Upto(k) \cup {s[k + 1]} ELSE Upto(k)
                <4>1. \A j : j \in 1 .. k + 1 <=> j \in 1 .. k \/ j = k + 1
                    OBVIOUS
                <4> QED BY <4>1
            <3>4. ToSet(f[k + 1]) = Upto(k + 1)
                <4> HIDE DEF Upto
                <4>1. CASE k + 1 \in I
                    <5>1. ToSet(Append(f[k], s[k + 1])) = ToSet(f[k]) \cup {s[k + 1]}
                        BY <3>1, AppendElements
                    <5> QED BY <3>1, <3>2, <3>3, <4>1, <5>1
                <4>2. CASE k + 1 \notin I
                    BY <3>1, <3>2, <3>3, <4>2
                <4> QED BY <4>1, <4>2
            <3> QED BY <3>4
        <2> QED BY <1>0, <2>1, <2>2
    <1>11. Good = Nat
        BY <1>9, <1>10, Induction
    <1>12. ToSet(f[n]) = Upto(n)
        <2>1. n \in Good
            BY <1>0, <1>11
        <2> HIDE DEF n, Upto
        <2> QED BY <1>0, <2>1
    <1>13. f[n] \in Seq(X) /\ I \cap DOMAIN s = {j \in I : j \in 1 .. n}
        BY <1>0, <1>2
    <1> QED BY <1>1, <1>12, <1>13

\* What is picked stands at places of s, in their order.
LEMMA AtPlaces ==
    ASSUME NEW X, NEW s \in Seq(X), NEW I
    PROVE  /\ Len(At(s, I)) \in Nat /\ Len(At(s, I)) <= Len(s)
           /\ \E p \in [1 .. Len(At(s, I)) -> DOMAIN s] :
                 /\ \A k \in 1 .. Len(At(s, I)) : At(s, I)[k] = s[p[k]]
                 /\ \A k, l \in 1 .. Len(At(s, I)) : k < l => p[k] < p[l]
    <1> DEFINE n == Len(s)
               Placed(t, m, p) == /\ p \in [1 .. Len(t) -> 1 .. m]
                                  /\ \A k \in 1 .. Len(t) : t[k] = s[p[k]]
                                  /\ \A k, l \in 1 .. Len(t) : k < l => p[k] < p[l]
               Good(t, m) == Len(t) <= m /\ \E p : Placed(t, m, p)
    <1>0. n \in Nat /\ DOMAIN s = 1 .. n /\ \A i \in 1 .. n : s[i] \in X
        OBVIOUS
    <1>1. PICK f : Picks(f, s, I, X) /\ At(s, I) = f[n]
        BY AtRun
    <1>2. f \in [0 .. n -> Seq(X)] /\ f[0] = <<>>
        BY <1>1 DEF Picks
    <1> DEFINE S == {k \in Nat : k > n \/ Good(f[k], k)}
    <1>3. 0 \in S
        <2>1. Placed(<<>>, 0, <<>>)
            OBVIOUS
        <2>2. Len(<<>>) <= 0
            OBVIOUS
        <2> HIDE DEF Placed
        <2> QED BY <1>2, <2>1, <2>2
    <1>4. ASSUME NEW m \in S PROVE m + 1 \in S
        <2>1. CASE m + 1 > n
            BY <2>1
        <2>2. CASE m + 1 <= n
            <3>1. m \in Nat /\ m + 1 \in 1 .. n /\ m \in 0 .. n /\ (m + 1) - 1 = m /\ Good(f[m], m)
                BY <1>0, <2>2
            <3>2. PICK t, u, x : t = f[m] /\ u = f[m + 1] /\ x = s[m + 1]
                OBVIOUS
            <3>3. t \in Seq(X) /\ x \in X /\ u = IF m + 1 \in I THEN Append(t, x) ELSE t
                BY <1>0, <1>1, <1>2, <3>1, <3>2 DEF Picks
            <3>4. PICK p : Len(t) <= m /\ Placed(t, m, p)
                BY <3>1, <3>2
            <3>5. Len(t) \in Nat
                BY <3>3
            <3>6. CASE m + 1 \in I
                <4>1. u = Append(t, x)
                    BY <3>3, <3>6
                <4>2. Len(u) = Len(t) + 1 /\ u[Len(t) + 1] = x /\ \A k \in 1 .. Len(t) : u[k] = t[k]
                    BY <3>3, <4>1
                <4>3. PICK q : q = [k \in 1 .. Len(u) |-> IF k \in 1 .. Len(t) THEN p[k] ELSE m + 1]
                    OBVIOUS
                <4>4. \A k \in 1 .. Len(u) : k \in 1 .. Len(t) \/ k = Len(t) + 1
                    BY <3>5, <4>2
                <4>5. \A k \in 1 .. Len(u) : q[k] \in 1 .. m + 1 /\ u[k] = s[q[k]]
                    <5> TAKE k \in 1 .. Len(u)
                    <5>1. CASE k \in 1 .. Len(t)
                        <6>1. q[k] = p[k] /\ p[k] \in 1 .. m /\ t[k] = s[p[k]]
                            BY <3>4, <4>3, <5>1
                        <6> QED BY <3>1, <4>2, <5>1, <6>1
                    <5>2. CASE k = Len(t) + 1
                        <6>1. k \notin 1 .. Len(t)
                            BY <3>5, <5>2
                        <6>2. q[k] = m + 1
                            BY <4>3, <6>1
                        <6> QED BY <3>1, <3>2, <4>2, <5>2, <6>2
                    <5> QED BY <4>4, <5>1, <5>2
                <4>6. \A k, l \in 1 .. Len(u) : k < l => q[k] < q[l]
                    <5> SUFFICES ASSUME NEW k \in 1 .. Len(u), NEW l \in 1 .. Len(u), k < l
                                 PROVE  q[k] < q[l]
                        OBVIOUS
                    <5>1. k \in 1 .. Len(t)
                        BY <3>5, <4>2
                    <5>2. q[k] = p[k] /\ p[k] \in 1 .. m
                        BY <3>4, <4>3, <5>1
                    <5>3. CASE l \in 1 .. Len(t)
                        <6>1. q[l] = p[l]
                            BY <4>3, <5>3
                        <6> QED BY <3>4, <5>1, <5>2, <5>3, <6>1
                    <5>4. CASE l \notin 1 .. Len(t)
                        <6>1. q[l] = m + 1
                            BY <4>3, <5>4
                        <6> QED BY <3>1, <5>2, <6>1
                    <5> QED BY <5>3, <5>4
                <4>7. q = [k \in 1 .. Len(u) |-> q[k]]
                    BY <4>3
                <4>8. Placed(u, m + 1, q)
                    BY <4>5, <4>6, <4>7
                <4>9. Len(u) <= m + 1
                    BY <3>1, <3>4, <3>5, <4>2
                <4> HIDE DEF Placed
                <4> QED BY <3>1, <3>2, <4>8, <4>9
            <3>7. CASE m + 1 \notin I
                <4>1. Placed(u, m + 1, p)
                    BY <3>1, <3>3, <3>4, <3>7
                <4>2. Len(u) <= m + 1
                    BY <3>1, <3>3, <3>4, <3>5, <3>7
                <4> HIDE DEF Placed
                <4> QED BY <3>1, <3>2, <4>1, <4>2
            <3> QED BY <3>6, <3>7
        <2> QED BY <1>0, <2>1, <2>2
    <1>5. S = Nat
        <2>1. S \in SUBSET Nat
            OBVIOUS
        <2> HIDE DEF S
        <2> QED BY <1>3, <1>4, <2>1, Induction
    <1>6. PICK p : Len(f[n]) <= n /\ Placed(f[n], n, p)
        BY <1>0, <1>5
    <1>7. f[n] \in Seq(X) /\ Len(f[n]) \in Nat
        BY <1>0, <1>2
    <1> QED BY <1>0, <1>1, <1>6, <1>7

LEMMA FlattenElements ==
    ASSUME NEW X, NEW ss \in Seq(Seq(X))
    PROVE  FlattenSeq(ss) \in Seq(X) /\ ToSet(FlattenSeq(ss)) = UNION {ToSet(ss[i]) : i \in DOMAIN ss}
    <1> DEFINE n == Len(ss)
               next == [i \in 1 .. n |-> [t \in Seq(X) |-> t \o ss[i]]]
    <1>0. n \in Nat /\ DOMAIN ss = 1 .. n /\ \A i \in 1 .. n : ss[i] \in Seq(X)
        OBVIOUS
    <1>1. CASE n = 0
        <2>1. FlattenSeq(ss) = ss /\ ss = <<>> /\ DOMAIN ss = {}
            BY <1>0, <1>1 DEF FlattenSeq
        <2>2. ToSet(FlattenSeq(ss)) = {}
            BY <2>1 DEF ToSet
        <2> QED BY <2>1, <2>2
    <1>2. CASE n # 0
        <2>1. next \in [1 .. n -> [Seq(X) -> Seq(X)]]
            BY <1>0, ConcatElements
        <2>2. PICK f \in [0 .. n -> Seq(X)] : f[0] = <<>> /\ \A i \in 1 .. n : f[i] = next[i][f[i - 1]]
            <3>1. <<>> \in Seq(X) OBVIOUS
            <3>2. Stepping(next, n, Seq(X))
                BY <2>1 DEF Stepping
            <3> HIDE DEF n, next
            <3>3. \E f : Runs(f, next, n, Seq(X), <<>>)
                BY <1>0, <3>1, <3>2, Recursion
            <3> QED BY <3>3 DEF Runs
        <2>3. \A i \in 1 .. n : f[i - 1] \in Seq(X) /\ f[i] = f[i - 1] \o ss[i]
            <3> TAKE i \in 1 .. n
            <3>1. i - 1 \in 0 .. n
                BY <1>0
            <3>2. f[i - 1] \in Seq(X) /\ f[i] = next[i][f[i - 1]]
                BY <2>2, <3>1
            <3>3. next[i] = [t \in Seq(X) |-> t \o ss[i]]
                OBVIOUS
            <3> HIDE DEF next
            <3> QED BY <3>2, <3>3
        <2> DEFINE Rhs(g) == [i \in 1 .. n |-> IF i = 1 THEN ss[i] ELSE g[i - 1] \o ss[i]]
                   flatten == CHOOSE g : g = Rhs(g)
        <2> HIDE DEF next
        <2>4. 1 \in 1 .. n /\ f[1] = ss[1]
            <3>1. 1 \in 1 .. n /\ 1 - 1 = 0
                BY <1>0, <1>2
            <3>2. f[1] = <<>> \o ss[1]
                BY <2>2, <2>3, <3>1
            <3>3. <<>> \o ss[1] = ss[1]
                BY <1>0, <3>1, ConcatEmptySeq
            <3> QED BY <3>1, <3>2, <3>3
        <2>5. \E g : g = Rhs(g)
            <3> DEFINE g == [i \in 1 .. n |-> f[i]]
            <3>1. \A i \in 1 .. n : i # 1 => i - 1 \in 1 .. n
                BY <1>0
            <3>2. g = Rhs(g)
                BY <2>3, <2>4, <3>1
            <3> QED BY <3>2
        <2>6. flatten = Rhs(flatten)
            BY <2>5
        <2>7. FlattenSeq(ss) = flatten[n]
            BY <1>2 DEF FlattenSeq
        <2> HIDE DEF flatten
        <2> DEFINE h == [i \in 0 .. n |-> IF i = 0 THEN f[0] ELSE flatten[i]]
        <2>8. h[0] = f[0]
            BY <1>0
        <2>9. ASSUME NEW i \in 1 .. n, h[i - 1] = f[i - 1] PROVE h[i] = f[i]
            <3>1. i \in 0 .. n /\ i # 0 /\ i - 1 \in 0 .. n
                BY <1>0
            <3>2. h[i] = flatten[i]
                BY <3>1
            <3>3. flatten[i] = Rhs(flatten)[i]
                BY <2>6
            <3>4. CASE i = 1
                BY <2>4, <3>2, <3>3, <3>4
            <3>5. CASE i # 1
                <4>1. i - 1 # 0
                    BY <3>5
                <4>2. flatten[i - 1] = f[i - 1]
                    BY <2>9, <3>1, <4>1
                <4>3. flatten[i] = flatten[i - 1] \o ss[i]
                    BY <3>3, <3>5
                <4> HIDE DEF h
                <4> QED BY <2>3, <3>2, <4>2, <4>3
            <3> QED BY <3>4, <3>5
        <2>10. h[n] = f[n]
            <3> HIDE DEF n, h
            <3>1. \A i \in 0 .. n : h[i] = f[i]
                BY <1>0, <2>8, <2>9, Unrolled
            <3> QED BY <1>0, <3>1
        <2>11. flatten[n] = f[n]
            BY <1>0, <1>2, <2>10
        <2> DEFINE Upto(k) == UNION {ToSet(ss[j]) : j \in 1 .. k}
                   Good == {k \in Nat : k > n \/ ToSet(f[k]) = Upto(k)}
        <2>12. 0 \in Good
            BY <2>2 DEF ToSet
        <2>13. ASSUME NEW k \in Good PROVE k + 1 \in Good
            <3>1. CASE k + 1 > n
                BY <3>1
            <3>2. CASE k + 1 <= n
                <4>1. k + 1 \in 1 .. n /\ f[k] \in Seq(X) /\ ss[k + 1] \in Seq(X) /\ ToSet(f[k]) = Upto(k)
                    BY <1>0, <2>2, <3>2
                <4>2. f[k + 1] = f[k] \o ss[k + 1]
                    <5>1. (k + 1) - 1 = k OBVIOUS
                    <5> QED BY <2>3, <4>1, <5>1
                <4>3. Upto(k + 1) = Upto(k) \cup ToSet(ss[k + 1])
                    <5>1. 1 .. k + 1 = (1 .. k) \cup {k + 1}
                        BY <4>1
                    <5> QED BY <5>1
                <4>4. ToSet(f[k + 1]) = Upto(k + 1)
                    <5>1. ToSet(f[k] \o ss[k + 1]) = ToSet(f[k]) \cup ToSet(ss[k + 1])
                        BY <4>1, ConcatElements
                    <5> HIDE DEF Upto
                    <5> QED BY <4>1, <4>2, <4>3, <5>1
                <4> QED BY <4>4
            <3> QED BY <1>0, <3>1, <3>2
        <2>14. Good = Nat
            BY <2>12, <2>13, Induction
        <2>15. ToSet(f[n]) = Upto(n)
            <3> HIDE DEF n, Upto
            <3>1. n \in Good
                BY <1>0, <2>14
            <3>2. ~(n > n)
                BY <1>0
            <3> QED BY <3>1, <3>2
        <2> QED BY <1>0, <2>2, <2>7, <2>11, <2>15
    <1> QED BY <1>1, <1>2

-----------------------------------------------------------------------------
(* What a step of a call gathers *)

Around == <<world, active, retired, sources, answered, calls, events, window>>

LEMMA Gathers ==
    ASSUME NEW more, Gather(more)
    PROVE  /\ pc' = After[pc]
           /\ DOMAIN job' = DOMAIN more \cup DOMAIN job
           /\ \A f \in DOMAIN more : job'[f] = more[f]
           /\ \A f \in DOMAIN job \ DOMAIN more : job'[f] = job[f]
    BY DEF Gather, Over

\* The stages one by one, and what each adds to the fields.
LEMMA Stations ==
    /\ After["embed"] = "memories" /\ Gathered["memories"] = Gathered["embed"]
    /\ After["memories"] = "files"
    /\ Gathered["files"] = Gathered["memories"] \cup {"memories", "governor"}
    /\ After["files"] = "diffs"
    /\ Gathered["diffs"] = Gathered["files"] \cup {"files", "fileStatus"}
    /\ After["diffs"] = "structural"
    /\ Gathered["structural"] = Gathered["diffs"] \cup {"diffs"}
    /\ After["structural"] = "runtime"
    /\ Gathered["runtime"] = Gathered["structural"] \cup {"walk", "structural"}
    /\ After["runtime"] = "workflow"
    /\ Gathered["workflow"] = Gathered["runtime"] \cup {"runtime"}
    /\ After["workflow"] = "assemble"
    /\ Gathered["assemble"] = Gathered["workflow"] \cup {"workflow"}
    /\ After["assemble"] = "rerank"
    /\ Gathered["rerank"] = Gathered["assemble"]
                              \cup {"learned", "signals", "hard", "forbidden", "allowed", "items"}
    /\ After["rerank"] = "compress" /\ Gathered["compress"] = Gathered["rerank"]
    /\ After["compress"] = "persist"
    /\ Gathered["persist"] = Gathered["compress"] \cup {"context", "kept", "dropped", "bundle"}
    /\ After["persist"] = "decide" /\ Gathered["decide"] = Gathered["persist"] \cup {"id"}
    /\ After["decide"] = "return" /\ Gathered["return"] = Gathered["decide"]
    /\ Gathered["idle"] = {} /\ Gathered["embed"] = {"req"}
    /\ Stages = {"embed", "memories", "files", "diffs", "structural", "runtime", "workflow",
                 "assemble", "rerank", "compress", "persist", "decide", "return"}
    <1>1. /\ After["embed"] = "memories" /\ After["memories"] = "files" /\ After["files"] = "diffs"
          /\ After["diffs"] = "structural" /\ After["structural"] = "runtime"
          /\ After["runtime"] = "workflow" /\ After["workflow"] = "assemble"
          /\ After["assemble"] = "rerank" /\ After["rerank"] = "compress"
          /\ After["compress"] = "persist" /\ After["persist"] = "decide"
          /\ After["decide"] = "return"
        BY DEF After
    <1>2. Stages = {"embed", "memories", "files", "diffs", "structural", "runtime", "workflow",
                    "assemble", "rerank", "compress", "persist", "decide", "return"}
        BY DEF Stages, After
    <1> QED BY <1>1, <1>2 DEF Gathered

LEMMA FieldsAt ==
    /\ Gathered["memories"] = {"req"}
    /\ Gathered["files"] = {"req", "memories", "governor"}
    /\ Gathered["diffs"] = {"req", "memories", "governor", "files", "fileStatus"}
    /\ Gathered["structural"] = {"req", "memories", "governor", "files", "fileStatus", "diffs"}
    /\ Gathered["runtime"] = {"req", "memories", "governor", "files", "fileStatus", "diffs",
                              "walk", "structural"}
    /\ Gathered["workflow"] = {"req", "memories", "governor", "files", "fileStatus", "diffs",
                               "walk", "structural", "runtime"}
    /\ Gathered["assemble"] = {"req", "memories", "governor", "files", "fileStatus", "diffs",
                               "walk", "structural", "runtime", "workflow"}
    /\ Gathered["rerank"] = {"req", "memories", "governor", "files", "fileStatus", "diffs",
                             "walk", "structural", "runtime", "workflow", "learned", "signals",
                             "hard", "forbidden", "allowed", "items"}
    /\ Gathered["persist"] = {"req", "memories", "governor", "files", "fileStatus", "diffs",
                              "walk", "structural", "runtime", "workflow", "learned", "signals",
                              "hard", "forbidden", "allowed", "items", "context", "kept",
                              "dropped", "bundle"}
    BY DEF Gathered

LEMMA RerankFields ==
    ASSUME NEW signals, NEW items, NEW answer
    PROVE  DOMAIN Rerank(signals, items, answer) = {"signals", "items"}
    BY DEF Rerank

\* The fields each stage adds.
Adds(fields) == \E more : Gather(more) /\ DOMAIN more = fields

LEMMA StepAdds ==
    ASSUME Step, ~Return
    PROVE  /\ UNCHANGED Around
           /\ \/ pc = "embed" /\ Adds({})
              \/ pc = "memories" /\ Adds({"memories", "governor"})
              \/ pc = "files" /\ Adds({"files", "fileStatus"})
              \/ pc = "diffs" /\ Adds({"diffs"})
              \/ pc = "structural" /\ Adds({"walk", "structural"})
              \/ pc = "runtime" /\ Adds({"runtime"})
              \/ pc = "workflow" /\ Adds({"workflow"})
              \/ pc = "assemble"
                   /\ Adds({"learned", "signals", "hard", "forbidden", "allowed", "items"})
              \/ pc = "rerank" /\ Adds({"signals", "items"})
              \/ pc = "compress" /\ Adds({"context", "kept", "dropped", "bundle"})
              \/ pc = "persist" /\ Adds({"id"})
              \/ pc = "decide" /\ Adds({})
    <1> USE DEF Around, register, tables, Adds
    <1>1. CASE Embed
        BY <1>1 DEF Embed, NoJob
    <1>2. CASE MemoriesStep
        BY <1>2 DEF MemoriesStep
    <1>3. CASE FilesStep
        BY <1>3 DEF FilesStep
    <1>4. CASE DiffsStep
        BY <1>4 DEF DiffsStep
    <1>5. CASE StructuralStep
        BY <1>5 DEF StructuralStep
    <1>6. CASE \E s \in Sources : Probe(s)
        <2>1. PICK s \in Sources : Probe(s)
            BY <1>6
        <2>2. PICK status : Gather([x \in {s} |-> status]) /\ pc = s /\ UNCHANGED Around
            BY <2>1 DEF Probe
        <2>3. DOMAIN [x \in {s} |-> status] = {s} /\ s \in {"runtime", "workflow"}
            BY DEF Sources
        <2>4. Adds({s})
            BY <2>2, <2>3
        <2> QED BY <2>2, <2>3, <2>4
    <1>7. CASE Assemble
        BY <1>7 DEF Assemble
    <1>8. CASE RerankStep
        BY <1>8, RerankFields DEF RerankStep
    <1>9. CASE CompressStep
        <2>1. PICK reply \in {"summary", "blank", "failed"} :
                 Gather(Over([bundle |-> EvidenceBundle(job.learned, job.items)],
                             Compress(job.items, reply)))
            BY <1>9 DEF CompressStep
        <2>2. DOMAIN Compress(job.items, reply) = {"context", "kept", "dropped"}
            BY DEF Compress
        <2>3. DOMAIN [bundle |-> EvidenceBundle(job.learned, job.items)] = {"bundle"}
            OBVIOUS
        <2>4. DOMAIN Over([bundle |-> EvidenceBundle(job.learned, job.items)],
                          Compress(job.items, reply)) = {"context", "kept", "dropped", "bundle"}
            BY <2>2, <2>3 DEF Over
        <2> QED BY <1>9, <2>1, <2>4 DEF CompressStep
    <1>10. CASE Persist
        BY <1>10 DEF Persist
    <1>11. CASE Decide
        BY <1>11 DEF Decide, NoJob
    <1> QED BY <1>1, <1>2, <1>3, <1>4, <1>5, <1>6, <1>7, <1>8, <1>9, <1>10, <1>11 DEF Step

\* What was gathered before stays, but for what the reranker replaces.
LEMMA StepGathers ==
    ASSUME CallInv, pc \in Stages, Step, ~Return
    PROVE  /\ pc' = After[pc] /\ pc' \in Stages
           /\ DOMAIN job' = Gathered[pc'] /\ DOMAIN job \subseteq DOMAIN job'
           /\ \A f \in DOMAIN job : (pc = "rerank" /\ f \in {"signals", "items"}) \/ job'[f] = job[f]
           /\ UNCHANGED Around
    <1>1. DOMAIN job = Gathered[pc]
        BY DEF CallInv
    <1>2. ASSUME NEW fields, Adds(fields), After[pc] \in Stages,
                 Gathered[After[pc]] = Gathered[pc] \cup fields,
                 \/ fields \cap Gathered[pc] = {}
                 \/ pc = "rerank" /\ fields = {"signals", "items"}
          PROVE  /\ pc' = After[pc] /\ pc' \in Stages
                 /\ DOMAIN job' = Gathered[pc'] /\ DOMAIN job \subseteq DOMAIN job'
                 /\ \A f \in DOMAIN job : (pc = "rerank" /\ f \in {"signals", "items"})
                                          \/ job'[f] = job[f]
        <2>1. pc' = After[pc] /\ DOMAIN job' = fields \cup DOMAIN job
              /\ \A f \in DOMAIN job \ fields : job'[f] = job[f]
            BY <1>2, Gathers DEF Adds
        <2> QED BY <1>1, <1>2, <2>1
    <1>3. UNCHANGED Around
        BY StepAdds
    <1>4. CASE pc \in {"embed", "decide"}
        <2>1. Adds({})
            BY <1>4, StepAdds
        <2> HIDE DEF Adds
        <2> QED BY <1>2, <1>3, <1>4, <2>1, FieldsAt, Stations
    <1>5. CASE pc = "memories"
        <2>1. Adds({"memories", "governor"})
            BY <1>5, StepAdds
        <2> HIDE DEF Adds
        <2> QED BY <1>2, <1>3, <1>5, <2>1, FieldsAt, Stations
    <1>6. CASE pc = "files"
        <2>1. Adds({"files", "fileStatus"})
            BY <1>6, StepAdds
        <2> HIDE DEF Adds
        <2> QED BY <1>2, <1>3, <1>6, <2>1, FieldsAt, Stations
    <1>7. CASE pc = "diffs"
        <2>1. Adds({"diffs"})
            BY <1>7, StepAdds
        <2> HIDE DEF Adds
        <2> QED BY <1>2, <1>3, <1>7, <2>1, FieldsAt, Stations
    <1>8. CASE pc = "structural"
        <2>1. Adds({"walk", "structural"})
            BY <1>8, StepAdds
        <2> HIDE DEF Adds
        <2> QED BY <1>2, <1>3, <1>8, <2>1, FieldsAt, Stations
    <1>9. CASE pc \in {"runtime", "workflow"}
        <2>1. Adds({pc})
            BY <1>9, StepAdds
        <2> HIDE DEF Adds
        <2> QED BY <1>2, <1>3, <1>9, <2>1, FieldsAt, Stations
    <1>10. CASE pc = "assemble"
        <2>1. Adds({"learned", "signals", "hard", "forbidden", "allowed", "items"})
            BY <1>10, StepAdds
        <2> HIDE DEF Adds
        <2> QED BY <1>2, <1>3, <1>10, <2>1, FieldsAt, Stations
    <1>11. CASE pc = "rerank"
        <2>1. Adds({"signals", "items"})
            BY <1>11, StepAdds
        <2> HIDE DEF Adds
        <2> QED BY <1>2, <1>3, <1>11, <2>1, FieldsAt, Stations
    <1>12. CASE pc = "compress"
        <2>1. Adds({"context", "kept", "dropped", "bundle"})
            BY <1>12, StepAdds
        <2> HIDE DEF Adds
        <2> QED BY <1>2, <1>3, <1>12, <2>1, FieldsAt, Stations
    <1>13. CASE pc = "persist"
        <2>1. Adds({"id"})
            BY <1>13, StepAdds
        <2> HIDE DEF Adds
        <2> QED BY <1>2, <1>3, <1>13, <2>1, FieldsAt, Stations
    <1> QED BY <1>4, <1>5, <1>6, <1>7, <1>8, <1>9, <1>10, <1>11, <1>12, <1>13, StepAdds

-----------------------------------------------------------------------------
(* Types and fields *)

LEMMA InForceTyped == TypeOK => InForceIds \in SUBSET (1 .. MaxConstraints)
    BY DEF TypeOK, InForceIds

LEMMA InitType == Init => TypeOK
    <1> SUFFICES ASSUME Init PROVE TypeOK OBVIOUS
    <1>1. world \in Worlds /\ IsWorld(world)
        BY BuilderAssumption DEF Init
    <1>2. world.rules \in Seq(Rules) /\ Len(world.rules) <= MaxConstraints
          /\ Len(world.rules) \in Nat /\ DOMAIN world.rules = 1 .. Len(world.rules)
          /\ world.calls \in Nat /\ world.events \in Nat
        BY <1>1 DEF IsWorld
    <1>3. ASSUME NEW r \in Rules, Contains(world.rules, r)
          PROVE  (CHOOSE i \in DOMAIN world.rules : world.rules[i] = r) \in 1 .. MaxConstraints
        <2>1. \E i \in DOMAIN world.rules : world.rules[i] = r
            BY <1>2, <1>3 DEF Contains
        <2> DEFINE i == CHOOSE i \in DOMAIN world.rules : world.rules[i] = r
        <2>2. i \in DOMAIN world.rules
            BY <2>1
        <2> HIDE DEF i
        <2>3. i \in 1 .. MaxConstraints
            BY <1>2, <2>2, BuilderAssumption
        <2> QED BY <2>3 DEF i
    <1>4. active \in [Rules -> 1 .. MaxConstraints \cup {None}]
        BY <1>3 DEF Init
    <1>5. /\ retired \subseteq 1 .. MaxConstraints
          /\ sources \in [Sources -> Statuses]
          /\ cache \in [Sources -> Statuses \cup {None}]
          /\ pc = "idle" /\ DOMAIN job = {} /\ window = NoWindow
          /\ DOMAIN decisions = {} /\ answered = {} /\ calls = 0 /\ events = 0
        BY DEF Init, Statuses, NoJob, NoCache
    <1> QED BY <1>2, <1>4, <1>5 DEF TypeOK

\* The register keeps its types, whatever is added to it.
LEMMA RegisterTyped ==
    ASSUME TypeOK, ChangeConstraint
    PROVE  /\ active' \in [Rules -> 1 .. MaxConstraints \cup {None}]
           /\ retired' \subseteq 1 .. MaxConstraints
    <1> DEFINE added == Cardinality(InForceIds \cup retired)
    <1>1. added \in Nat
        <2>1. IsFiniteSet(1 .. MaxConstraints)
            BY BuilderAssumption, FS_Interval
        <2>2. InForceIds \cup retired \in SUBSET (1 .. MaxConstraints)
            BY InForceTyped DEF TypeOK
        <2>3. IsFiniteSet(InForceIds \cup retired)
            BY <2>1, <2>2, FS_Subset
        <2> QED BY <2>3, FS_CardinalityType
    <1>2. PICK r \in Rules : \/ Register!Retire(r)
                             \/ added < MaxConstraints /\ Register!Add(r, added + 1)
        BY DEF ChangeConstraint
    <1> HIDE DEF added
    <1>3. CASE Register!Retire(r)
        BY <1>3 DEF Register!Retire, TypeOK
    <1>4. CASE added < MaxConstraints /\ Register!Add(r, added + 1)
        <2>1. added + 1 \in 1 .. MaxConstraints
            BY <1>1, <1>4, BuilderAssumption
        <2> QED BY <1>4, <2>1 DEF Register!Add, TypeOK
    <1> QED BY <1>2, <1>3, <1>4

LEMMA StepType == TypeOK /\ CallInv /\ StoredInv /\ [Next]_vars => TypeOK'
    <1> SUFFICES ASSUME TypeOK, CallInv, StoredInv, [Next]_vars PROVE TypeOK' OBVIOUS
    <1> USE DEF register, tables
    <1>0. world.calls \in Nat /\ world.events \in Nat
        BY DEF CallInv, IsWorld
    <1>1. ASSUME NEW req \in world.requests, Call(req) PROVE TypeOK'
        BY <1>0, <1>1 DEF TypeOK, Call, NoCache, Stages, After
    <1>2. CASE Step /\ ~Return
        <2>1. pc \in Stages
            BY <1>2, StepAdds, Stations
        <2>2. /\ pc' \in Stages /\ DOMAIN job' = Gathered[pc']
              /\ UNCHANGED Around
            BY <1>2, <2>1, StepGathers
        <2>3. pc' # "idle" /\ DOMAIN job' # {}
            BY <2>2, Stations, FieldsAt
        <2>4. cache' \in [Sources -> Statuses \cup {None}]
            <3>1. CASE \E s \in Sources : Probe(s)
                BY <3>1 DEF Probe, TypeOK
            <3>2. CASE UNCHANGED cache
                BY <3>2 DEF TypeOK
            <3> QED BY <1>2, <3>1, <3>2 DEF Step, Embed, MemoriesStep, FilesStep, DiffsStep,
                    StructuralStep, Assemble, RerankStep, CompressStep, Persist, Decide
        <2>5. /\ \A i \in DOMAIN decisions' : decisions'[i].brief \in DOMAIN briefs'
              /\ DOMAIN briefs \subseteq DOMAIN briefs'
            <3>1. CASE Persist
                <4>1. briefs' = Append(briefs, job) /\ decisions' = decisions
                    BY <3>1 DEF Persist
                <4>2. DOMAIN briefs \subseteq DOMAIN briefs'
                    BY <4>1, Appended DEF StoredInv
                <4> QED BY <4>1, <4>2 DEF TypeOK
            <3>2. CASE Decide
                <4>1. briefs' = briefs /\ decisions' = Append(decisions, DecisionRow(job))
                      /\ job.id \in DOMAIN briefs
                    BY <3>2 DEF Decide, StoredInv
                <4>2. DecisionRow(job).brief = job.id
                    BY DEF DecisionRow
                <4>3. /\ DOMAIN decisions' = DOMAIN decisions \cup {Len(decisions) + 1}
                      /\ decisions'[Len(decisions) + 1] = DecisionRow(job)
                      /\ \A i \in DOMAIN decisions : decisions'[i] = decisions[i]
                    BY <4>1, Appended DEF StoredInv
                <4> QED BY <4>1, <4>2, <4>3 DEF TypeOK
            <3>3. CASE UNCHANGED tables
                BY <3>3 DEF TypeOK
            <3> QED BY <1>2, <3>1, <3>2, <3>3 DEF Step, Embed, MemoriesStep, FilesStep, DiffsStep,
                    StructuralStep, Probe, Assemble, RerankStep, CompressStep
        <2> QED BY <2>2, <2>3, <2>4, <2>5 DEF TypeOK, Around
    <1>3. CASE Return
        BY <1>3 DEF Return, Done, TypeOK, StoredInv, NoJob, NoWindow
    <1>4. CASE Abort
        BY <1>0, <1>4 DEF Abort, Outside, Done, TypeOK, NoJob, NoWindow
    <1>5. CASE ChangeConstraint
        <2>1. /\ active' \in [Rules -> 1 .. MaxConstraints \cup {None}]
              /\ retired' \subseteq 1 .. MaxConstraints
            BY <1>5, RegisterTyped
        <2> QED BY <1>0, <1>5, <2>1 DEF ChangeConstraint, Outside, TypeOK
    <1>6. CASE ChangeSource
        BY <1>0, <1>6 DEF ChangeSource, Outside, TypeOK
    <1>7. CASE UNCHANGED vars
        BY <1>7 DEF vars, TypeOK
    <1> QED BY <1>1, <1>2, <1>3, <1>4, <1>5, <1>6, <1>7 DEF Next, Step

LEMMA NoWindowSeen == NoWindow \in Seen
    BY DEF NoWindow, Seen

LEMMA InitCall == Init => CallInv
    BY NoWindowSeen, BuilderAssumption, Stations DEF Init, CallInv, Has, NoJob

LEMMA StepCall == TypeOK /\ TypeOK' /\ CallInv /\ [Next]_vars => CallInv'
    <1> SUFFICES ASSUME TypeOK, TypeOK', CallInv, [Next]_vars PROVE CallInv' OBVIOUS
    <1> USE DEF register, tables
    <1>1. InForceIds \in SUBSET (1 .. MaxConstraints) /\ InForceIds' \in SUBSET (1 .. MaxConstraints)
        <2>1. (TypeOK => InForceIds \in SUBSET (1 .. MaxConstraints))'
            BY InForceTyped, PTL
        <2> QED BY InForceTyped, <2>1
    <1>2. ASSUME NEW req \in world.requests, Call(req) PROVE CallInv'
        <2>1. window' = [always |-> InForceIds, ever |-> InForceIds]
              /\ pc' = "embed" /\ job' = [req |-> req] /\ world' = world
            BY <1>2 DEF Call
        <2>2. window' \in Seen
            BY <1>1, <2>1 DEF Seen
        <2>3. DOMAIN job' = {"req"} /\ job'.req = req
            BY <2>1
        <2> QED BY <2>1, <2>2, <2>3, Stations DEF CallInv, Has
    <1>3. CASE Step /\ ~Return
        <2>1. pc \in Stages
            BY <1>3, StepAdds, Stations
        <2>2. "req" \in DOMAIN job
            BY <2>1, FieldsAt, Stations DEF CallInv
        <2>3. job'.req = job.req
            BY <1>3, <2>1, <2>2, StepGathers
        <2> QED BY <1>3, <2>1, <2>2, <2>3, StepGathers DEF CallInv, Has, Around
    <1>4. CASE Return \/ Abort
        BY <1>4, NoWindowSeen, Stations DEF Return, Abort, Done, NoJob, CallInv, Has
    <1>5. CASE ChangeConstraint
        <2>1. CASE pc = "idle"
            BY <1>5, <2>1, NoWindowSeen DEF ChangeConstraint, CallInv, Has
        <2>2. CASE pc # "idle"
            <3>1. window' = [window EXCEPT !.always = @ \cap InForceIds', !.ever = @ \cup InForceIds']
                BY <1>5, <2>2 DEF ChangeConstraint
            <3>2. window' \in Seen
                BY <1>1, <3>1 DEF CallInv, Seen
            <3> QED BY <1>5, <3>2 DEF ChangeConstraint, CallInv, Has
        <2> QED BY <2>1, <2>2
    <1>6. CASE ChangeSource
        BY <1>6 DEF ChangeSource, CallInv, Has
    <1>7. CASE UNCHANGED vars
        BY <1>7 DEF vars, CallInv, Has
    <1> QED BY <1>2, <1>3, <1>4, <1>5, <1>6, <1>7 DEF Next, Step

-----------------------------------------------------------------------------
(* The register and the window *)

LEMMA InitRegister == Init => RegisterInv
    <1> SUFFICES ASSUME Init, NEW q \in Rules, NEW r \in Rules, active[q] = active[r],
                        active[q] # None
                 PROVE  q = r
        BY DEF RegisterInv, Init
    <1> DEFINE place(x) == CHOOSE i \in DOMAIN world.rules : world.rules[i] = x
    <1>1. world.rules \in Seq(Rules) /\ DOMAIN world.rules = 1 .. Len(world.rules)
        BY BuilderAssumption DEF Init, IsWorld
    <1>2. ASSUME NEW x \in Rules, active[x] # None
          PROVE  active[x] = place(x) /\ world.rules[place(x)] = x
        <2>1. active[x] = IF Contains(world.rules, x) THEN place(x) ELSE None
            BY DEF Init
        <2>2. Contains(world.rules, x)
            BY <1>2, <2>1
        <2>3. \E i \in DOMAIN world.rules : world.rules[i] = x
            BY <1>1, <2>2 DEF Contains
        <2> QED BY <2>1, <2>2, <2>3
    <1> HIDE DEF place
    <1> QED BY <1>2

LEMMA StepRegister == TypeOK /\ CallInv /\ RegisterInv /\ [Next]_vars => RegisterInv'
    <1> SUFFICES ASSUME TypeOK, CallInv, RegisterInv, [Next]_vars PROVE RegisterInv' OBVIOUS
    <1> USE DEF register, tables
    <1>1. ASSUME UNCHANGED active, \/ UNCHANGED <<pc, window>>
                                   \/ pc' = "idle"
                                   \/ window'.always = InForceIds /\ window'.ever = InForceIds
                                   \/ /\ window'.always = window.always /\ window'.ever = window.ever
                                      /\ pc # "idle"
          PROVE  RegisterInv'
        <2>1. InForceIds' = InForceIds
            BY <1>1 DEF InForceIds
        <2> QED BY <1>1, <2>1 DEF RegisterInv
    <1>2. ASSUME NEW req \in world.requests, Call(req) PROVE RegisterInv'
        BY <1>1, <1>2 DEF Call
    <1>3. CASE Step /\ ~Return
        <2>1. pc \in Stages
            BY <1>3, StepAdds, Stations
        <2>2. pc # "idle" /\ UNCHANGED Around
            BY <1>3, <2>1, StepGathers, Stations
        <2> QED BY <1>1, <2>2 DEF Around
    <1>4. CASE Return \/ Abort
        BY <1>1, <1>4 DEF Return, Abort, Done
    <1>5. CASE ChangeConstraint
        <2>0. PICK r \in Rules : \E i : Register!Retire(r) \/ Register!Add(r, i)
            BY <1>5 DEF ChangeConstraint
        <2>1. PICK i : Register!Retire(r) \/ Register!Add(r, i)
            BY <2>0
        <2>2. \A p, q \in Rules : active'[p] = active'[q] /\ active'[p] # None => p = q
            <3>1. CASE Register!Retire(r)
                <4>1. /\ active'[r] = None
                      /\ \A q \in Rules \ {r} : active'[q] = active[q]
                    BY <3>1 DEF Register!Retire, TypeOK
                <4> QED BY <4>1 DEF RegisterInv
            <3>2. CASE Register!Add(r, i)
                <4>1. /\ active'[r] = i
                      /\ \A q \in Rules \ {r} : active'[q] = active[q]
                      /\ \A q \in Rules : active[q] # i
                    BY <3>2 DEF Register!Add, TypeOK
                <4> QED BY <4>1 DEF RegisterInv
            <3> QED BY <2>1, <3>1, <3>2
        <2>3. ASSUME pc # "idle"
              PROVE  window'.always \subseteq InForceIds' /\ InForceIds' \subseteq window'.ever
            <3>1. window' = [window EXCEPT !.always = @ \cap InForceIds', !.ever = @ \cup InForceIds']
                BY <1>5, <2>3 DEF ChangeConstraint
            <3>2. window'.always = window.always \cap InForceIds'
                  /\ window'.ever = window.ever \cup InForceIds'
                BY <3>1 DEF CallInv, Seen
            <3> QED BY <3>2
        <2>4. pc' = pc
            BY <1>5 DEF ChangeConstraint
        <2> QED BY <2>2, <2>3, <2>4 DEF RegisterInv
    <1>6. CASE ChangeSource
        BY <1>1, <1>6 DEF ChangeSource
    <1>7. CASE UNCHANGED vars
        BY <1>1, <1>7 DEF vars
    <1> QED BY <1>2, <1>3, <1>4, <1>5, <1>6, <1>7 DEF Next, Step

-----------------------------------------------------------------------------
(* What was retrieved *)

LEMMA InitRetrieved == Init => RetrievedInv
    BY DEF Init, RetrievedInv, Has, NoJob

\* A step that leaves the fields of the retrieval alone.
LEMMA RetrievalKept ==
    ASSUME RetrievedInv, world' = world, DOMAIN job = DOMAIN job',
           \A f \in {"req", "memories", "governor", "files", "diffs", "walk", "structural"} :
              job'[f] = job[f]
    PROVE  RetrievedInv'
    BY DEF RetrievedInv, Has, Faithful, Read, Mapped

LEMMA StepRetrieved == CallInv /\ RetrievedInv /\ [Next]_vars => RetrievedInv'
    <1> SUFFICES ASSUME CallInv, RetrievedInv, [Next]_vars PROVE RetrievedInv' OBVIOUS
    <1> USE DEF register, tables
    <1>1. ASSUME NEW req \in world.requests, Call(req) PROVE RetrievedInv'
        <2>1. job' = [req |-> req]
            BY <1>1 DEF Call
        <2>2. DOMAIN job' = {"req"}
            BY <2>1
        <2> QED BY <2>2 DEF RetrievedInv, Has
    <1>2. CASE Step /\ ~Return
        <2>0. pc \in Stages
            BY <1>2, StepAdds, Stations
        <2>1. /\ DOMAIN job = Gathered[pc] /\ DOMAIN job' = Gathered[pc'] /\ pc' = After[pc]
              /\ DOMAIN job \subseteq DOMAIN job'
              /\ \A f \in DOMAIN job : (pc = "rerank" /\ f \in {"signals", "items"}) \/ job'[f] = job[f]
              /\ world' = world
            BY <1>2, <2>0, StepGathers DEF Around, CallInv
        <2>2. \A f \in {"req", "memories", "governor", "files", "diffs", "walk", "structural"} :
                 f \in DOMAIN job => job'[f] = job[f]
            BY <2>1
        <2>3. CASE Embed
            <3>1. DOMAIN job' = {"req"}
                BY <2>1, <2>3, Stations, FieldsAt DEF Embed
            <3> QED BY <3>1 DEF RetrievedInv, Has
        <2>4. CASE MemoriesStep
            <3>1. DOMAIN job' = {"req", "memories", "governor"} /\ job'.req = job.req
                BY <2>1, <2>2, <2>4, Stations, FieldsAt DEF MemoriesStep
            <3>2. PICK memories : memories = Mapped(RetrieveMemories(world, job.req), WithFindings)
                OBVIOUS
            <3>3. PICK more : more = [memories |-> memories, governor |-> Governor(memories)]
                OBVIOUS
            <3>4. Gather(more)
                BY <2>4, <3>2, <3>3 DEF MemoriesStep
            <3>5. job'.memories = memories /\ job'.governor = Governor(memories)
                <4>1. "memories" \in DOMAIN more /\ more.memories = memories /\ more.governor = Governor(memories) /\ "governor" \in DOMAIN more
                    BY <3>3
                <4> QED BY <3>4, <4>1, Gathers
            <3>6. Faithful(job)'
                BY <2>1, <3>1, <3>2, <3>5 DEF Faithful, Mapped
            <3> HIDE DEF Faithful
            <3> QED BY <3>1, <3>6 DEF RetrievedInv, Has
        <2>5. CASE FilesStep
            <3>1. DOMAIN job' = {"req", "memories", "governor", "files", "fileStatus"}
                  /\ DOMAIN job = {"req", "memories", "governor"}
                BY <2>1, <2>5, Stations, FieldsAt DEF FilesStep
            <3>2. PICK files : files = Read(job, RetrieveFileSignals(world, job.req))
                OBVIOUS
            <3>3. PICK more : more = [files |-> files,
                                      fileStatus |-> FilesStatus(files, job.req, job.governor)]
                OBVIOUS
            <3>4. Gather(more)
                BY <2>5, <3>2, <3>3 DEF FilesStep, Read
            <3>5. job'.files = files
                <4>1. "files" \in DOMAIN more /\ more.files = files
                    BY <3>3
                <4> QED BY <3>4, <4>1, Gathers
            <3> QED BY <2>1, <2>2, <3>1, <3>2, <3>5 DEF RetrievedInv, Has, Faithful, Mapped, Read
        <2>6. CASE DiffsStep
            <3>1. DOMAIN job' = {"req", "memories", "governor", "files", "fileStatus", "diffs"}
                  /\ DOMAIN job = {"req", "memories", "governor", "files", "fileStatus"}
                BY <2>1, <2>6, Stations, FieldsAt DEF DiffsStep
            <3>2. PICK diffs : diffs = Read(job, RetrieveDiffs(world, job.req))
                OBVIOUS
            <3>3. PICK more : more = [diffs |-> diffs]
                OBVIOUS
            <3>4. Gather(more)
                BY <2>6, <3>2, <3>3 DEF DiffsStep, Read
            <3>5. job'.diffs = diffs
                <4>1. "diffs" \in DOMAIN more /\ more.diffs = diffs
                    BY <3>3
                <4> QED BY <3>4, <4>1, Gathers
            <3> QED BY <2>1, <2>2, <3>1, <3>2, <3>5 DEF RetrievedInv, Has, Faithful, Mapped, Read
        <2>7. CASE StructuralStep
            <3>1. DOMAIN job' = {"req", "memories", "governor", "files", "fileStatus", "diffs",
                                 "walk", "structural"}
                  /\ DOMAIN job = {"req", "memories", "governor", "files", "fileStatus", "diffs"}
                BY <2>1, <2>7, Stations, FieldsAt DEF StructuralStep
            <3>2. PICK found : found = RetrieveStructural(Parsed(world.symbols, job.req.files))
                OBVIOUS
            <3>3. PICK walk, structural :
                     /\ Gather([walk |-> walk, structural |-> structural])
                     /\ structural = IF walk = "success" THEN found ELSE <<>>
                BY <2>7, <3>2 DEF StructuralStep
            <3>4. PICK more : more = [walk |-> walk, structural |-> structural]
                OBVIOUS
            <3>5. job'.structural = structural /\ job'.walk = walk
                <4>1. /\ {"walk", "structural"} \subseteq DOMAIN more
                      /\ more.structural = structural /\ more.walk = walk
                    BY <3>4
                <4>2. Gather(more)
                    BY <3>3, <3>4
                <4> QED BY <4>1, <4>2, Gathers
            <3> HIDE DEF Parsed, RetrieveStructural
            <3> QED BY <2>1, <2>2, <3>1, <3>2, <3>3, <3>5 DEF RetrievedInv, Has, Faithful, Mapped, Read
        <2>8. CASE /\ "structural" \in DOMAIN job
                   /\ \A f \in {"memories", "files", "diffs", "walk"} : f \in DOMAIN job
            <3>1. \A f \in {"req", "memories", "governor", "files", "diffs", "walk", "structural"} :
                     f \in DOMAIN job /\ f \in DOMAIN job'
                BY <2>0, <2>1, <2>8, Stations, FieldsAt DEF Gathered
            <3> QED BY <2>1, <2>2, <2>8, <3>1 DEF RetrievedInv, Has, Faithful, Mapped, Read
        <2> QED BY <1>2, <2>0, <2>1, <2>3, <2>4, <2>5, <2>6, <2>7, <2>8, Stations, FieldsAt
                DEF Step, Probe, Assemble, RerankStep, CompressStep, Persist, Decide, Sources
    <1>3. CASE Return \/ Abort
        BY <1>3 DEF Return, Abort, Done, NoJob, RetrievedInv, Has
    <1>4. CASE ChangeConstraint \/ ChangeSource \/ UNCHANGED vars
        <2>1. UNCHANGED <<world, job>>
            BY <1>4 DEF ChangeConstraint, ChangeSource, vars
        <2> QED BY <2>1, RetrievalKept
    <1> QED BY <1>1, <1>2, <1>3, <1>4 DEF Next, Step

-----------------------------------------------------------------------------
(* Tables *)

LEMMA Mapping ==
    ASSUME NEW s, s \in Seq(ToSet(s)), NEW t, DOMAIN t = DOMAIN s, t = [i \in DOMAIN t |-> t[i]]
    PROVE  t \in Seq(ToSet(t)) /\ Len(t) = Len(s)
    <1>1. Len(s) \in Nat /\ DOMAIN s = 1 .. Len(s)
        OBVIOUS
    <1>2. t \in [1 .. Len(s) -> ToSet(t)]
        BY <1>1 DEF ToSet
    <1> QED BY <1>1, <1>2, IsASeq, LenProperties

\* A choice of rows, in any order, has what the rows had.
LEMMA SubTable ==
    ASSUME NEW columns, NEW numbers, NEW s, Table(s, columns, numbers), NEW t \in Seq(ToSet(s))
    PROVE  Table(t, columns, numbers)
    BY OwnElements DEF Table

LEMMA ConcatTable ==
    ASSUME NEW columns, NEW numbers, NEW s, Table(s, columns, numbers),
           NEW t, Table(t, columns, numbers)
    PROVE  Table(s \o t, columns, numbers) /\ ToSet(s \o t) = ToSet(s) \cup ToSet(t)
    <1> DEFINE X == ToSet(s) \cup ToSet(t)
    <1>1. s \in Seq(X) /\ t \in Seq(X)
        <2>1. /\ s \in [1 .. Len(s) -> ToSet(s)] /\ Len(s) \in Nat
              /\ t \in [1 .. Len(t) -> ToSet(t)] /\ Len(t) \in Nat
            BY LenProperties DEF Table
        <2>2. s \in [1 .. Len(s) -> X] /\ t \in [1 .. Len(t) -> X]
            BY <2>1
        <2> QED BY <2>1, <2>2, IsASeq
    <1>2. s \o t \in Seq(X) /\ ToSet(s \o t) = X
        BY <1>1, ConcatElements
    <1>3. s \o t \in Seq(ToSet(s \o t))
        BY <1>2
    <1> QED BY <1>2, <1>3 DEF Table

LEMMA WeakTable ==
    ASSUME NEW columns, NEW numbers, NEW fewer, NEW less, NEW s, Table(s, columns, numbers),
           fewer \subseteq columns \cup numbers, less \subseteq numbers
    PROVE  Table(s, fewer, less)
    BY DEF Table

LEMMA EmptyTable ==
    ASSUME NEW columns, NEW numbers PROVE Table(<<>>, columns, numbers) /\ ToSet(<<>>) = {}
    BY DEF Table, ToSet

LEMMA TakeTable ==
    ASSUME NEW columns, NEW numbers, NEW s, Table(s, columns, numbers), NEW n \in Nat
    PROVE  Table(Take(s, n), columns, numbers) /\ ToSet(Take(s, n)) \subseteq ToSet(s)
    <1>1. Take(s, n) \in Seq(ToSet(s)) /\ ToSet(Take(s, n)) \subseteq ToSet(s)
        BY TakeElements DEF Table
    <1> QED BY <1>1, SubTable

LEMMA AtTable ==
    ASSUME NEW columns, NEW numbers, NEW s, Table(s, columns, numbers), NEW I
    PROVE  /\ Table(At(s, I), columns, numbers)
           /\ ToSet(At(s, I)) = {s[i] : i \in I \cap DOMAIN s}
    <1>1. At(s, I) \in Seq(ToSet(s)) /\ ToSet(At(s, I)) = {s[i] : i \in I \cap DOMAIN s}
        BY AtElements DEF Table
    <1> QED BY <1>1, SubTable

LEMMA SortedTable ==
    ASSUME NEW columns, NEW numbers, NEW s, Table(s, columns, numbers),
           NEW before, Comparing(before, Len(s))
    PROVE  Table(StableSort(s, before), columns, numbers) /\ ToSet(StableSort(s, before)) = ToSet(s)
    <1>1. StableSort(s, before) \in Seq(ToSet(s)) /\ ToSet(StableSort(s, before)) = ToSet(s)
        BY SortedElements DEF Table
    <1> QED BY <1>1, SubTable

-----------------------------------------------------------------------------
(* What the queries return *)

MemoryNumbers == Texts \cup {"confidence", "learned"}
FileNumbers == Texts \cup {"churn", "entropy", "defects", "recency"}
DiffNumbers == Texts \cup {"recency", "pairs"}

\* Rows of one tenant, where a request names one.
OwnRows(rows, req) == \A x \in ToSet(rows) : InTenant(x, req.tenant)

LEMMA MemoryRows ==
    ASSUME NEW w, IsWorld(w), NEW req
    PROVE  LET rows == RetrieveMemories(w, req)
           IN  /\ Table(rows, {"tenant", "type", "enrichment"}, MemoryNumbers)
               /\ ToSet(rows) \subseteq ToSet(w.memories)
               /\ OwnRows(rows, req)
    <1> DEFINE I == {i \in DOMAIN w.memories :
                        /\ req.scope = None \/ w.memories[i].scope = req.scope
                        /\ InTenant(w.memories[i], req.tenant)}
               found == At(w.memories, I)
    <1>1. Table(w.memories, {"tenant", "type", "enrichment"}, MemoryNumbers)
        BY DEF IsWorld, MemoryNumbers
    <1>2. Table(found, {"tenant", "type", "enrichment"}, MemoryNumbers)
          /\ ToSet(found) = {w.memories[i] : i \in I}
        <2>1. I \cap DOMAIN w.memories = I
            OBVIOUS
        <2> HIDE DEF I
        <2> QED BY <1>1, <2>1, AtTable
    <1>3. \A x \in ToSet(found) : InTenant(x, req.tenant) /\ x \in ToSet(w.memories)
        BY <1>2 DEF ToSet
    <1>4. RetrieveMemories(w, req) = Take(found, MemoryLimit)
        BY DEF RetrieveMemories, Where
    <1> HIDE DEF found
    <1>5. MemoryLimit \in Nat
        BY BuilderAssumption DEF RetrievalAssumption
    <1>6. Table(Take(found, MemoryLimit), {"tenant", "type", "enrichment"}, MemoryNumbers)
          /\ ToSet(Take(found, MemoryLimit)) \subseteq ToSet(found)
        BY <1>2, <1>5, TakeTable
    <1> QED BY <1>3, <1>4, <1>6 DEF OwnRows

LEMMA DiffRows ==
    ASSUME NEW w, IsWorld(w), NEW req
    PROVE  LET rows == RetrieveDiffs(w, req)
           IN  Table(rows, {"tenant"}, DiffNumbers) /\ OwnRows(rows, req)
    <1> DEFINE I == {i \in DOMAIN w.commits :
                        /\ req.scope = None \/ req.scope \in w.commits[i].touches
                        /\ InTenant(w.commits[i], req.tenant)}
               found == At(w.commits, I)
    <1>1. Table(w.commits, {"tenant"}, DiffNumbers)
        BY DEF IsWorld, DiffNumbers
    <1>2. Table(found, {"tenant"}, DiffNumbers) /\ ToSet(found) = {w.commits[i] : i \in I}
        <2>1. I \cap DOMAIN w.commits = I
            OBVIOUS
        <2> HIDE DEF I
        <2> QED BY <1>1, <2>1, AtTable
    <1>3. \A x \in ToSet(found) : InTenant(x, req.tenant)
        BY <1>2
    <1>4. RetrieveDiffs(w, req) = Take(found, DiffLimit)
        BY DEF RetrieveDiffs, Where
    <1> HIDE DEF found
    <1>5. DiffLimit \in Nat
        BY BuilderAssumption DEF RetrievalAssumption
    <1>6. Table(Take(found, DiffLimit), {"tenant"}, DiffNumbers)
          /\ ToSet(Take(found, DiffLimit)) \subseteq ToSet(found)
        BY <1>2, <1>5, TakeTable
    <1> QED BY <1>3, <1>4, <1>6 DEF OwnRows

LEMMA FileRows ==
    ASSUME NEW w, IsWorld(w), NEW req
    PROVE  LET rows == RetrieveFileSignals(w, req)
           IN  Table(rows, {"tenant"}, FileNumbers \cup {"fragility"}) /\ OwnRows(rows, req)
    <1> DEFINE I == {i \in DOMAIN w.files : /\ Contains(req.files, w.files[i].id)
                                            /\ InTenant(w.files[i], req.tenant)}
               found == At(w.files, I)
               rows == [i \in DOMAIN found |->
                           Over([fragility |-> Fragility(found[i])], found[i])]
    <1>1. Table(w.files, {"tenant"}, FileNumbers)
        BY DEF IsWorld, FileNumbers
    <1>2. Table(found, {"tenant"}, FileNumbers) /\ ToSet(found) = {w.files[i] : i \in I}
        <2>1. I \cap DOMAIN w.files = I
            OBVIOUS
        <2> HIDE DEF I
        <2> QED BY <1>1, <2>1, AtTable
    <1>3. \A x \in ToSet(found) : InTenant(x, req.tenant)
        BY <1>2
    <1>4. RetrieveFileSignals(w, req) = rows
        BY DEF RetrieveFileSignals, Where, Mapped
    <1>5. ASSUME NEW i \in DOMAIN found
          PROVE  /\ {"tenant", "fragility"} \cup FileNumbers \subseteq DOMAIN rows[i]
                 /\ \A n \in FileNumbers \cup {"fragility"} : rows[i][n] \in Int
                 /\ rows[i].chars >= 0 /\ rows[i].tokens >= 0
                 /\ InTenant(rows[i], req.tenant)
        <2>1. PICK f : f = found[i]
            OBVIOUS
        <2>2. f \in ToSet(found)
            BY <2>1 DEF ToSet
        <2>3. /\ {"tenant"} \cup FileNumbers \subseteq DOMAIN f
              /\ \A n \in FileNumbers : f[n] \in Int
              /\ f.chars >= 0 /\ f.tokens >= 0
              /\ InTenant(f, req.tenant)
            BY <1>2, <1>3, <2>2 DEF Table, FileNumbers, Texts
        <2>4. Fragility(f) \in Int
            <3>1. f.churn \in Int /\ f.entropy \in Int
                BY <2>3 DEF FileNumbers
            <3>2. \A a \in Int : a \div 100 \in Int
                OBVIOUS
            <3>3. 45 * f.churn + 35 * f.entropy + 15 * (IF f.defects > 0 THEN 1000 ELSE 0) \in Int
                BY <3>1
            <3> QED BY <3>2, <3>3 DEF Fragility, Lesser
        <2>5. PICK new : new = [fragility |-> Fragility(f)]
            OBVIOUS
        <2>6. DOMAIN new = {"fragility"} /\ new.fragility \in Int
            BY <2>4, <2>5
        <2>7. rows[i] = Over(new, f)
            BY <2>1, <2>5
        <2>8. /\ DOMAIN rows[i] = {"fragility"} \cup DOMAIN f
              /\ rows[i].fragility \in Int
              /\ \A c \in DOMAIN f \ {"fragility"} : rows[i][c] = f[c]
            <3> HIDE DEF rows
            <3> QED BY <2>6, <2>7 DEF Over
        <2>9. "fragility" \notin {"tenant"} \cup FileNumbers /\ {"chars", "tokens"} \subseteq FileNumbers
            BY DEF FileNumbers, Texts
        <2> QED BY <2>3, <2>8, <2>9 DEF InTenant
    <1> HIDE DEF found
    <1>6. rows \in Seq(ToSet(rows))
        BY <1>2, Mapping DEF Table
    <1>7. \A x \in ToSet(rows) : \E i \in DOMAIN found : x = rows[i]
        BY DEF ToSet
    <1> HIDE DEF rows
    <1> QED BY <1>4, <1>5, <1>6, <1>7 DEF OwnRows, Table

-----------------------------------------------------------------------------
(* The four sorts of the program *)

ByScore(s) == SortedBy(s, HigherScore)
ByWorth(s) == SortedBy(s, BestFirst)
ByGravity(s) == SortedBy(s, Worst)
ByAge(s) == SortedBy(s, LAMBDA c, d : c.id > d.id)

LEMMA ScoreSorts ==
    ASSUME NEW columns, NEW numbers, NEW s, Table(s, columns, numbers), "score" \in numbers
    PROVE  \E before : Comparing(before, Len(s)) /\ ByScore(s) = StableSort(s, before)
    <1> DEFINE before == [i \in 1 .. Len(s) |-> {j \in 1 .. Len(s) : s[j].score > s[i].score}]
    <1>1. DOMAIN s = 1 .. Len(s) /\ \A i \in 1 .. Len(s) : s[i].score \in Int
        BY DEF Table, ToSet
    <1>2. Comparing(before, Len(s))
        BY <1>1 DEF Comparing
    <1>3. \A i, j \in DOMAIN s : j \in before[i] <=> HigherScore(s[j], s[i])
        BY <1>1 DEF HigherScore
    <1> HIDE DEF before
    <1>4. Stable(before, Len(s)) = [i \in DOMAIN s |->
                                      {j \in DOMAIN s : HigherScore(s[j], s[i])
                                                          \/ (~HigherScore(s[i], s[j]) /\ j < i)}]
        BY <1>1, <1>3 DEF Stable
    <1>5. ByScore(s) = StableSort(s, before)
        BY <1>4 DEF ByScore, SortedBy, StableSort
    <1> QED BY <1>2, <1>5

LEMMA ScoreOrder ==
    ASSUME NEW columns, NEW numbers, NEW s, Table(s, columns, numbers), "score" \in numbers
    PROVE  Table(ByScore(s), columns, numbers) /\ ToSet(ByScore(s)) = ToSet(s)
    <1>1. PICK before : Comparing(before, Len(s)) /\ ByScore(s) = StableSort(s, before)
        BY ScoreSorts
    <1> QED BY <1>1, SortedTable

LEMMA WorthSorts ==
    ASSUME NEW columns, NEW numbers, NEW s, Table(s, columns, numbers), {"score", "id"} \subseteq numbers
    PROVE  \E before : Comparing(before, Len(s)) /\ ByWorth(s) = StableSort(s, before)
    <1> DEFINE before == [i \in 1 .. Len(s) |-> {j \in 1 .. Len(s) : BestFirst(s[j], s[i])}]
    <1>1. DOMAIN s = 1 .. Len(s) /\ \A i \in 1 .. Len(s) : s[i].score \in Int /\ s[i].id \in Int
        BY DEF Table, ToSet
    <1>2. Comparing(before, Len(s))
        BY <1>1 DEF Comparing, BestFirst
    <1>3. \A i, j \in DOMAIN s : j \in before[i] <=> BestFirst(s[j], s[i])
        BY <1>1
    <1> HIDE DEF before
    <1>4. Stable(before, Len(s)) = [i \in DOMAIN s |->
                                      {j \in DOMAIN s : BestFirst(s[j], s[i])
                                                          \/ (~BestFirst(s[i], s[j]) /\ j < i)}]
        BY <1>1, <1>3 DEF Stable
    <1>5. ByWorth(s) = StableSort(s, before)
        BY <1>4 DEF ByWorth, SortedBy, StableSort
    <1> QED BY <1>2, <1>5

LEMMA WorthOrder ==
    ASSUME NEW columns, NEW numbers, NEW s, Table(s, columns, numbers), {"score", "id"} \subseteq numbers
    PROVE  Table(ByWorth(s), columns, numbers) /\ ToSet(ByWorth(s)) = ToSet(s)
    <1>1. PICK before : Comparing(before, Len(s)) /\ ByWorth(s) = StableSort(s, before)
        BY WorthSorts
    <1> QED BY <1>1, SortedTable

LEMMA GravityOrder ==
    ASSUME NEW columns, NEW numbers, NEW s, Table(s, columns, numbers), {"rank", "line"} \subseteq numbers
    PROVE  Table(ByGravity(s), columns, numbers) /\ ToSet(ByGravity(s)) = ToSet(s)
    <1> DEFINE before == [i \in 1 .. Len(s) |-> {j \in 1 .. Len(s) : Worst(s[j], s[i])}]
    <1>1. DOMAIN s = 1 .. Len(s) /\ \A i \in 1 .. Len(s) : s[i].rank \in Int /\ s[i].line \in Int
        BY DEF Table, ToSet
    <1>2. Comparing(before, Len(s))
        BY <1>1 DEF Comparing, Worst
    <1>3. \A i, j \in DOMAIN s : j \in before[i] <=> Worst(s[j], s[i])
        BY <1>1
    <1> HIDE DEF before
    <1>4. Stable(before, Len(s)) = [i \in DOMAIN s |->
                                      {j \in DOMAIN s : Worst(s[j], s[i])
                                                          \/ (~Worst(s[i], s[j]) /\ j < i)}]
        BY <1>1, <1>3 DEF Stable
    <1>5. ByGravity(s) = StableSort(s, before)
        BY <1>4 DEF ByGravity, SortedBy, StableSort
    <1> QED BY <1>2, <1>5, SortedTable

LEMMA AgeOrder ==
    ASSUME NEW columns, NEW numbers, NEW s, Table(s, columns, numbers), "id" \in numbers
    PROVE  Table(ByAge(s), columns, numbers) /\ ToSet(ByAge(s)) = ToSet(s)
    <1> DEFINE before == [i \in 1 .. Len(s) |-> {j \in 1 .. Len(s) : s[j].id > s[i].id}]
    <1>1. DOMAIN s = 1 .. Len(s) /\ \A i \in 1 .. Len(s) : s[i].id \in Int
        BY DEF Table, ToSet
    <1>2. Comparing(before, Len(s))
        BY <1>1 DEF Comparing
    <1>3. \A i, j \in DOMAIN s : j \in before[i] <=> s[j].id > s[i].id
        BY <1>1
    <1> HIDE DEF before
    <1>4. Stable(before, Len(s)) = [i \in DOMAIN s |->
                                      {j \in DOMAIN s : s[j].id > s[i].id
                                                          \/ (~(s[i].id > s[j].id) /\ j < i)}]
        BY <1>1, <1>3 DEF Stable
    <1>5. ByAge(s) = StableSort(s, before)
        BY <1>4 DEF ByAge, SortedBy, StableSort
    <1> QED BY <1>2, <1>5, SortedTable

LEMMA FlatTable ==
    ASSUME NEW columns, NEW numbers, NEW ss, ss \in Seq(ToSet(ss)),
           \A i \in DOMAIN ss : Table(ss[i], columns, numbers)
    PROVE  /\ Table(FlattenSeq(ss), columns, numbers)
           /\ ToSet(FlattenSeq(ss)) = UNION {ToSet(ss[i]) : i \in DOMAIN ss}
    <1> DEFINE X == UNION {ToSet(ss[i]) : i \in DOMAIN ss}
    <1>1. Len(ss) \in Nat /\ DOMAIN ss = 1 .. Len(ss) /\ ss = [i \in 1 .. Len(ss) |-> ss[i]]
        OBVIOUS
    <1>2. ASSUME NEW i \in DOMAIN ss PROVE ss[i] \in Seq(X)
        <2>1. PICK t : t = ss[i]
            OBVIOUS
        <2>2. t \in Seq(ToSet(t)) /\ ToSet(t) \subseteq X
            BY <2>1 DEF Table
        <2>3. t \in [1 .. Len(t) -> ToSet(t)] /\ Len(t) \in Nat
            BY <2>2, LenProperties
        <2>4. t \in [1 .. Len(t) -> X]
            BY <2>2, <2>3
        <2> QED BY <2>1, <2>3, <2>4, IsASeq
    <1>3. ss \in [1 .. Len(ss) -> Seq(X)]
        BY <1>1, <1>2
    <1>4. ss \in Seq(Seq(X))
        BY <1>1, <1>3, IsASeq
    <1>5. FlattenSeq(ss) \in Seq(X) /\ ToSet(FlattenSeq(ss)) = X
        BY <1>4, FlattenElements
    <1>6. FlattenSeq(ss) \in Seq(ToSet(FlattenSeq(ss)))
        BY <1>5
    <1> QED BY <1>5, <1>6 DEF Table

\* What a cap leaves out of a list in order has the cap's number of findings
\* before it that are no less severe.
LEMMA CapKeepsWorst ==
    ASSUME NEW s, Table(s, {}, Texts \cup {"rank", "line"}), NEW cap \in Nat, NEW p \in DOMAIN s
    PROVE  LET kept == ToSet(Take(ByGravity(s), cap))
           IN  \/ s[p] \in kept
               \/ Cardinality({j \in DOMAIN s : s[j].rank >= s[p].rank /\ s[j] \in kept}) >= cap
    <1> DEFINE n == Len(s)
               before == [i \in 1 .. n |-> {j \in 1 .. n : Worst(s[j], s[i])}]
               at == Listed(1 .. n, Stable(before, n))
               sorted == ByGravity(s)
               kept == ToSet(Take(sorted, cap))
               worse == {j \in DOMAIN s : s[j].rank >= s[p].rank /\ s[j] \in kept}
    <1>1. n \in Nat /\ DOMAIN s = 1 .. n /\ \A i \in 1 .. n : s[i].rank \in Int /\ s[i].line \in Int
        BY DEF Table, ToSet
    <1>2. Comparing(before, n)
        BY <1>1 DEF Comparing, Worst
    <1>3. \A i, j \in 1 .. n : j \in before[i] <=> Worst(s[j], s[i])
        BY <1>1
    <1>4. DOMAIN sorted = 1 .. n /\ \A k \in 1 .. n : sorted[k] = s[at[k]]
        <2> HIDE DEF before
        <2>1. Stable(before, n) = [i \in DOMAIN s |->
                                      {j \in DOMAIN s : Worst(s[j], s[i])
                                                          \/ (~Worst(s[i], s[j]) /\ j < i)}]
            BY <1>1, <1>3 DEF Stable
        <2> QED BY <1>1, <2>1 DEF ByGravity, SortedBy
    <1> HIDE DEF before
    <1>5. /\ at \in [1 .. n -> 1 .. n]
          /\ \A i \in 1 .. n : \E k \in 1 .. n : at[k] = i
          /\ \A k, l \in 1 .. n : k < l => at[k] # at[l] /\ at[l] \notin before[at[k]]
        BY <1>1, <1>2, SortedPlaces
    <1>6. sorted \in Seq(ToSet(s)) /\ Len(sorted) = n
        <2>1. Table(sorted, {}, Texts \cup {"rank", "line"}) /\ ToSet(sorted) = ToSet(s)
            BY GravityOrder
        <2> QED BY <1>1, <1>4, <2>1 DEF Table
    <1> HIDE DEF sorted, at
    <1>7. \A k \in 1 .. n : k <= cap => sorted[k] \in kept
        <2>1. PICK m \in Nat : m = IF n < cap THEN n ELSE cap
            BY <1>1
        <2>2. Take(sorted, cap) = SubSeq(sorted, 1, m)
            BY <1>6, <2>1 DEF Take
        <2> HIDE DEF n
        <2>3. m <= n /\ \A i \in 1 .. n : i <= cap => i \in 1 .. m
            BY <1>1, <2>1
        <2>4. SubSeq(sorted, 1, m) = [i \in 1 .. m |-> sorted[i]]
            BY <1>6, <2>3
        <2> QED BY <2>2, <2>3, <2>4 DEF ToSet
    <1> HIDE DEF n, kept
    <1>8. PICK k \in 1 .. n : at[k] = p
        BY <1>1, <1>5
    <1>9. CASE k <= cap
        BY <1>4, <1>7, <1>8, <1>9 DEF kept, sorted
    <1>10. CASE cap < k
        <2> DEFINE f == [l \in 1 .. cap |-> at[l]]
        <2>1. ASSUME NEW l \in 1 .. cap PROVE at[l] \in worse
            <3>1. l \in 1 .. n /\ l < k /\ l <= cap
                BY <1>1, <1>10
            <3>2. PICK j \in 1 .. n : j = at[l]
                BY <1>5, <3>1
            <3>3. p \notin before[j] /\ p \in 1 .. n
                BY <1>1, <1>5, <1>8, <3>1, <3>2
            <3>4. ~Worst(s[p], s[j])
                BY <1>3, <3>3
            <3>5. s[j].rank >= s[p].rank
                BY <1>1, <3>3, <3>4 DEF Worst
            <3>6. s[j] \in kept
                BY <1>4, <1>7, <3>1, <3>2
            <3> QED BY <1>1, <3>2, <3>5, <3>6
        <2>2. \A l, m \in 1 .. cap : at[l] = at[m] => l = m
            <3>1. \A l, m \in 1 .. cap : l < m => at[l] # at[m]
                BY <1>1, <1>5, <1>10
            <3> QED BY <3>1
        <2> HIDE DEF worse
        <2>3. f \in [1 .. cap -> worse] /\ \A l, m \in 1 .. cap : f[l] = f[m] => l = m
            BY <2>1, <2>2
        <2> HIDE DEF f
        <2>4. f \in Injection(1 .. cap, worse)
            BY <2>3, Fun_IsInj
        <2>5. IsFiniteSet(worse)
            <3>1. IsFiniteSet(1 .. n)
                BY <1>1, FS_Interval
            <3>2. worse \in SUBSET (1 .. n)
                BY <1>1 DEF worse
            <3> QED BY <3>1, <3>2, FS_Subset
        <2>6. Cardinality(1 .. cap) <= Cardinality(worse)
            BY <2>4, <2>5, FS_Injection
        <2>7. Cardinality(1 .. cap) = IF 1 > cap THEN 0 ELSE cap - 1 + 1
            BY FS_Interval
        <2>8. Cardinality(worse) \in Nat
            BY <2>5, FS_CardinalityType
        <2>9. Cardinality(worse) >= cap
            BY <2>6, <2>7, <2>8
        <2> QED BY <2>9 DEF worse, kept, sorted
    <1> QED BY <1>1, <1>8, <1>9, <1>10

-----------------------------------------------------------------------------
(* The memories of a brief and their findings *)

Remembered(w, req) == Mapped(RetrieveMemories(w, req), WithFindings)

FindingTables(m) == \A k \in DOMAIN m.findings : Table(m.findings[k], {}, Texts \cup {"rank", "line"})

LEMMA Extracted ==
    ASSUME NEW enrichment,
           \A k \in DOMAIN enrichment : Table(enrichment[k], {}, Texts \cup {"rank", "line"})
    PROVE  \A k \in DOMAIN ExtractFindings(enrichment) :
              /\ Table(ExtractFindings(enrichment)[k], {}, Texts \cup {"rank", "line"})
              /\ k \in DOMAIN enrichment
              /\ ToSet(ExtractFindings(enrichment)[k]) \subseteq ToSet(enrichment[k])
    <1> SUFFICES ASSUME NEW k \in DOMAIN enrichment
                 PROVE  /\ Table(ExtractFindings(enrichment)[k], {}, Texts \cup {"rank", "line"})
                        /\ ToSet(ExtractFindings(enrichment)[k]) \subseteq ToSet(enrichment[k])
        BY DEF ExtractFindings
    <1>1. PICK found : found = enrichment[k]
        OBVIOUS
    <1>2. Table(found, {}, Texts \cup {"rank", "line"})
        BY <1>1
    <1>3. /\ Table(ByGravity(found), {}, Texts \cup {"rank", "line"})
          /\ ToSet(ByGravity(found)) = ToSet(found)
        BY <1>2, GravityOrder
    <1>4. PICK sorted : sorted = IF k \in SortedKinds THEN ByGravity(found) ELSE found
        OBVIOUS
    <1>5. PICK cap : cap = IF k \in DOMAIN FindingCap THEN FindingCap[k] ELSE Len(found)
        OBVIOUS
    <1>6. cap \in Nat
        <2>1. Len(found) \in Nat
            BY <1>2 DEF Table
        <2> QED BY <1>5, <2>1, BuilderAssumption DEF AssemblyAssumption
    <1>7. ExtractFindings(enrichment)[k] = Take(sorted, cap)
        BY <1>1, <1>4, <1>5 DEF ExtractFindings, ByGravity
    <1>8. Table(sorted, {}, Texts \cup {"rank", "line"}) /\ ToSet(sorted) = ToSet(found)
        BY <1>2, <1>3, <1>4
    <1>9. /\ Table(Take(sorted, cap), {}, Texts \cup {"rank", "line"})
          /\ ToSet(Take(sorted, cap)) \subseteq ToSet(sorted)
        BY <1>6, <1>8, TakeTable
    <1> QED BY <1>1, <1>7, <1>8, <1>9

LEMMA RememberedRows ==
    ASSUME NEW w, IsWorld(w), NEW req
    PROVE  /\ Table(Remembered(w, req), {"tenant", "type", "findings"}, MemoryNumbers)
           /\ OwnRows(Remembered(w, req), req)
           /\ \A m \in ToSet(Remembered(w, req)) : FindingTables(m)
    <1> DEFINE rows == RetrieveMemories(w, req)
               told == Remembered(w, req)
    <1>1. /\ Table(rows, {"tenant", "type", "enrichment"}, MemoryNumbers)
          /\ ToSet(rows) \subseteq ToSet(w.memories)
          /\ OwnRows(rows, req)
        BY MemoryRows
    <1>2. told = [i \in DOMAIN rows |-> WithFindings(rows[i])]
        BY DEF Remembered, Mapped
    <1> HIDE DEF rows, told
    <1>3. ASSUME NEW i \in DOMAIN rows
          PROVE  /\ {"tenant", "type", "findings"} \cup MemoryNumbers \subseteq DOMAIN told[i]
                 /\ \A n \in MemoryNumbers : told[i][n] \in Int
                 /\ told[i].chars >= 0 /\ told[i].tokens >= 0
                 /\ InTenant(told[i], req.tenant)
                 /\ FindingTables(told[i])
        <2>1. PICK m : m = rows[i]
            OBVIOUS
        <2>2. m \in ToSet(rows)
            BY <2>1 DEF ToSet
        <2>3. /\ {"tenant", "type", "enrichment"} \cup MemoryNumbers \subseteq DOMAIN m
              /\ \A n \in MemoryNumbers : m[n] \in Int
              /\ m.chars >= 0 /\ m.tokens >= 0
              /\ InTenant(m, req.tenant)
            BY <1>1, <2>2 DEF Table, OwnRows, MemoryNumbers, Texts
        <2>4. \A k \in DOMAIN m.enrichment : Table(m.enrichment[k], {}, Texts \cup {"rank", "line"})
            BY <1>1, <2>2 DEF IsWorld
        <2>5. PICK findings : findings = ExtractFindings(m.enrichment)
            OBVIOUS
        <2>6. \A k \in DOMAIN findings : Table(findings[k], {}, Texts \cup {"rank", "line"})
            BY <2>4, <2>5, Extracted
        <2>7. PICK new : new = [findings |-> findings]
            OBVIOUS
        <2>8. DOMAIN new = {"findings"} /\ new.findings = findings
            BY <2>7
        <2>9. told[i] = Over(new, m)
            BY <1>2, <2>1, <2>5, <2>7 DEF WithFindings
        <2>10. /\ DOMAIN told[i] = {"findings"} \cup DOMAIN m
               /\ told[i].findings = findings
               /\ \A c \in DOMAIN m \ {"findings"} : told[i][c] = m[c]
            BY <2>8, <2>9 DEF Over
        <2>11. "findings" \notin {"tenant", "type"} \cup MemoryNumbers /\ {"chars", "tokens"} \subseteq MemoryNumbers
            BY DEF MemoryNumbers, Texts
        <2> QED BY <2>3, <2>6, <2>10, <2>11 DEF InTenant, FindingTables
    <1>4. told \in Seq(ToSet(told))
        BY <1>1, <1>2, Mapping DEF Table
    <1>5. \A x \in ToSet(told) : \E i \in DOMAIN rows : x = told[i]
        BY <1>2 DEF ToSet
    <1>6. Table(told, {"tenant", "type", "findings"}, MemoryNumbers)
        BY <1>3, <1>4, <1>5 DEF Table
    <1>7. OwnRows(told, req) /\ \A m \in ToSet(told) : FindingTables(m)
        BY <1>3, <1>5 DEF OwnRows
    <1> QED BY <1>6, <1>7 DEF told

\* Each finding carried with the memory is one that was reported.
LEMMA RememberedFindings ==
    ASSUME NEW w, IsWorld(w), NEW req, NEW m \in ToSet(Remembered(w, req))
    PROVE  /\ m.findings = ExtractFindings(m.enrichment)
           /\ \A k \in DOMAIN m.enrichment : Table(m.enrichment[k], {}, Texts \cup {"rank", "line"})
           /\ \E row \in ToSet(w.memories) : m.enrichment = row.enrichment
    <1>1. /\ Table(RetrieveMemories(w, req), {"tenant", "type", "enrichment"}, MemoryNumbers)
          /\ ToSet(RetrieveMemories(w, req)) \subseteq ToSet(w.memories)
        BY MemoryRows
    <1>2. PICK rows : rows = RetrieveMemories(w, req)
        OBVIOUS
    <1>3. Remembered(w, req) = [i \in DOMAIN rows |-> WithFindings(rows[i])]
        BY <1>2 DEF Remembered, Mapped
    <1>4. PICK i \in DOMAIN rows : m = WithFindings(rows[i])
        BY <1>3 DEF ToSet
    <1>5. PICK row : row = rows[i]
        OBVIOUS
    <1>6. row \in ToSet(rows)
        BY <1>5 DEF ToSet
    <1>7. "enrichment" \in DOMAIN row
        BY <1>1, <1>2, <1>6 DEF Table
    <1>8. \A k \in DOMAIN row.enrichment : Table(row.enrichment[k], {}, Texts \cup {"rank", "line"})
        BY <1>1, <1>2, <1>6 DEF IsWorld
    <1>9. PICK findings : findings = ExtractFindings(row.enrichment)
        OBVIOUS
    <1>10. PICK new : new = [findings |-> findings]
        OBVIOUS
    <1>11. DOMAIN new = {"findings"} /\ new.findings = findings
        BY <1>10
    <1>12. m = Over(new, row)
        BY <1>4, <1>5, <1>9, <1>10 DEF WithFindings
    <1>13. m.findings = findings /\ m.enrichment = row.enrichment
        BY <1>7, <1>11, <1>12 DEF Over
    <1>14. row \in ToSet(w.memories)
        BY <1>1, <1>2, <1>6
    <1> QED BY <1>8, <1>9, <1>13, <1>14

\* What a memory carries of the findings that were reported: every violation of
\* the architecture, and of the security findings the most severe.
LEMMA CarriedFindings ==
    ASSUME NEW m, m.findings = ExtractFindings(m.enrichment),
           \A k \in DOMAIN m.enrichment : Table(m.enrichment[k], {}, Texts \cup {"rank", "line"})
    PROVE  LET found == Reported(m, "security")
               kept == ToSet(FindingsOf(m, "security"))
           IN  /\ ToSet(FindingsOf(m, "architecture")) = ToSet(Reported(m, "architecture"))
               /\ Table(found, {}, Texts \cup {"rank", "line"})
               /\ \A p \in DOMAIN found :
                    \/ found[p] \in kept
                    \/ /\ FindingCap["security"] \in Nat
                       /\ Cardinality({j \in DOMAIN found : found[j].rank >= found[p].rank
                                                                /\ found[j] \in kept})
                            >= FindingCap["security"]
    <1>1. PICK found, broken : found = Reported(m, "security") /\ broken = Reported(m, "architecture")
        OBVIOUS
    <1>2. Table(found, {}, Texts \cup {"rank", "line"}) /\ Table(broken, {}, Texts \cup {"rank", "line"})
        BY <1>1, EmptyTable DEF Reported
    <1>3. Len(broken) \in Nat /\ Take(broken, Len(broken)) = broken
        BY <1>2 DEF Table, Take
    <1>4. FindingsOf(m, "architecture") = broken
        <2>1. CASE "architecture" \in DOMAIN m.enrichment
            <3>1. m.findings["architecture"] = Take(broken, Len(broken))
                BY <1>1, <2>1, BuilderAssumption
                DEF ExtractFindings, Reported, SortedKinds, AssemblyAssumption
            <3>2. "architecture" \in DOMAIN m.findings
                BY <2>1 DEF ExtractFindings
            <3> QED BY <1>3, <3>1, <3>2 DEF FindingsOf
        <2>2. CASE "architecture" \notin DOMAIN m.enrichment
            BY <1>1, <2>2 DEF ExtractFindings, Reported, FindingsOf
        <2> QED BY <2>1, <2>2
    <1>5. PICK kept : kept = ToSet(FindingsOf(m, "security"))
        OBVIOUS
    <1>6. ASSUME NEW p \in DOMAIN found
          PROVE  \/ found[p] \in kept
                 \/ /\ FindingCap["security"] \in Nat
                    /\ Cardinality({j \in DOMAIN found : found[j].rank >= found[p].rank
                                                             /\ found[j] \in kept})
                         >= FindingCap["security"]
        <2>1. "security" \in DOMAIN m.enrichment /\ found = m.enrichment["security"]
            BY <1>1, <1>6 DEF Reported
        <2>2. PICK cap : cap = IF "security" \in DOMAIN FindingCap THEN FindingCap["security"] ELSE Len(found)
            OBVIOUS
        <2>3. kept = ToSet(Take(ByGravity(found), cap))
            BY <1>5, <2>1, <2>2 DEF ExtractFindings, FindingsOf, SortedKinds, ByGravity
        <2>4. CASE "security" \in DOMAIN FindingCap
            <3>1. cap = FindingCap["security"] /\ cap \in Nat
                BY <2>2, <2>4, BuilderAssumption DEF AssemblyAssumption
            <3> QED BY <1>2, <2>3, <3>1, CapKeepsWorst
        <2>5. CASE "security" \notin DOMAIN FindingCap
            <3>1. PICK sorted : sorted = ByGravity(found)
                OBVIOUS
            <3>2. Table(sorted, {}, Texts \cup {"rank", "line"}) /\ ToSet(sorted) = ToSet(found)
                BY <1>2, <3>1, GravityOrder
            <3>3. DOMAIN sorted = DOMAIN found
                BY <3>1 DEF ByGravity, SortedBy
            <3>4. Take(sorted, Len(found)) = sorted
                BY <1>2, <3>2, <3>3 DEF Table, Take
            <3>5. kept = ToSet(found)
                BY <2>2, <2>3, <2>5, <3>1, <3>2, <3>4
            <3> QED BY <3>5 DEF ToSet
        <2> QED BY <2>4, <2>5
    <1> QED BY <1>1, <1>2, <1>4, <1>5, <1>6

\* The memories that a brief can hold.
Memories(ms) == /\ Table(ms, {"tenant", "type", "findings"}, MemoryNumbers)
                /\ \A m \in ToSet(ms) : FindingTables(m)

LEMMA FindingsTable ==
    ASSUME NEW m, FindingTables(m), NEW k
    PROVE  Table(FindingsOf(m, k), {}, Texts \cup {"rank", "line"})
    BY EmptyTable DEF FindingsOf, FindingTables

LEMMA HardFindings ==
    ASSUME NEW ms, Memories(ms)
    PROVE  /\ Table(HardAdditions(ms), {}, Texts)
           /\ \A m \in ToSet(ms) :
                /\ \A f \in ToSet(FindingsOf(m, "security")) : Severe(f) => f \in ToSet(HardAdditions(ms))
                /\ \A f \in ToSet(FindingsOf(m, "architecture")) : f \in ToSet(HardAdditions(ms))
    <1> DEFINE Severest(m) ==
                   LET found == FindingsOf(m, "security")
                   IN  At(found, {i \in DOMAIN found : Severe(found[i])})
                         \o FindingsOf(m, "architecture")
               ss == [j \in DOMAIN ms |-> Severest(ms[j])]
    <1>1. ASSUME NEW j \in DOMAIN ms
          PROVE  /\ Table(ss[j], {}, Texts)
                 /\ \A f \in ToSet(FindingsOf(ms[j], "security")) : Severe(f) => f \in ToSet(ss[j])
                 /\ \A f \in ToSet(FindingsOf(ms[j], "architecture")) : f \in ToSet(ss[j])
        <2>1. PICK m : m = ms[j]
            OBVIOUS
        <2>2. FindingTables(m)
            BY <2>1 DEF Memories, ToSet
        <2>3. PICK found, broken, I : /\ found = FindingsOf(m, "security")
                                      /\ broken = FindingsOf(m, "architecture")
                                      /\ I = {i \in DOMAIN found : Severe(found[i])}
            OBVIOUS
        <2>9. Table(found, {}, Texts \cup {"rank", "line"}) /\ Table(broken, {}, Texts \cup {"rank", "line"})
            BY <2>2, <2>3, FindingsTable
        <2>4. /\ Table(At(found, I), {}, Texts \cup {"rank", "line"})
              /\ ToSet(At(found, I)) = {found[i] : i \in I \cap DOMAIN found}
            BY <2>9, AtTable
        <2>5. /\ Table(At(found, I) \o broken, {}, Texts \cup {"rank", "line"})
              /\ ToSet(At(found, I) \o broken) = ToSet(At(found, I)) \cup ToSet(broken)
            BY <2>4, <2>9, ConcatTable
        <2>6. ss[j] = At(found, I) \o broken
            BY <2>1, <2>3
        <2> HIDE DEF ss
        <2>7. \A f \in ToSet(found) : Severe(f) => f \in ToSet(At(found, I))
            BY <2>3, <2>4 DEF ToSet
        <2>8. Table(ss[j], {}, Texts)
            BY <2>5, <2>6, WeakTable
        <2> QED BY <2>1, <2>3, <2>5, <2>6, <2>7, <2>8
    <1>2. ms \in Seq(ToSet(ms))
        BY DEF Memories, Table
    <1>3. HardAdditions(ms) = FlattenSeq(ss)
        BY DEF HardAdditions, Mapped, Where
    <1>4. DOMAIN ss = DOMAIN ms /\ ss = [i \in DOMAIN ss |-> ss[i]]
        OBVIOUS
    <1> HIDE DEF ss
    <1>5. ss \in Seq(ToSet(ss))
        BY <1>2, <1>4, Mapping
    <1>6. /\ Table(FlattenSeq(ss), {}, Texts)
          /\ ToSet(FlattenSeq(ss)) = UNION {ToSet(ss[i]) : i \in DOMAIN ss}
        BY <1>1, <1>4, <1>5, FlatTable
    <1>7. ASSUME NEW m \in ToSet(ms)
          PROVE  \E j \in DOMAIN ms : m = ms[j] /\ ToSet(ss[j]) \subseteq ToSet(HardAdditions(ms))
        BY <1>3, <1>4, <1>6 DEF ToSet
    <1> QED BY <1>1, <1>3, <1>6, <1>7

LEMMA SoftFindings ==
    ASSUME NEW ms, Memories(ms)
    PROVE  /\ Table(SoftAdditions(ms), {}, Texts)
           /\ \A f \in ToSet(SoftAdditions(ms)) : \E m \in ToSet(ms) : \E k : f \in ToSet(FindingsOf(m, k))
    <1> DEFINE Others(m) == [i \in DOMAIN SoftKinds |-> FindingsOf(m, SoftKinds[i])]
               Soft(m) ==
                   LET found == FindingsOf(m, "security")
                   IN  At(found, {i \in DOMAIN found : ~Severe(found[i])})
                         \o FlattenSeq(Others(m))
               ss == [j \in DOMAIN ms |-> Soft(ms[j])]
    <1>1. ASSUME NEW j \in DOMAIN ms
          PROVE  /\ Table(ss[j], {}, Texts)
                 /\ \A f \in ToSet(ss[j]) : \E m \in ToSet(ms) : \E k : f \in ToSet(FindingsOf(m, k))
        <2>1. PICK m : m = ms[j]
            OBVIOUS
        <2>2. FindingTables(m) /\ m \in ToSet(ms)
            BY <2>1 DEF Memories, ToSet
        <2>3. PICK found, I : /\ found = FindingsOf(m, "security")
                              /\ I = {i \in DOMAIN found : ~Severe(found[i])}
            OBVIOUS
        <2>4. /\ Table(At(found, I), {}, Texts \cup {"rank", "line"})
              /\ ToSet(At(found, I)) = {found[i] : i \in I \cap DOMAIN found}
            <3>1. Table(found, {}, Texts \cup {"rank", "line"})
                BY <2>2, <2>3, FindingsTable
            <3> QED BY <3>1, AtTable
        <2>5. PICK others : others = Others(m)
            OBVIOUS
        <2>6. DOMAIN others = DOMAIN SoftKinds /\ others = [i \in DOMAIN others |-> others[i]]
              /\ \A i \in DOMAIN others : others[i] = FindingsOf(m, SoftKinds[i])
            BY <2>5
        <2>7. SoftKinds \in Seq(ToSet(SoftKinds))
            <3>1. SoftKinds \in Seq({"dead_code", "api_surface", "clones", "type_errors",
                                     "fragility", "uncovered"})
                BY DEF SoftKinds
            <3> QED BY <3>1, OwnElements
        <2>8. others \in Seq(ToSet(others))
            BY <2>6, <2>7, Mapping
        <2>9. \A i \in DOMAIN others : Table(others[i], {}, Texts \cup {"rank", "line"})
            BY <2>2, <2>6, FindingsTable
        <2>10. /\ Table(FlattenSeq(others), {}, Texts \cup {"rank", "line"})
               /\ ToSet(FlattenSeq(others)) = UNION {ToSet(others[i]) : i \in DOMAIN others}
            BY <2>8, <2>9, FlatTable
        <2>11. /\ Table(At(found, I) \o FlattenSeq(others), {}, Texts \cup {"rank", "line"})
               /\ ToSet(At(found, I) \o FlattenSeq(others))
                    = ToSet(At(found, I)) \cup ToSet(FlattenSeq(others))
            BY <2>4, <2>10, ConcatTable
        <2>12. ss[j] = At(found, I) \o FlattenSeq(others)
            BY <2>1, <2>3, <2>5
        <2> HIDE DEF ss
        <2>13. \A f \in ToSet(ss[j]) : \E k : f \in ToSet(FindingsOf(m, k))
            <3>1. \A f \in ToSet(At(found, I)) : f \in ToSet(FindingsOf(m, "security"))
                BY <2>3, <2>4 DEF ToSet
            <3>2. \A f \in ToSet(FlattenSeq(others)) : \E k : f \in ToSet(FindingsOf(m, k))
                BY <2>6, <2>10
            <3> QED BY <2>11, <2>12, <3>1, <3>2
        <2>14. Table(ss[j], {}, Texts)
            BY <2>11, <2>12, WeakTable
        <2> QED BY <2>2, <2>13, <2>14
    <1>2. ms \in Seq(ToSet(ms))
        BY DEF Memories, Table
    <1>3. SoftAdditions(ms) = FlattenSeq(ss)
        BY DEF SoftAdditions, Mapped, Where
    <1>4. DOMAIN ss = DOMAIN ms /\ ss = [i \in DOMAIN ss |-> ss[i]]
        OBVIOUS
    <1> HIDE DEF ss
    <1>5. ss \in Seq(ToSet(ss))
        BY <1>2, <1>4, Mapping
    <1>6. /\ Table(FlattenSeq(ss), {}, Texts)
          /\ ToSet(FlattenSeq(ss)) = UNION {ToSet(ss[j]) : j \in DOMAIN ss}
        BY <1>1, <1>4, <1>5, FlatTable
    <1> QED BY <1>1, <1>3, <1>4, <1>6

-----------------------------------------------------------------------------
(* The constraints of a brief *)

Constraints(learned) ==
    /\ Table(learned, {"kind", "target"}, {"id"})
    /\ \A c \in ToSet(learned) : c.kind \in {"forbidden", "invariant", "known_issue"}

Policies(policies) ==
    /\ policies \in Seq(ToSet(policies))
    /\ \A i \in DOMAIN policies : /\ Table(policies[i].forbidden, {}, {})
                                  /\ Table(policies[i].required, {}, {})

Entries(layer, s) == [i \in DOMAIN s |-> Entry(layer, s[i].id)]

LEMMA EntryRows ==
    ASSUME NEW columns, NEW numbers, NEW s, Table(s, columns, numbers), NEW layer
    PROVE  /\ Table(Entries(layer, s), {}, {})
           /\ ToSet(Entries(layer, s)) = {Entry(layer, x.id) : x \in ToSet(s)}
    <1> DEFINE t == Entries(layer, s)
    <1>1. DOMAIN t = DOMAIN s /\ t = [i \in DOMAIN t |-> t[i]]
          /\ \A i \in DOMAIN s : t[i] = Entry(layer, s[i].id)
        BY DEF Entries
    <1> HIDE DEF t
    <1>2. t \in Seq(ToSet(t))
        BY <1>1, Mapping DEF Table
    <1>3. ToSet(t) = {Entry(layer, x.id) : x \in ToSet(s)}
        BY <1>1 DEF ToSet
    <1> QED BY <1>2, <1>3 DEF Table, t

LEMMA KindRows ==
    ASSUME NEW learned, Constraints(learned), NEW kind
    PROVE  /\ Table(OfKind(learned, kind), {"kind", "target"}, {"id"})
           /\ ToSet(OfKind(learned, kind)) = {c \in ToSet(learned) : c.kind = kind}
    <1> DEFINE I == {i \in DOMAIN learned : learned[i].kind = kind}
    <1>1. I \cap DOMAIN learned = I
        OBVIOUS
    <1>2. {learned[i] : i \in I} = {c \in ToSet(learned) : c.kind = kind}
        BY DEF ToSet
    <1>3. OfKind(learned, kind) = ByAge(At(learned, I))
        BY DEF OfKind, ByAge, Where
    <1> HIDE DEF I
    <1>4. /\ Table(At(learned, I), {"kind", "target"}, {"id"})
          /\ ToSet(At(learned, I)) = {learned[i] : i \in I}
        BY <1>1, AtTable DEF Constraints
    <1>5. /\ Table(ByAge(At(learned, I)), {"kind", "target"}, {"id"})
          /\ ToSet(ByAge(At(learned, I))) = ToSet(At(learned, I))
        BY <1>4, AgeOrder
    <1> QED BY <1>2, <1>3, <1>4, <1>5

LEMMA PolicyRows ==
    ASSUME NEW w, IsWorld(w), NEW scope
    PROVE  Policies(PoliciesFor(w.policies, scope))
    <1> DEFINE I == {i \in DOMAIN w.policies : \/ w.policies[i].scope = "*"
                                               \/ w.policies[i].scope = scope}
    <1>1. PoliciesFor(w.policies, scope) = At(w.policies, I)
        BY DEF PoliciesFor, Where
    <1> HIDE DEF I
    <1>2. Table(w.policies, {"forbidden", "required"}, {})
        BY DEF IsWorld
    <1>3. Table(At(w.policies, I), {"forbidden", "required"}, {})
          /\ ToSet(At(w.policies, I)) \subseteq ToSet(w.policies)
        <2>1. Table(At(w.policies, I), {"forbidden", "required"}, {})
              /\ ToSet(At(w.policies, I)) = {w.policies[i] : i \in I \cap DOMAIN w.policies}
            BY <1>2, AtTable
        <2> QED BY <2>1 DEF ToSet
    <1>4. ASSUME NEW p \in ToSet(w.policies)
          PROVE  Table(p.forbidden, {}, {}) /\ Table(p.required, {}, {})
        BY DEF IsWorld, Table
    <1> QED BY <1>1, <1>3, <1>4 DEF Policies, Table, ToSet

LEMMA PolicyEdits ==
    ASSUME NEW policies, Policies(policies)
    PROVE  Table(Forbidden(policies), {}, {}) /\ Table(Required(policies), {}, {})
    <1> DEFINE ff == [i \in DOMAIN policies |-> policies[i].forbidden]
               rr == [i \in DOMAIN policies |-> policies[i].required]
    <1>1. Forbidden(policies) = FlattenSeq(ff) /\ Required(policies) = FlattenSeq(rr)
        BY DEF Forbidden, Required, Mapped
    <1>2. /\ DOMAIN ff = DOMAIN policies /\ ff = [i \in DOMAIN ff |-> ff[i]]
          /\ DOMAIN rr = DOMAIN policies /\ rr = [i \in DOMAIN rr |-> rr[i]]
          /\ \A i \in DOMAIN policies : Table(ff[i], {}, {}) /\ Table(rr[i], {}, {})
        BY DEF Policies
    <1> HIDE DEF ff, rr
    <1>3. ff \in Seq(ToSet(ff)) /\ rr \in Seq(ToSet(rr))
        BY <1>2, Mapping DEF Policies
    <1> QED BY <1>1, <1>2, <1>3, FlatTable

\* The layers of the hard constraints; those of constraints are the learned ones.
LEMMA HardLayers ==
    ASSUME NEW learned, Constraints(learned), NEW policies, Policies(policies),
           NEW ms, Memories(ms)
    PROVE  LET hard == ToSet(HardConstraints(learned, policies, ms))
           IN  /\ \A e : e \in hard /\ e[1] = "constraint"
                           <=> \E c \in ToSet(learned) : e = Entry("constraint", c.id)
               /\ \A e : e \in hard /\ e[1] = "memory"
                           <=> \E m \in ToSet(ms) : Unbreakable(m) /\ e = Entry("memory", m.id)
               /\ \A f \in ToSet(HardAdditions(ms)) : Entry("finding", f.id) \in hard
    <1> DEFINE of(kind) == Entries("constraint", OfKind(learned, kind))
               named == [i \in DOMAIN Forbidden(policies) |-> Entry("policy", Forbidden(policies)[i])]
               I == {i \in DOMAIN ms : Unbreakable(ms[i])}
               vows == Entries("memory", At(ms, I))
               added == Entries("finding", HardAdditions(ms))
    <1>1. HardConstraints(learned, policies, ms)
             = of("forbidden") \o named \o of("invariant") \o vows \o of("known_issue") \o added
        BY DEF HardConstraints, Mapped, Where, Entries
    <1>2. \A kind : /\ Table(of(kind), {}, {})
                    /\ ToSet(of(kind)) = {Entry("constraint", c.id) :
                                            c \in {d \in ToSet(learned) : d.kind = kind}}
        <2> TAKE kind
        <2>1. /\ Table(OfKind(learned, kind), {"kind", "target"}, {"id"})
              /\ ToSet(OfKind(learned, kind)) = {c \in ToSet(learned) : c.kind = kind}
            BY KindRows
        <2>2. PICK s : s = OfKind(learned, kind)
            OBVIOUS
        <2>3. /\ Table(Entries("constraint", s), {}, {})
              /\ ToSet(Entries("constraint", s)) = {Entry("constraint", x.id) : x \in ToSet(s)}
            BY <2>1, <2>2, EntryRows
        <2> QED BY <2>1, <2>2, <2>3
    <1>3. Table(named, {}, {}) /\ \A e \in ToSet(named) : e[1] = "policy"
        <2>1. Table(Forbidden(policies), {}, {})
            BY PolicyEdits
        <2>2. DOMAIN named = DOMAIN Forbidden(policies) /\ named = [i \in DOMAIN named |-> named[i]]
              /\ \A i \in DOMAIN named : named[i][1] = "policy"
            BY DEF Entry
        <2> HIDE DEF named
        <2>3. named \in Seq(ToSet(named))
            BY <2>1, <2>2, Mapping DEF Table
        <2> QED BY <2>2, <2>3 DEF Table, ToSet
    <1>4. /\ Table(vows, {}, {})
          /\ ToSet(vows) = {Entry("memory", m.id) : m \in {x \in ToSet(ms) : Unbreakable(x)}}
        <2>1. /\ Table(At(ms, I), {"tenant", "type", "findings"}, MemoryNumbers)
              /\ ToSet(At(ms, I)) = {ms[i] : i \in I \cap DOMAIN ms}
            BY AtTable DEF Memories
        <2>2. {ms[i] : i \in I \cap DOMAIN ms} = {x \in ToSet(ms) : Unbreakable(x)}
            BY DEF ToSet
        <2> HIDE DEF I
        <2>3. /\ Table(vows, {}, {})
              /\ ToSet(vows) = {Entry("memory", x.id) : x \in ToSet(At(ms, I))}
            BY <2>1, EntryRows
        <2> QED BY <2>1, <2>2, <2>3
    <1>5. /\ Table(added, {}, {})
          /\ ToSet(added) = {Entry("finding", x.id) : x \in ToSet(HardAdditions(ms))}
        <2>1. Table(HardAdditions(ms), {}, Texts)
            BY HardFindings
        <2>2. /\ Table(added, {}, {})
              /\ ToSet(added) = {Entry("finding", x.id) : x \in ToSet(HardAdditions(ms))}
            BY <2>1, EntryRows
        <2> QED BY <2>2
    <1> HIDE DEF of, named, vows, added
    <1>6. PICK a, b, c : a = of("forbidden") /\ b = of("invariant") /\ c = of("known_issue")
        OBVIOUS
    <1>7. Table(a, {}, {}) /\ Table(b, {}, {}) /\ Table(c, {}, {})
        BY <1>2, <1>6
    <1>8. Table(a \o named, {}, {}) /\ ToSet(a \o named) = ToSet(a) \cup ToSet(named)
        BY <1>3, <1>7, ConcatTable
    <1>9. Table(a \o named \o b, {}, {})
          /\ ToSet(a \o named \o b) = ToSet(a \o named) \cup ToSet(b)
        BY <1>7, <1>8, ConcatTable
    <1>10. Table(a \o named \o b \o vows, {}, {})
           /\ ToSet(a \o named \o b \o vows) = ToSet(a \o named \o b) \cup ToSet(vows)
        BY <1>4, <1>9, ConcatTable
    <1>11. Table(a \o named \o b \o vows \o c, {}, {})
           /\ ToSet(a \o named \o b \o vows \o c) = ToSet(a \o named \o b \o vows) \cup ToSet(c)
        BY <1>7, <1>10, ConcatTable
    <1>12. ToSet(a \o named \o b \o vows \o c \o added)
             = ToSet(a \o named \o b \o vows \o c) \cup ToSet(added)
        BY <1>5, <1>11, ConcatTable
    <1>13. ToSet(HardConstraints(learned, policies, ms))
             = ToSet(a) \cup ToSet(b) \cup ToSet(c) \cup ToSet(named) \cup ToSet(vows) \cup ToSet(added)
        BY <1>1, <1>6, <1>8, <1>9, <1>10, <1>11, <1>12
    <1>14. \A e : e \in ToSet(a) \cup ToSet(b) \cup ToSet(c)
                    <=> \E x \in ToSet(learned) : e = Entry("constraint", x.id)
        BY <1>2, <1>6 DEF Constraints
    <1>15. \A layer, x : Entry(layer, x)[1] = layer
        BY DEF Entry
    <1>16. \A e \in ToSet(a) \cup ToSet(b) \cup ToSet(c) : e[1] = "constraint"
        BY <1>14, <1>15
    <1>17. (\A e \in ToSet(vows) : e[1] = "memory") /\ (\A e \in ToSet(added) : e[1] = "finding")
        BY <1>4, <1>5, <1>15
    <1> DEFINE hard == ToSet(HardConstraints(learned, policies, ms))
    <1>18. hard = ToSet(a) \cup ToSet(b) \cup ToSet(c) \cup ToSet(named) \cup ToSet(vows) \cup ToSet(added)
        BY <1>13
    <1> HIDE DEF hard
    <1>19. \A e : e \in hard /\ e[1] = "constraint"
                    <=> \E x \in ToSet(learned) : e = Entry("constraint", x.id)
        <2>1. \A e \in ToSet(named) \cup ToSet(vows) \cup ToSet(added) : e[1] # "constraint"
            BY <1>3, <1>17
        <2> QED BY <1>14, <1>16, <1>18, <2>1
    <1>20. \A e : e \in hard /\ e[1] = "memory"
                    <=> \E m \in ToSet(ms) : Unbreakable(m) /\ e = Entry("memory", m.id)
        <2>1. \A e : e \in hard /\ e[1] = "memory" <=> e \in ToSet(vows)
            BY <1>3, <1>16, <1>17, <1>18
        <2>2. \A e : e \in ToSet(vows)
                       <=> \E m \in ToSet(ms) : Unbreakable(m) /\ e = Entry("memory", m.id)
            BY <1>4
        <2> QED BY <2>1, <2>2
    <1>21. \A f \in ToSet(HardAdditions(ms)) : Entry("finding", f.id) \in hard
        BY <1>5, <1>18
    <1> QED BY <1>19, <1>20, <1>21 DEF hard

LEMMA AllowedRows ==
    ASSUME NEW learned, NEW policies, Policies(policies)
    PROVE  \A e \in ToSet(AllowedEdits(learned, policies)) : e \notin Blocked(learned)
    <1> DEFINE required == Required(policies)
               I == {i \in DOMAIN required : required[i] \notin Blocked(learned)}
    <1>1. AllowedEdits(learned, policies) = At(required, I)
        BY DEF AllowedEdits, Where
    <1>2. Table(required, {}, {})
        BY PolicyEdits
    <1>3. \A x : x \in {required[i] : i \in I \cap DOMAIN required} => x \notin Blocked(learned)
        OBVIOUS
    <1> HIDE DEF I, required
    <1>4. ToSet(At(required, I)) = {required[i] : i \in I \cap DOMAIN required}
        BY <1>2, AtTable
    <1> QED BY <1>1, <1>3, <1>4

-----------------------------------------------------------------------------
(* What is learned of the constraints in force *)

LEMMA ScopeRows ==
    ASSUME TypeOK, RegisterInv, NEW req
    PROVE  /\ ForScope(req) \in Seq(ToSet(ForScope(req)))
           /\ ToSet(ForScope(req)) = {Learned(r) : r \in {q \in Rules : active[q] # None /\ InForce(q, req)}}
    <1> DEFINE rules == {q \in Rules : active[q] # None /\ InForce(q, req)}
               newer == [r \in rules |-> {q \in rules : active[q] > active[r]}]
    <1>1. IsFiniteSet(rules)
        <2>1. rules \in SUBSET Rules
            OBVIOUS
        <2>2. IsFiniteSet(Rules)
            BY BuilderAssumption
        <2> HIDE DEF rules
        <2> QED BY <2>1, <2>2, FS_Subset
    <1>2. \A q \in rules : q \in Rules /\ active[q] \in Int /\ active[q] # None
        BY DEF TypeOK
    <1>3. \A q, r \in rules : active[q] = active[r] => q = r
        BY DEF RegisterInv
    <1>4. ForScope(req) = [i \in DOMAIN Listed(rules, newer) |-> Learned(Listed(rules, newer)[i])]
        BY DEF ForScope, Mapped, Learned
    <1> HIDE DEF rules
    <1>5. Ordering(newer, rules)
        BY <1>2, <1>3 DEF Ordering
    <1> HIDE DEF newer
    <1>6. PICK s : s = Listed(rules, newer)
        OBVIOUS
    <1>7. s \in Seq(rules) /\ ToSet(s) = rules
        BY <1>1, <1>5, <1>6, ListedElements
    <1>8. DOMAIN ForScope(req) = DOMAIN s /\ \A i \in DOMAIN s : ForScope(req)[i] = Learned(s[i])
        BY <1>4, <1>6
    <1>9. ForScope(req) = [i \in DOMAIN ForScope(req) |-> ForScope(req)[i]]
        BY <1>4
    <1>10. ForScope(req) \in Seq(ToSet(ForScope(req)))
        BY <1>7, <1>8, <1>9, Mapping
    <1>11. ToSet(ForScope(req)) = {Learned(r) : r \in rules}
        BY <1>7, <1>8 DEF ToSet
    <1> QED BY <1>10, <1>11 DEF rules

LEMMA InitLearned == Init => LearnedInv
    BY DEF Init, LearnedInv, Has, NoJob

\* The brief is as it was, and the register has not made old constraints new.
LEMMA LearnedKept ==
    ASSUME LearnedInv, UNCHANGED world, Has("learned")' => Has("learned"), Has("bundle")' => Has("bundle"),
           Has("learned") => /\ \A f \in {"req", "memories", "learned", "hard", "allowed"} :
                                   job'[f] = job[f]
                             /\ window.ever \subseteq window'.ever
                             /\ \A r \in Rules : active'[r] \in window'.always =>
                                   active'[r] = active[r] /\ active[r] \in window.always,
           Has("bundle") => job'.bundle = job.bundle /\ job'.items = job.items
                              /\ job'.learned = job.learned
    PROVE  LearnedInv'
    <1>1. ASSUME Has("learned")'
          PROVE  /\ (job.learned \in Seq(ToSet(job.learned)))'
                 /\ \A c \in ToSet(job'.learned) : \E i \in window'.ever, r \in Rules :
                       InForce(r, job'.req) /\ c = Over([id |-> i], r)
                 /\ \A r \in Rules : active'[r] \in window'.always /\ InForce(r, job'.req) =>
                       Over([id |-> active'[r]], r) \in ToSet(job'.learned)
                 /\ job'.hard = HardConstraints(job'.learned, PoliciesFor(world'.policies, job'.req.scope),
                                                job'.memories)
                 /\ job'.allowed = AllowedEdits(job'.learned, PoliciesFor(world'.policies, job'.req.scope))
        <2>1. /\ job'.req = job.req /\ job'.memories = job.memories /\ job'.learned = job.learned
              /\ job'.hard = job.hard /\ job'.allowed = job.allowed
              /\ window.ever \subseteq window'.ever
              /\ \A r \in Rules : active'[r] \in window'.always =>
                    active'[r] = active[r] /\ active[r] \in window.always
            BY <1>1
        <2>2. PICK learned, req : learned = job.learned /\ req = job.req
            OBVIOUS
        <2>3. /\ learned \in Seq(ToSet(learned))
              /\ \A c \in ToSet(learned) : \E i \in window.ever, r \in Rules :
                    InForce(r, req) /\ c = Over([id |-> i], r)
              /\ \A r \in Rules : active[r] \in window.always /\ InForce(r, req) =>
                    Over([id |-> active[r]], r) \in ToSet(learned)
            BY <1>1, <2>2 DEF LearnedInv, Learned
        <2>4. \A c \in ToSet(learned) : \E i \in window'.ever, r \in Rules :
                    InForce(r, req) /\ c = Over([id |-> i], r)
            BY <2>1, <2>3
        <2>5. \A r \in Rules : active'[r] \in window'.always /\ InForce(r, req) =>
                    Over([id |-> active'[r]], r) \in ToSet(learned)
            <3> TAKE r \in Rules
            <3> HAVE active'[r] \in window'.always /\ InForce(r, req)
            <3>1. active'[r] = active[r] /\ active[r] \in window.always
                BY <2>1
            <3> QED BY <2>3, <3>1
        <2>6. /\ job.hard = HardConstraints(job.learned, PoliciesFor(world.policies, job.req.scope),
                                            job.memories)
              /\ job.allowed = AllowedEdits(job.learned, PoliciesFor(world.policies, job.req.scope))
            BY <1>1 DEF LearnedInv
        <2> QED BY <2>1, <2>2, <2>3, <2>4, <2>5, <2>6
    <1>2. ASSUME Has("bundle")'
          PROVE  job'.bundle = EvidenceBundle(job'.learned, job'.items)
        BY <1>2 DEF LearnedInv
    <1> QED BY <1>1, <1>2 DEF LearnedInv, Learned

\* Which fields go together.
LEMMA Together ==
    ASSUME TypeOK, CallInv
    PROVE  /\ pc # "idle" => Has("req")
           /\ Has("learned") => /\ {"req", "memories", "governor", "files", "diffs", "structural",
                                    "learned", "signals", "hard", "allowed", "items"} \subseteq DOMAIN job
                                /\ pc \in {"rerank", "compress", "persist", "decide", "return"}
           /\ Has("hard") => Has("learned")
           /\ Has("bundle") => Has("learned") /\ pc \in {"persist", "decide", "return"}
    <1>1. DOMAIN job = Gathered[pc] /\ pc \in Stages \cup {"idle"}
        BY DEF TypeOK, CallInv
    <1> QED BY <1>1, Stations, FieldsAt DEF Has

LEMMA StepLearned ==
    TypeOK /\ CallInv /\ RegisterInv /\ LearnedInv /\ [Next]_vars => LearnedInv'
    <1> SUFFICES ASSUME TypeOK, CallInv, RegisterInv, LearnedInv, [Next]_vars PROVE LearnedInv'
        OBVIOUS
    <1> USE DEF register, tables
    <1>1. ASSUME NEW req \in world.requests, Call(req) PROVE LearnedInv'
        <2>1. job' = [req |-> req]
            BY <1>1 DEF Call
        <2>2. DOMAIN job' = {"req"}
            BY <2>1
        <2> QED BY <2>2 DEF LearnedInv, Has
    <1>2. CASE Step /\ ~Return
        <2>0. pc \in Stages
            BY <1>2, StepAdds, Stations
        <2>1. /\ DOMAIN job = Gathered[pc] /\ DOMAIN job' = Gathered[pc'] /\ pc' = After[pc]
              /\ DOMAIN job \subseteq DOMAIN job'
              /\ \A f \in DOMAIN job : (pc = "rerank" /\ f \in {"signals", "items"}) \/ job'[f] = job[f]
              /\ UNCHANGED <<world, active, window>>
            BY <1>2, <2>0, StepGathers DEF Around, CallInv
        <2>2. CASE Assemble
            <3>1. "req" \in DOMAIN job /\ "memories" \in DOMAIN job
                  /\ "learned" \in DOMAIN job' /\ "bundle" \notin DOMAIN job'
                BY <2>1, <2>2, Stations, FieldsAt DEF Assemble
            <3>2. job'.req = job.req /\ job'.memories = job.memories
                BY <2>1, <2>2, <3>1 DEF Assemble
            <3>3. PICK learned, policies :
                     /\ learned = ForScope(job.req)
                     /\ policies = PoliciesFor(world.policies, job.req.scope)
                OBVIOUS
            <3>4. PICK signals, forbidden, items :
                     Gather([learned |-> learned,
                             signals |-> signals,
                             hard |-> HardConstraints(learned, policies, job.memories),
                             forbidden |-> forbidden,
                             allowed |-> AllowedEdits(learned, policies),
                             items |-> items])
                BY <2>2, <3>3 DEF Assemble
            <3>5. PICK more :
                     more = [learned |-> learned,
                             signals |-> signals,
                             hard |-> HardConstraints(learned, policies, job.memories),
                             forbidden |-> forbidden,
                             allowed |-> AllowedEdits(learned, policies),
                             items |-> items]
                OBVIOUS
            <3>6. Gather(more)
                BY <3>4, <3>5
            <3>7. /\ {"learned", "hard", "allowed"} \subseteq DOMAIN more
                  /\ more.learned = learned
                  /\ more.hard = HardConstraints(learned, policies, job.memories)
                  /\ more.allowed = AllowedEdits(learned, policies)
                BY <3>5
            <3>8. /\ job'.learned = learned
                  /\ job'.hard = HardConstraints(learned, policies, job.memories)
                  /\ job'.allowed = AllowedEdits(learned, policies)
                BY <3>6, <3>7, Gathers
            <3>9. PICK req : req = job.req
                OBVIOUS
            <3>10. /\ learned \in Seq(ToSet(learned))
                   /\ ToSet(learned) = {Learned(r) : r \in {q \in Rules : active[q] # None /\ InForce(q, req)}}
                BY <3>3, <3>9, ScopeRows
            <3>11. window.always \subseteq InForceIds /\ InForceIds \subseteq window.ever
                BY <2>2 DEF RegisterInv, Assemble
            <3>12. ASSUME NEW c \in ToSet(learned)
                   PROVE  \E i \in window.ever, r \in Rules : InForce(r, req) /\ c = Over([id |-> i], r)
                <4>1. PICK r \in Rules : active[r] # None /\ InForce(r, req) /\ c = Learned(r)
                    BY <3>10
                <4>2. active[r] \in window.ever
                    BY <3>11, <4>1 DEF InForceIds
                <4> QED BY <4>1, <4>2 DEF Learned
            <3>13. ASSUME NEW r \in Rules, active[r] \in window.always, InForce(r, req)
                   PROVE  Over([id |-> active[r]], r) \in ToSet(learned)
                <4>1. active[r] # None
                    BY <3>11, <3>13 DEF InForceIds
                <4> QED BY <3>10, <3>13, <4>1 DEF Learned
            <3>14. job'.learned = learned /\ job'.req = req
                BY <3>2, <3>8, <3>9
            <3>15. UNCHANGED <<active, window>>
                BY <2>1
            <3>16. /\ job'.hard = HardConstraints(job'.learned,
                                                  PoliciesFor(world'.policies, job'.req.scope),
                                                  job'.memories)
                   /\ job'.allowed = AllowedEdits(job'.learned,
                                                  PoliciesFor(world'.policies, job'.req.scope))
                BY <2>1, <3>2, <3>3, <3>8
            <3>17. job'.learned \in Seq(ToSet(job'.learned))
                BY <3>10, <3>14
            <3>18. \A c \in ToSet(job'.learned) : \E i \in window'.ever, r \in Rules :
                       InForce(r, job'.req) /\ c = Over([id |-> i], r)
                BY <3>12, <3>14, <3>15
            <3>19. \A r \in Rules : active'[r] \in window'.always /\ InForce(r, job'.req) =>
                       Over([id |-> active'[r]], r) \in ToSet(job'.learned)
                BY <3>13, <3>14, <3>15
            <3> QED BY <3>1, <3>16, <3>17, <3>18, <3>19 DEF LearnedInv, Has, Learned
        <2>3. CASE CompressStep
            <3>1. {"req", "memories", "learned", "hard", "allowed", "items"} \subseteq DOMAIN job
                BY <2>1, <2>3, Stations, FieldsAt DEF CompressStep
            <3>2. \A f \in {"req", "memories", "learned", "hard", "allowed", "items"} : job'[f] = job[f]
                BY <2>1, <2>3, <3>1 DEF CompressStep
            <3>3. PICK reply : Gather(Over([bundle |-> EvidenceBundle(job.learned, job.items)],
                                           Compress(job.items, reply)))
                BY <2>3 DEF CompressStep
            <3>4. PICK new, old, bundle :
                     /\ new = [bundle |-> bundle] /\ old = Compress(job.items, reply)
                     /\ bundle = EvidenceBundle(job.learned, job.items)
                OBVIOUS
            <3>5. PICK more : more = Over(new, old)
                OBVIOUS
            <3>6. "bundle" \in DOMAIN more /\ more.bundle = bundle
                BY <3>4, <3>5 DEF Over
            <3>7. Gather(more)
                BY <3>3, <3>4, <3>5
            <3>8. job'.bundle = bundle
                BY <3>6, <3>7, Gathers
            <3>9. job'.bundle = EvidenceBundle(job'.learned, job'.items)
                BY <3>2, <3>4, <3>8
            <3> HIDE DEF EvidenceBundle
            <3>10. Has("learned") /\ ~Has("bundle")
                BY <2>1, <2>3, <3>1, Stations, FieldsAt DEF Has, CompressStep
            <3>11. PICK learned, req : learned = job.learned /\ req = job.req
                OBVIOUS
            <3>12. job'.learned = learned /\ job'.req = req
                BY <3>2, <3>11
            <3>13. /\ learned \in Seq(ToSet(learned))
                   /\ \A c \in ToSet(learned) : \E i \in window.ever, r \in Rules :
                         InForce(r, req) /\ c = Over([id |-> i], r)
                   /\ \A r \in Rules : active[r] \in window.always /\ InForce(r, req) =>
                         Over([id |-> active[r]], r) \in ToSet(learned)
                BY <3>10, <3>11 DEF LearnedInv, Learned
            <3>14. /\ job'.hard = HardConstraints(job'.learned,
                                                  PoliciesFor(world'.policies, job'.req.scope),
                                                  job'.memories)
                   /\ job'.allowed = AllowedEdits(job'.learned,
                                                  PoliciesFor(world'.policies, job'.req.scope))
                BY <2>1, <3>2, <3>10 DEF LearnedInv
            <3>15. UNCHANGED <<active, window>>
                BY <2>1
            <3>16. job'.learned \in Seq(ToSet(job'.learned))
                BY <3>12, <3>13
            <3>17. \A c \in ToSet(job'.learned) : \E i \in window'.ever, r \in Rules :
                       InForce(r, job'.req) /\ c = Over([id |-> i], r)
                BY <3>12, <3>13, <3>15
            <3>18. \A r \in Rules : active'[r] \in window'.always /\ InForce(r, job'.req) =>
                       Over([id |-> active'[r]], r) \in ToSet(job'.learned)
                BY <3>12, <3>13, <3>15
            <3> QED BY <3>9, <3>14, <3>16, <3>17, <3>18 DEF LearnedInv, Has, Learned
        <2>4. CASE ~Assemble /\ ~CompressStep
            <3>1. Has("learned")' => Has("learned")
                BY <1>2, <2>0, <2>1, <2>4, Stations, FieldsAt
                   DEF Has, Step, Embed, MemoriesStep, FilesStep, DiffsStep, StructuralStep, Probe,
                       RerankStep, Persist, Decide, Sources
            <3>2. Has("bundle")' => Has("bundle")
                BY <1>2, <2>0, <2>1, <2>4, Stations, FieldsAt
                   DEF Has, Step, Embed, MemoriesStep, FilesStep, DiffsStep, StructuralStep, Probe,
                       RerankStep, Persist, Decide, Sources
            <3>3. Has("learned") => \A f \in {"req", "memories", "learned", "hard", "allowed"} : job'[f] = job[f]
                BY <2>1, Together
            <3>4. Has("bundle") => job'.bundle = job.bundle /\ job'.items = job.items
                                   /\ job'.learned = job.learned
                BY <2>1, Together DEF Has
            <3> QED BY <2>1, <3>1, <3>2, <3>3, <3>4, LearnedKept
        <2> QED BY <2>2, <2>3, <2>4
    <1>3. CASE Return \/ Abort
        BY <1>3 DEF Return, Abort, Done, NoJob, LearnedInv, Has
    <1>4. CASE ChangeConstraint
        <2>1. UNCHANGED <<world, job, pc>>
            BY <1>4 DEF ChangeConstraint
        <2>0. PICK r \in Rules : \E i : Register!Retire(r) \/ Register!Add(r, i)
            BY <1>4 DEF ChangeConstraint
        <2>2. PICK i : Register!Retire(r) \/ Register!Add(r, i)
            BY <2>0
        <2>3. ASSUME Has("learned")
              PROVE  /\ window.ever \subseteq window'.ever
                     /\ \A q \in Rules : active'[q] \in window'.always =>
                           active'[q] = active[q] /\ active[q] \in window.always
            <3>1. pc # "idle"
                BY <2>3, Together
            <3>2. window' = [window EXCEPT !.always = @ \cap InForceIds', !.ever = @ \cup InForceIds']
                BY <1>4, <3>1 DEF ChangeConstraint
            <3>3. window'.always = window.always \cap InForceIds'
                  /\ window'.ever = window.ever \cup InForceIds'
                BY <3>2 DEF CallInv, Seen
            <3>4. window.always \subseteq InForceIds
                BY <3>1 DEF RegisterInv
            <3>5. ASSUME NEW q \in Rules, active'[q] \in window'.always
                  PROVE  active'[q] = active[q] /\ active[q] \in window.always
                <4>1. active'[q] \in InForceIds /\ active'[q] # None
                    BY <3>3, <3>4, <3>5 DEF InForceIds
                <4>2. active'[q] = active[q]
                    <5>1. CASE Register!Retire(r)
                        BY <4>1, <5>1 DEF Register!Retire, TypeOK
                    <5>2. CASE Register!Add(r, i)
                        BY <4>1, <5>2 DEF Register!Add, TypeOK, InForceIds
                    <5> QED BY <2>2, <5>1, <5>2
                <4> QED BY <3>3, <3>5, <4>2
            <3> QED BY <3>3, <3>5
        <2> QED BY <2>1, <2>3, LearnedKept DEF Has
    <1>5. CASE ChangeSource
        <2>1. UNCHANGED <<world, job, active, window>>
            BY <1>5 DEF ChangeSource
        <2> QED BY <2>1, LearnedKept DEF Has
    <1>6. CASE UNCHANGED vars
        <2>1. UNCHANGED <<world, job, active, window>>
            BY <1>6 DEF vars
        <2> QED BY <2>1, LearnedKept DEF Has
    <1> QED BY <1>1, <1>2, <1>3, <1>4, <1>5, <1>6 DEF Next, Step

-----------------------------------------------------------------------------
(* Ranking and reranking *)

Rows(s) == Table(s, {}, {"id", "score"})
Items(s) == Table(s, {}, Texts \cup {"score"})
Ids(s) == {x.id : x \in ToSet(s)}

LEMMA IdRows ==
    ASSUME NEW columns, NEW numbers, NEW s, Table(s, columns, numbers)
    PROVE  Table(IdsOf(s), {}, {}) /\ ToSet(IdsOf(s)) = Ids(s)
    <1> DEFINE t == IdsOf(s)
    <1>1. DOMAIN t = DOMAIN s /\ t = [i \in DOMAIN t |-> t[i]] /\ \A i \in DOMAIN s : t[i] = s[i].id
        BY DEF IdsOf, Mapped
    <1> HIDE DEF t
    <1>2. t \in Seq(ToSet(t))
        BY <1>1, Mapping DEF Table
    <1>3. ToSet(t) = Ids(s)
        BY <1>1 DEF ToSet, Ids
    <1> QED BY <1>2, <1>3 DEF Table, t

\* Rows made one by one of the rows of a table, with their ids.
LEMMA RowByRow ==
    ASSUME NEW columns, NEW numbers, NEW s, Table(s, columns, numbers),
           NEW t, DOMAIN t = DOMAIN s, t = [i \in DOMAIN t |-> t[i]],
           \A i \in DOMAIN s : /\ {"id", "score"} \subseteq DOMAIN t[i]
                               /\ t[i].id = s[i].id /\ t[i].id \in Int /\ t[i].score \in Int
    PROVE  Rows(t) /\ Ids(t) = Ids(s)
    <1>1. t \in Seq(ToSet(t))
        BY Mapping DEF Table
    <1>2. Ids(t) = Ids(s)
        BY DEF Ids, ToSet
    <1>3. \A x \in ToSet(t) : \E i \in DOMAIN s : x = t[i]
        BY DEF ToSet
    <1> QED BY <1>1, <1>2, <1>3 DEF Table, Rows

LEMMA ItemByItem ==
    ASSUME NEW columns, NEW numbers, NEW s, Table(s, columns, numbers), Texts \subseteq numbers,
           NEW t, DOMAIN t = DOMAIN s, t = [i \in DOMAIN t |-> t[i]],
           \A i \in DOMAIN s : /\ Texts \cup {"score"} \subseteq DOMAIN t[i]
                               /\ \A n \in Texts : t[i][n] = s[i][n]
                               /\ t[i].score \in Int
    PROVE  Items(t) /\ Ids(t) = Ids(s)
    <1>1. t \in Seq(ToSet(t))
        BY Mapping DEF Table
    <1>2. Ids(t) = Ids(s)
        BY DEF Ids, ToSet, Texts
    <1>3. \A x \in ToSet(t) : \E i \in DOMAIN s : x = t[i]
        BY DEF ToSet
    <1>4. \A i \in DOMAIN s : \A n \in Texts : s[i][n] \in Int /\ (n # "id" => s[i][n] >= 0)
        BY DEF Table, ToSet, Texts
    <1>5. ASSUME NEW x \in ToSet(t)
          PROVE  /\ Texts \cup {"score"} \subseteq DOMAIN x
                 /\ \A n \in Texts \cup {"score"} : x[n] \in Int
                 /\ x.chars >= 0 /\ x.tokens >= 0
        <2>1. PICK i \in DOMAIN s : x = t[i]
            BY <1>3
        <2>2. \A n \in Texts : x[n] \in Int /\ (n # "id" => x[n] >= 0)
            BY <1>4, <2>1
        <2> QED BY <2>1, <2>2 DEF Texts
    <1> QED BY <1>1, <1>2, <1>5 DEF Table, Items

LEMMA ItemsAreRows ==
    ASSUME NEW s, Items(s) PROVE Rows(s)
    BY DEF Items, Rows, Table, Texts

LEMMA SortedItems ==
    ASSUME NEW s, Items(s)
    PROVE  Items(ByWorth(s)) /\ ToSet(ByWorth(s)) = ToSet(s)
    <1>1. {"id", "score"} \subseteq Texts \cup {"score"}
        BY DEF Texts
    <1>2. /\ Table(ByWorth(s), {}, Texts \cup {"score"})
          /\ ToSet(ByWorth(s)) = ToSet(s)
        BY <1>1, WorthOrder DEF Items
    <1> QED BY <1>2 DEF Items

LEMMA JoinedItems ==
    ASSUME NEW s, Items(s), NEW t, Items(t) PROVE Items(s \o t)
    BY ConcatTable DEF Items

LEMMA Joined ==
    ASSUME NEW s, Rows(s), NEW t, Rows(t)
    PROVE  Rows(s \o t) /\ Ids(s \o t) = Ids(s) \cup Ids(t)
    <1>1. Table(s \o t, {}, {"id", "score"}) /\ ToSet(s \o t) = ToSet(s) \cup ToSet(t)
        BY ConcatTable DEF Rows
    <1> QED BY <1>1 DEF Rows, Ids

LEMMA Scored ==
    ASSUME NEW s, Rows(s)
    PROVE  Rows(ByScore(s)) /\ Ids(ByScore(s)) = Ids(s) /\ Rows(ByWorth(s)) /\ Ids(ByWorth(s)) = Ids(s)
    <1>1. /\ Table(ByScore(s), {}, {"id", "score"}) /\ ToSet(ByScore(s)) = ToSet(s)
          /\ Table(ByWorth(s), {}, {"id", "score"}) /\ ToSet(ByWorth(s)) = ToSet(s)
        BY ScoreOrder, WorthOrder DEF Rows
    <1> QED BY <1>1 DEF Rows, Ids

\* A choice of rows repeats none that the rows do not.
LEMMA AtOnce ==
    ASSUME NEW X, NEW s \in Seq(X), NEW I, NEW R, Once(s, R)
    PROVE  Once(At(s, I), R)
    <1>1. PICK t : t = At(s, I)
        OBVIOUS
    <1>2. t \in Seq(X) /\ Len(t) \in Nat
        BY <1>1, AtElements
    <1>3. PICK p \in [1 .. Len(t) -> DOMAIN s] :
             /\ \A k \in 1 .. Len(t) : t[k] = s[p[k]]
             /\ \A k, l \in 1 .. Len(t) : k < l => p[k] < p[l]
        BY <1>1, AtPlaces
    <1>4. DOMAIN s = 1 .. Len(s) /\ Len(s) \in Nat /\ DOMAIN t = 1 .. Len(t)
        BY <1>2
    <1>5. ASSUME NEW k \in 1 .. Len(t), NEW l \in 1 .. Len(t), t[k].id = t[l].id, t[k].id \in R
          PROVE  k = l
        <2>1. p[k] = p[l] /\ p[k] \in 1 .. Len(s)
            BY <1>3, <1>4, <1>5 DEF Once
        <2>2. ~(k < l) /\ ~(l < k)
            BY <1>3, <1>4, <2>1
        <2> QED BY <1>2, <2>2
    <1> QED BY <1>1, <1>4, <1>5 DEF Once

LEMMA TakeOnce ==
    ASSUME NEW X, NEW s \in Seq(X), NEW n \in Nat, NEW R, Once(s, R)
    PROVE  Once(Take(s, n), R)
    <1> DEFINE m == IF Len(s) < n THEN Len(s) ELSE n
    <1>1. m \in Nat /\ m <= Len(s) /\ Take(s, n) = SubSeq(s, 1, m)
        BY DEF Take
    <1> HIDE DEF m
    <1>2. SubSeq(s, 1, m) = [i \in 1 .. m |-> s[i]] /\ \A i \in 1 .. m : i \in DOMAIN s
        BY <1>1
    <1> QED BY <1>1, <1>2 DEF Once

LEMMA SortedOnce ==
    ASSUME NEW X, NEW s \in Seq(X), NEW before, Comparing(before, Len(s)), NEW R, Once(s, R)
    PROVE  Once(StableSort(s, before), R)
    <1>1. PICK n : n = Len(s)
        OBVIOUS
    <1>2. n \in Nat /\ DOMAIN s = 1 .. n
        BY <1>1
    <1>3. PICK at : at = Listed(1 .. n, Stable(before, n))
        OBVIOUS
    <1>4. /\ at \in [1 .. n -> 1 .. n]
          /\ \A k, l \in 1 .. n : k < l => at[k] # at[l] /\ at[l] \notin before[at[k]]
        <2>1. Comparing(before, n) /\ n \in Nat
            BY <1>1, <1>2
        <2>2. LET places == Listed(1 .. n, Stable(before, n))
              IN  /\ places \in [1 .. n -> 1 .. n]
                  /\ \A k, l \in 1 .. n : k < l => places[k] # places[l]
                                                  /\ places[l] \notin before[places[k]]
            BY <2>1, SortedPlaces
        <2> QED BY <1>3, <2>2
    <1>5. StableSort(s, before) = [k \in 1 .. n |-> s[at[k]]]
        BY <1>1, <1>2, <1>3 DEF StableSort
    <1>6. ASSUME NEW k \in 1 .. n, NEW l \in 1 .. n, s[at[k]].id = s[at[l]].id, s[at[k]].id \in R
          PROVE  k = l
        <2>1. at[k] = at[l]
            BY <1>2, <1>4, <1>6 DEF Once
        <2>2. ~(k < l) /\ ~(l < k)
            BY <1>4, <2>1
        <2> QED BY <2>2
    <1> QED BY <1>5, <1>6 DEF Once

LEMMA ScoredOnce ==
    ASSUME NEW s, Rows(s), NEW R, Once(s, R)
    PROVE  Once(ByScore(s), R) /\ Once(ByWorth(s), R)
    <1>1. s \in Seq(ToSet(s)) /\ Table(s, {}, {"id", "score"})
        BY DEF Rows, Table
    <1>2. PICK before : Comparing(before, Len(s)) /\ ByScore(s) = StableSort(s, before)
        BY <1>1, ScoreSorts
    <1>3. PICK worse : Comparing(worse, Len(s)) /\ ByWorth(s) = StableSort(s, worse)
        BY <1>1, WorthSorts
    <1>4. Once(StableSort(s, before), R)
        BY <1>1, <1>2, SortedOnce
    <1>5. Once(StableSort(s, worse), R)
        BY <1>1, <1>3, SortedOnce
    <1> QED BY <1>2, <1>3, <1>4, <1>5

\* The two tables have none of these ids in common.
Apart(s, t, R) == \A id \in R : id \notin Ids(s) \/ id \notin Ids(t)

LEMMA JoinedOnce ==
    ASSUME NEW s, Rows(s), NEW t, Rows(t), NEW R, Once(s, R), Once(t, R), Apart(s, t, R)
    PROVE  Once(s \o t, R)
    <1>1. PICK m, n : m = Len(s) /\ n = Len(t)
        OBVIOUS
    <1>2. /\ m \in Nat /\ n \in Nat /\ DOMAIN s = 1 .. m /\ DOMAIN t = 1 .. n
          /\ DOMAIN (s \o t) = 1 .. m + n
          /\ \A i \in 1 .. m + n : (s \o t)[i] = IF i <= m THEN s[i] ELSE t[i - m]
        <2>1. s \in Seq(ToSet(s)) /\ t \in Seq(ToSet(t))
            BY DEF Rows, Table
        <2>2. s \in Seq(ToSet(s) \cup ToSet(t)) /\ t \in Seq(ToSet(s) \cup ToSet(t))
            <3>1. /\ s \in [1 .. Len(s) -> ToSet(s)] /\ Len(s) \in Nat
                  /\ t \in [1 .. Len(t) -> ToSet(t)] /\ Len(t) \in Nat
                BY <2>1, LenProperties
            <3>2. s \in [1 .. Len(s) -> ToSet(s) \cup ToSet(t)] /\ t \in [1 .. Len(t) -> ToSet(s) \cup ToSet(t)]
                BY <3>1
            <3> QED BY <3>1, <3>2, IsASeq
        <2> QED BY <1>1, <2>2
    <1>3. PICK u : u = s \o t
        OBVIOUS
    <1>4. \A i \in 1 .. m + n : \/ i \in 1 .. m /\ u[i] = s[i] /\ u[i].id \in Ids(s)
                                \/ i - m \in 1 .. n /\ u[i] = t[i - m] /\ u[i].id \in Ids(t)
        <2> TAKE i \in 1 .. m + n
        <2>1. CASE i <= m
            <3>1. i \in 1 .. m /\ u[i] = s[i]
                BY <1>2, <1>3, <2>1
            <3> QED BY <1>2, <3>1 DEF Ids, ToSet
        <2>2. CASE ~(i <= m)
            <3>1. i - m \in 1 .. n /\ u[i] = t[i - m]
                BY <1>2, <1>3, <2>2
            <3> QED BY <1>2, <3>1 DEF Ids, ToSet
        <2> QED BY <2>1, <2>2
    <1>5. ASSUME NEW i \in 1 .. m + n, NEW j \in 1 .. m + n, u[i].id = u[j].id, u[i].id \in R
          PROVE  i = j
        <2>1. CASE i \in 1 .. m /\ u[i] = s[i] /\ u[i].id \in Ids(s)
            <3>1. j \in 1 .. m /\ u[j] = s[j]
                BY <1>4, <1>5, <2>1 DEF Apart
            <3> QED BY <1>2, <1>5, <2>1, <3>1 DEF Once
        <2>2. CASE i - m \in 1 .. n /\ u[i] = t[i - m] /\ u[i].id \in Ids(t)
            <3>1. j - m \in 1 .. n /\ u[j] = t[j - m]
                BY <1>4, <1>5, <2>2 DEF Apart
            <3>2. i - m = j - m
                BY <1>2, <1>5, <2>2, <3>1 DEF Once
            <3> QED BY <1>2, <3>2
        <2> QED BY <1>4, <2>1, <2>2
    <1> QED BY <1>2, <1>3, <1>5 DEF Once

LEMMA CopiedOnce ==
    ASSUME NEW s, NEW t, DOMAIN t = DOMAIN s, \A i \in DOMAIN s : t[i].id = s[i].id
    PROVE  \A R : Once(s, R) => Once(t, R)
    BY DEF Once

\* None of these ids is twice in one of the tables or in two of them.
Distinct(ms, fs, ds, R) ==
    /\ Once(ms, R) /\ Once(fs, R) /\ Once(ds, R)
    /\ Apart(ms, fs, R) /\ Apart(ms, ds, R) /\ Apart(fs, ds, R)

Diffs(ds) == Table(ds, {}, DiffNumbers)
Files(fs) == Table(fs, {}, FileNumbers \cup {"fragility"})

LEMMA RankedRows ==
    ASSUME NEW ms, Memories(ms), NEW fs, Files(fs), NEW ds, Diffs(ds)
    PROVE  Rows(RankSignals(ms, fs, ds))
           /\ Ids(RankSignals(ms, fs, ds)) = Ids(ms) \cup Ids(fs) \cup Ids(ds)
           /\ \A R : Distinct(ms, fs, ds, R) => Once(RankSignals(ms, fs, ds), R)
    <1> DEFINE a == [i \in DOMAIN ms |-> MemorySignal(ms[i])]
               b == [i \in DOMAIN fs |-> FileSignal(fs[i])]
               c == [i \in DOMAIN ds |-> DiffSignal(ds[i])]
    <1>0. \A x, y \in Int : Lesser(x, y) \in Int /\ Greater(x, y) \in Int
        BY DEF Lesser, Greater
    <1>1. Rows(a) /\ Ids(a) = Ids(ms) /\ \A R : Once(ms, R) => Once(a, R)
        <2>1. ASSUME NEW i \in DOMAIN ms
              PROVE  /\ {"id", "score"} \subseteq DOMAIN a[i]
                     /\ a[i].id = ms[i].id /\ a[i].id \in Int /\ a[i].score \in Int
            <3>1. PICK m : m = ms[i]
                OBVIOUS
            <3>2. m.id \in Int /\ m.confidence \in Int /\ m.learned \in Int
                BY <3>1 DEF Memories, Table, ToSet, MemoryNumbers, Texts
            <3>3. Lesser(Greater(m.confidence + m.learned, 0), 1000) \in Int
                <4>1. m.confidence + m.learned \in Int
                    BY <3>2
                <4>2. Greater(m.confidence + m.learned, 0) \in Int
                    BY <4>1 DEF Greater
                <4> QED BY <4>2 DEF Lesser
            <3>4. a[i] = MemorySignal(m)
                BY <3>1
            <3> QED BY <3>1, <3>2, <3>3, <3>4 DEF MemorySignal, Signal
        <2>2. DOMAIN a = DOMAIN ms /\ a = [i \in DOMAIN a |-> a[i]]
            OBVIOUS
        <2> HIDE DEF a
        <2>3. Rows(a) /\ Ids(a) = Ids(ms)
            BY <2>1, <2>2, RowByRow DEF Memories
        <2>4. \A R : Once(ms, R) => Once(a, R)
            BY <2>1, <2>2, CopiedOnce
        <2> QED BY <2>3, <2>4
    <1>2. Rows(b) /\ Ids(b) = Ids(fs) /\ \A R : Once(fs, R) => Once(b, R)
        <2>1. ASSUME NEW i \in DOMAIN fs
              PROVE  /\ {"id", "score"} \subseteq DOMAIN b[i]
                     /\ b[i].id = fs[i].id /\ b[i].id \in Int /\ b[i].score \in Int
            <3>1. PICK f : f = fs[i]
                OBVIOUS
            <3>2. f.id \in Int /\ f.fragility \in Int /\ f.churn \in Int /\ f.recency \in Int
                BY <3>1 DEF Files, Table, ToSet, FileNumbers, Texts
            <3>3. PICK fragility : fragility = IF f.fragility # 0 THEN f.fragility ELSE f.churn
                OBVIOUS
            <3>4. fragility \in Int
                BY <3>2, <3>3
            <3>5. (2 * fragility + 3 * f.recency) \div 5 \in Int
                BY <3>2, <3>4
            <3>6. Lesser((2 * fragility + 3 * f.recency) \div 5, 1000) \in Int
                BY <1>0, <3>5
            <3>7. b[i] = FileSignal(f)
                BY <3>1
            <3> QED BY <3>1, <3>2, <3>3, <3>6, <3>7 DEF FileSignal, Signal
        <2>2. DOMAIN b = DOMAIN fs /\ b = [i \in DOMAIN b |-> b[i]]
            OBVIOUS
        <2> HIDE DEF b
        <2>3. Rows(b) /\ Ids(b) = Ids(fs)
            BY <2>1, <2>2, RowByRow DEF Files
        <2>4. \A R : Once(fs, R) => Once(b, R)
            BY <2>1, <2>2, CopiedOnce
        <2> QED BY <2>3, <2>4
    <1>3. Rows(c) /\ Ids(c) = Ids(ds) /\ \A R : Once(ds, R) => Once(c, R)
        <2>1. ASSUME NEW i \in DOMAIN ds
              PROVE  /\ {"id", "score"} \subseteq DOMAIN c[i]
                     /\ c[i].id = ds[i].id /\ c[i].id \in Int /\ c[i].score \in Int
            <3>1. PICK d : d = ds[i]
                OBVIOUS
            <3>2. d.id \in Int /\ d.pairs \in Int /\ d.recency \in Int
                BY <3>1 DEF Diffs, Table, ToSet, DiffNumbers, Texts
            <3>3. Lesser(100 * d.pairs, 1000) \in Int
                <4>1. 100 * d.pairs \in Int
                    BY <3>2
                <4> QED BY <4>1 DEF Lesser
            <3>4. (3 * d.recency + 2 * Lesser(100 * d.pairs, 1000)) \div 10 \in Int
                BY <3>2, <3>3
            <3>5. Lesser((3 * d.recency + 2 * Lesser(100 * d.pairs, 1000)) \div 10, 1000) \in Int
                BY <1>0, <3>4
            <3>6. c[i] = DiffSignal(d)
                BY <3>1
            <3> QED BY <3>1, <3>2, <3>5, <3>6 DEF DiffSignal, Signal
        <2>2. DOMAIN c = DOMAIN ds /\ c = [i \in DOMAIN c |-> c[i]]
            OBVIOUS
        <2> HIDE DEF c
        <2>3. Rows(c) /\ Ids(c) = Ids(ds)
            BY <2>1, <2>2, RowByRow DEF Diffs
        <2>4. \A R : Once(ds, R) => Once(c, R)
            BY <2>1, <2>2, CopiedOnce
        <2> QED BY <2>3, <2>4
    <1>4. RankSignals(ms, fs, ds) = ByScore(a \o b \o c)
        BY DEF RankSignals, ByScore, Mapped
    <1> HIDE DEF a, b, c
    <1>5. Rows(a \o b) /\ Ids(a \o b) = Ids(a) \cup Ids(b)
        BY <1>1, <1>2, Joined
    <1>6. Rows(a \o b \o c) /\ Ids(a \o b \o c) = Ids(a \o b) \cup Ids(c)
        BY <1>3, <1>5, Joined
    <1>7. Rows(ByScore(a \o b \o c)) /\ Ids(ByScore(a \o b \o c)) = Ids(a \o b \o c)
        BY <1>6, Scored
    <1>8. ASSUME NEW R, Distinct(ms, fs, ds, R) PROVE Once(ByScore(a \o b \o c), R)
        <2>1. Once(a, R) /\ Once(b, R) /\ Once(c, R)
            BY <1>1, <1>2, <1>3, <1>8 DEF Distinct
        <2>2. Apart(a, b, R)
            BY <1>1, <1>2, <1>8 DEF Distinct, Apart
        <2>3. Once(a \o b, R)
            BY <1>1, <1>2, <2>1, <2>2, JoinedOnce
        <2>4. Apart(a \o b, c, R)
            BY <1>1, <1>2, <1>3, <1>5, <1>8 DEF Distinct, Apart
        <2>5. Once(a \o b \o c, R)
            BY <1>3, <1>5, <2>1, <2>3, <2>4, JoinedOnce
        <2> QED BY <1>6, <2>5, ScoredOnce
    <1> QED BY <1>1, <1>2, <1>3, <1>4, <1>5, <1>6, <1>7, <1>8

FirstPlace(s, id) == SelectInSeq(s, LAMBDA y : y.id = id)
LastPlace(s, id) == SelectLastInSeq(s, LAMBDA y : y.id = id)

\* The signal that stands for a row.
LEMMA SignalFound ==
    ASSUME NEW s, Rows(s), NEW id \in Ids(s)
    PROVE  /\ FirstPlace(s, id) \in DOMAIN s /\ s[FirstPlace(s, id)].id = id
           /\ LastPlace(s, id) \in DOMAIN s /\ s[LastPlace(s, id)].id = id
    <1> DEFINE I == {i \in 1 .. Len(s) : s[i].id = id}
    <1>1. DOMAIN s = 1 .. Len(s) /\ Len(s) \in Nat
        BY DEF Rows, Table
    <1>2. I \in SUBSET (1 .. Len(s)) /\ I # {}
        BY <1>1 DEF Ids, ToSet
    <1>3. \A i \in I : i \in DOMAIN s /\ s[i].id = id
        BY <1>1
    <1>4. FirstPlace(s, id) = Min(I) /\ LastPlace(s, id) = Max(I)
        BY <1>2 DEF FirstPlace, LastPlace, SelectInSeq, SelectLastInSeq
    <1> HIDE DEF I
    <1>5. Min(I) \in I /\ Max(I) \in I
        BY <1>1, <1>2, Greatest, Least
    <1> QED BY <1>3, <1>4, <1>5

\* A soft item for each row that has a score.
LEMMA ItemRows ==
    ASSUME NEW columns, NEW s, Table(s, columns, Texts), NEW category,
           NEW score, \A i \in DOMAIN s : score[i] \in Int
    PROVE  Items([i \in DOMAIN s |-> Item(s[i], category, score[i])])
           /\ Ids([i \in DOMAIN s |-> Item(s[i], category, score[i])]) = Ids(s)
           /\ \A R : Once(s, R) => Once([i \in DOMAIN s |-> Item(s[i], category, score[i])], R)
    <1> DEFINE t == [i \in DOMAIN s |-> Item(s[i], category, score[i])]
    <1>1. ASSUME NEW i \in DOMAIN s
          PROVE  /\ Texts \cup {"score"} \subseteq DOMAIN t[i]
                 /\ \A n \in Texts : t[i][n] = s[i][n]
                 /\ t[i].score \in Int
        <2>1. t[i] = Item(s[i], category, score[i])
            OBVIOUS
        <2> QED BY <2>1 DEF Item, Texts
    <1>2. DOMAIN t = DOMAIN s /\ t = [i \in DOMAIN t |-> t[i]]
        OBVIOUS
    <1> HIDE DEF t
    <1>3. Items(t) /\ Ids(t) = Ids(s)
        BY <1>1, <1>2, ItemByItem
    <1>4. \A i \in DOMAIN s : t[i].id = s[i].id
        BY <1>1 DEF Texts
    <1>5. \A R : Once(s, R) => Once(t, R)
        BY <1>2, <1>4, CopiedOnce
    <1> QED BY <1>3, <1>5 DEF t

SoftMemories(ms) == Where(ms, LAMBDA m : ~Unbreakable(m))

\* None of these ids is that of a finding or a definition.
Elsewhere(ms, structural, R) ==
    \A id \in R : id \notin Ids(SoftAdditions(ms)) /\ id \notin Ids(structural)

LEMMA SoftOnes ==
    ASSUME NEW ms, Memories(ms)
    PROVE  /\ ToSet(SoftMemories(ms)) = {m \in ToSet(ms) : ~Unbreakable(m)}
           /\ \A R : Once(ms, R) => Once(SoftMemories(ms), R)
    <1> DEFINE I == {i \in DOMAIN ms : ~Unbreakable(ms[i])}
    <1>1. SoftMemories(ms) = At(ms, I)
        BY DEF SoftMemories, Where
    <1>2. {ms[i] : i \in I \cap DOMAIN ms} = {m \in ToSet(ms) : ~Unbreakable(m)}
        BY DEF ToSet
    <1> HIDE DEF I
    <1>3. ToSet(At(ms, I)) = {ms[i] : i \in I \cap DOMAIN ms}
        BY AtTable DEF Memories
    <1>4. ms \in Seq(ToSet(ms))
        BY DEF Memories, Table
    <1>5. \A R : Once(ms, R) => Once(At(ms, I), R)
        BY <1>4, AtOnce
    <1> QED BY <1>1, <1>2, <1>3, <1>5

LEMMA SoftRows ==
    ASSUME NEW ms, Memories(ms), NEW fs, Files(fs), NEW ds, Diffs(ds),
           NEW structural, Table(structural, {}, Texts),
           NEW signals, Rows(signals), Ids(signals) = Ids(ms) \cup Ids(fs) \cup Ids(ds)
    PROVE  /\ Items(SoftItems(ms, fs, ds, structural, signals))
           /\ Ids(SoftItems(ms, fs, ds, structural, signals))
                = Ids(SoftMemories(ms)) \cup Ids(ds) \cup Ids(fs) \cup Ids(SoftAdditions(ms))
                    \cup Ids(structural)
           /\ \A R : Distinct(ms, fs, ds, R) /\ Elsewhere(ms, structural, R) =>
                      Once(SoftItems(ms, fs, ds, structural, signals), R)
    <1> DEFINE ranked(x) == signals[SelectLastInSeq(signals, LAMBDA s : s.id = x.id)].score
               I == {i \in DOMAIN ms : ~Unbreakable(ms[i])}
               kept == At(ms, I)
               found == SoftAdditions(ms)
    <1>1. \A x : x.id \in Ids(signals) => ranked(x) \in Int
        <2> TAKE x
        <2> HAVE x.id \in Ids(signals)
        <2>1. PICK last : last = LastPlace(signals, x.id)
            OBVIOUS
        <2>2. last \in DOMAIN signals
            BY <2>1, SignalFound
        <2>3. signals[last].score \in Int
            BY <2>2 DEF Rows, Table, ToSet
        <2>4. ranked(x) = signals[last].score
            BY <2>1 DEF LastPlace
        <2> QED BY <2>3, <2>4
    <1> HIDE DEF ranked
    <1>2. /\ Table(kept, {}, Texts) /\ Table(fs, {}, Texts) /\ Table(ds, {}, Texts)
          /\ Table(found, {}, Texts)
        <2> HIDE DEF I
        <2>1. Table(kept, {"tenant", "type", "findings"}, MemoryNumbers)
            BY AtTable DEF Memories
        <2>2. Table(kept, {}, Texts)
            BY <2>1, WeakTable DEF MemoryNumbers
        <2>3. Table(fs, {}, Texts)
            BY WeakTable DEF FileNumbers, Files
        <2>4. Table(ds, {}, Texts)
            BY WeakTable DEF DiffNumbers, Diffs
        <2> QED BY <2>2, <2>3, <2>4, SoftFindings
    <1>3. Ids(kept) \subseteq Ids(ms)
        <2> HIDE DEF I
        <2>1. ToSet(kept) = {ms[i] : i \in I \cap DOMAIN ms}
            BY AtTable DEF Memories
        <2>2. ToSet(kept) \subseteq ToSet(ms)
            BY <2>1 DEF ToSet
        <2> HIDE DEF kept
        <2> QED BY <2>2 DEF Ids
    <1>0. kept = SoftMemories(ms) /\ found = SoftAdditions(ms)
        BY DEF SoftMemories, Where
    <1> HIDE DEF kept, found
    <1>4. ASSUME NEW s, Ids(s) \subseteq Ids(signals), NEW i \in DOMAIN s
          PROVE  ranked(s[i]) \in Int
        <2>1. s[i].id \in Ids(signals)
            BY <1>4 DEF Ids, ToSet
        <2> QED BY <1>1, <2>1
    <1> DEFINE listed(s, category) == [i \in DOMAIN s |-> Item(s[i], category, ranked(s[i]))]
               plain(s, category) == [i \in DOMAIN s |-> Item(s[i], category, 0)]
    <1>5. ASSUME NEW s, Table(s, {}, Texts), Ids(s) \subseteq Ids(signals), NEW category
          PROVE  Items(listed(s, category)) /\ Ids(listed(s, category)) = Ids(s)
                 /\ \A R : Once(s, R) => Once(listed(s, category), R)
        <2>1. PICK score : score = [i \in DOMAIN s |-> ranked(s[i])]
            OBVIOUS
        <2>2. \A i \in DOMAIN s : score[i] \in Int
            BY <1>4, <1>5, <2>1
        <2>3. listed(s, category) = [i \in DOMAIN s |-> Item(s[i], category, score[i])]
            BY <2>1
        <2> QED BY <1>5, <2>2, <2>3, ItemRows
    <1>6. ASSUME NEW s, Table(s, {}, Texts), NEW category
          PROVE  Items(plain(s, category)) /\ Ids(plain(s, category)) = Ids(s)
                 /\ \A R : Once(s, R) => Once(plain(s, category), R)
        <2>1. PICK score : score = [i \in DOMAIN s |-> 0]
            OBVIOUS
        <2>2. \A i \in DOMAIN s : score[i] \in Int
            BY <2>1
        <2>3. plain(s, category) = [i \in DOMAIN s |-> Item(s[i], category, score[i])]
            BY <2>1
        <2> HIDE DEF plain
        <2> QED BY <1>6, <2>2, <2>3, ItemRows
    <1> DEFINE a == listed(kept, "memory")
               b == listed(ds, "diff")
               c == listed(fs, "file")
               d == plain(found, "finding")
               e == plain(structural, "structural")
    <1>7. SoftItems(ms, fs, ds, structural, signals) = ByWorth(a \o b \o c \o d \o e)
        BY DEF SoftItems, ByWorth, Mapped, Where, ranked, kept, found
    <1>8. /\ Items(a) /\ Items(b) /\ Items(c) /\ Items(d) /\ Items(e)
          /\ Ids(a) = Ids(kept) /\ Ids(b) = Ids(ds) /\ Ids(c) = Ids(fs) /\ Ids(d) = Ids(found)
          /\ Ids(e) = Ids(structural)
          /\ \A R : Once(kept, R) => Once(a, R)
          /\ \A R : Once(ds, R) => Once(b, R)
          /\ \A R : Once(fs, R) => Once(c, R)
        <2> HIDE DEF listed, plain
        <2>1. /\ Items(a) /\ Ids(a) = Ids(kept) /\ \A R : Once(kept, R) => Once(a, R)
            BY <1>2, <1>3, <1>5
        <2>2. /\ Items(b) /\ Ids(b) = Ids(ds) /\ \A R : Once(ds, R) => Once(b, R)
            BY <1>2, <1>5
        <2>3. /\ Items(c) /\ Ids(c) = Ids(fs) /\ \A R : Once(fs, R) => Once(c, R)
            BY <1>2, <1>5
        <2>4. Items(d) /\ Ids(d) = Ids(found) /\ Items(e) /\ Ids(e) = Ids(structural)
            BY <1>2, <1>6
        <2> QED BY <2>1, <2>2, <2>3, <2>4
    <1> HIDE DEF a, b, c, d, e
    <1>9. Rows(a) /\ Rows(b) /\ Rows(c) /\ Rows(d) /\ Rows(e)
        BY <1>8, ItemsAreRows
    <1>10. Items(a \o b) /\ Rows(a \o b) /\ Ids(a \o b) = Ids(a) \cup Ids(b)
        BY <1>8, <1>9, JoinedItems, Joined
    <1>11. PICK ab : ab = a \o b
        OBVIOUS
    <1>12. Items(ab \o c) /\ Rows(ab \o c) /\ Ids(ab \o c) = Ids(ab) \cup Ids(c)
        BY <1>8, <1>9, <1>10, <1>11, JoinedItems, Joined
    <1>13. PICK abc : abc = ab \o c
        OBVIOUS
    <1>14. Items(abc \o d) /\ Rows(abc \o d) /\ Ids(abc \o d) = Ids(abc) \cup Ids(d)
        BY <1>8, <1>9, <1>12, <1>13, JoinedItems, Joined
    <1>15. PICK abcd : abcd = abc \o d
        OBVIOUS
    <1>16. Items(abcd \o e) /\ Rows(abcd \o e) /\ Ids(abcd \o e) = Ids(abcd) \cup Ids(e)
        BY <1>8, <1>9, <1>14, <1>15, JoinedItems, Joined
    <1>17. PICK all : all = abcd \o e
        OBVIOUS
    <1>18. SoftItems(ms, fs, ds, structural, signals) = ByWorth(all)
        BY <1>7, <1>11, <1>13, <1>15, <1>17
    <1>19. Items(ByWorth(all)) /\ Ids(ByWorth(all)) = Ids(all)
        BY <1>16, <1>17, SortedItems DEF Ids
    <1>20. Ids(all) = Ids(SoftMemories(ms)) \cup Ids(ds) \cup Ids(fs) \cup Ids(SoftAdditions(ms))
                        \cup Ids(structural)
        BY <1>0, <1>8, <1>10, <1>11, <1>12, <1>13, <1>14, <1>15, <1>16, <1>17
    <1>21. ASSUME NEW R, Distinct(ms, fs, ds, R), Elsewhere(ms, structural, R)
           PROVE  Once(ByWorth(all), R)
        <2>1. Once(a, R) /\ Once(b, R) /\ Once(c, R)
            <3>1. Once(kept, R)
                BY <1>0, <1>21, SoftOnes DEF Distinct
            <3>2. Once(ds, R) /\ Once(fs, R)
                BY <1>21 DEF Distinct
            <3> QED BY <1>8, <3>1, <3>2
        <2>2. Once(d, R) /\ Once(e, R)
            BY <1>0, <1>8, <1>21 DEF Elsewhere, Once, Ids, ToSet
        <2>3. Ids(a) \subseteq Ids(ms)
            BY <1>3, <1>8
        <2>4. Apart(a, b, R) /\ Apart(ab, c, R)
            <3>1. Apart(a, b, R)
                BY <1>8, <1>21, <2>3 DEF Distinct, Apart
            <3>2. Apart(ab, c, R)
                BY <1>8, <1>10, <1>11, <1>21, <2>3 DEF Distinct, Apart
            <3> QED BY <3>1, <3>2
        <2>5. Apart(abc, d, R) /\ Apart(abcd, e, R)
            BY <1>0, <1>8, <1>21 DEF Elsewhere, Apart
        <2>6. Once(ab, R)
            BY <1>9, <1>11, <2>1, <2>4, JoinedOnce
        <2>7. Once(abc, R)
            BY <1>9, <1>10, <1>11, <1>13, <2>1, <2>4, <2>6, JoinedOnce
        <2>8. Once(abcd, R)
            BY <1>9, <1>12, <1>13, <1>15, <2>2, <2>5, <2>7, JoinedOnce
        <2>9. Once(all, R)
            BY <1>9, <1>14, <1>15, <1>17, <2>2, <2>5, <2>8, JoinedOnce
        <2> QED BY <1>16, <1>17, <2>9, ScoredOnce
    <1> QED BY <1>18, <1>19, <1>20, <1>21

LEMMA BestScore ==
    ASSUME NEW raw, IsFiniteSet(DOMAIN raw), DOMAIN raw # {}, \A i \in DOMAIN raw : raw[i] \in Nat
    PROVE  (CHOOSE x \in {raw[i] : i \in DOMAIN raw} : \A i \in DOMAIN raw : raw[i] <= x) \in Nat
    <1>1. PICK n \in Nat : ExistsSurjection(1 .. n, DOMAIN raw)
        BY FS_NatSurjection
    <1>2. PICK f \in Surjection(1 .. n, DOMAIN raw) : TRUE
        BY <1>1 DEF ExistsSurjection
    <1>3. f \in [1 .. n -> DOMAIN raw] /\ \A x \in DOMAIN raw : \E k \in 1 .. n : f[k] = x
        BY <1>2 DEF Surjection
    <1>4. n # 0
        <2>1. PICK k \in 1 .. n : TRUE
            BY <1>3
        <2> QED BY <2>1
    <1> DEFINE Bounded == {k \in Nat : k = 0 \/ k > n
                              \/ \E x \in 1 .. k : \A y \in 1 .. k : raw[f[y]] <= raw[f[x]]}
    <1>5. ASSUME NEW k \in Bounded PROVE k + 1 \in Bounded
        <2>1. CASE k + 1 > n
            BY <2>1
        <2>2. CASE k = 0
            <3>1. 1 .. 1 = {1} /\ (k < n => 1 \in 1 .. n)
                BY <2>2
            <3>2. k < n => raw[f[1]] \in Nat
                BY <1>3, <3>1
            <3> QED BY <1>4, <2>2, <3>1, <3>2
        <2>3. CASE k # 0 /\ k + 1 <= n
            <3>1. PICK x \in 1 .. k : \A y \in 1 .. k : raw[f[y]] <= raw[f[x]]
                BY <2>3
            <3>2. \A y \in 1 .. k + 1 : raw[f[y]] \in Nat
                BY <1>3, <2>3
            <3>3. \A y \in 1 .. k + 1 : y \in 1 .. k \/ y = k + 1
                OBVIOUS
            <3>4. CASE raw[f[k + 1]] <= raw[f[x]]
                <4>1. \A y \in 1 .. k + 1 : raw[f[y]] <= raw[f[x]]
                    BY <3>1, <3>3, <3>4
                <4>2. x \in 1 .. k + 1
                    OBVIOUS
                <4> QED BY <4>1, <4>2
            <3>5. CASE ~(raw[f[k + 1]] <= raw[f[x]])
                <4>1. k + 1 \in 1 .. k + 1 /\ x \in 1 .. k + 1
                    OBVIOUS
                <4>2. \A y \in 1 .. k : raw[f[y]] <= raw[f[k + 1]]
                    <5> TAKE y \in 1 .. k
                    <5>1. raw[f[y]] <= raw[f[x]] /\ y \in 1 .. k + 1
                        BY <3>1
                    <5>2. raw[f[y]] \in Nat /\ raw[f[x]] \in Nat /\ raw[f[k + 1]] \in Nat
                        BY <3>2, <4>1, <5>1
                    <5> QED BY <3>5, <5>1, <5>2
                <4>3. raw[f[k + 1]] <= raw[f[k + 1]]
                    BY <3>2, <4>1
                <4>4. \A y \in 1 .. k + 1 : raw[f[y]] <= raw[f[k + 1]]
                    BY <3>3, <4>2, <4>3
                <4> QED BY <4>1, <4>4
            <3> QED BY <3>4, <3>5
        <2> QED BY <2>1, <2>2, <2>3
    <1>6. n \in Bounded
        BY <1>5, Induction
    <1>7. PICK x \in 1 .. n : \A y \in 1 .. n : raw[f[y]] <= raw[f[x]]
        BY <1>4, <1>6
    <1>8. raw[f[x]] \in {raw[i] : i \in DOMAIN raw}
          /\ \A i \in DOMAIN raw : raw[i] <= raw[f[x]]
        BY <1>3, <1>7
    <1>9. \E b \in {raw[i] : i \in DOMAIN raw} : \A i \in DOMAIN raw : raw[i] <= b
        BY <1>8
    <1>10. (CHOOSE b \in {raw[i] : i \in DOMAIN raw} : \A i \in DOMAIN raw : raw[i] <= b)
             \in {raw[i] : i \in DOMAIN raw}
        BY <1>9
    <1> QED BY <1>10

\* The reranker keeps the signals of what was ranked, whatever it is answered.
LEMMA RerankRows ==
    ASSUME NEW signals, Rows(signals), NEW items, Items(items), NEW a \in DOMAIN Answers
    PROVE  /\ Rows(Rerank(signals, items, Answers[a]).signals)
           /\ Ids(Rerank(signals, items, Answers[a]).signals) = Ids(signals)
           /\ Items(Rerank(signals, items, Answers[a]).items)
           /\ Ids(Rerank(signals, items, Answers[a]).items) = Ids(items)
           /\ \A R : Once(signals, R) /\ Once(items, R) =>
                      /\ Once(Rerank(signals, items, Answers[a]).signals, R)
                      /\ Once(Rerank(signals, items, Answers[a]).items, R)
    <1> DEFINE answer == Answers[a]
               raw == answer.scores
               best == CHOOSE x \in {raw[i] : i \in DOMAIN raw} : \A i \in DOMAIN raw : raw[i] <= x
               norm(id) == IF id \notin DOMAIN raw THEN 0
                           ELSE (1000 * raw[id]) \div (IF best = 0 THEN 1 ELSE best)
               score(item) == (7 * norm(item.id) + 3 * item.score) \div 10
               merged(item) == [item EXCEPT !.score = score(item)]
               I == {i \in DOMAIN items : Contains(IdsOf(signals), items[i].id)}
               J == {i \in DOMAIN signals : ~Contains(IdsOf(items), signals[i].id)}
               matched == At(items, I)
               others == At(signals, J)
               rescored(x) == [signals[FirstPlace(signals, x.id)] EXCEPT !.score = merged(x).score]
               s == [i \in DOMAIN matched |-> rescored(matched[i])]
               t == [i \in DOMAIN items |-> merged(items[i])]
    <1>0. Rows(items)
        BY ItemsAreRows
    <1>1. CASE items = <<>> \/ answer.status # "scored" \/ DOMAIN raw = {}
        <2>1. Rerank(signals, items, answer) = [signals |-> signals, items |-> items]
            BY <1>1 DEF Rerank
        <2> QED BY <2>1
    <1>2. CASE ~(items = <<>> \/ answer.status # "scored" \/ DOMAIN raw = {})
        <2>1. Rerank(signals, items, answer) = [signals |-> ByScore(s \o others), items |-> ByWorth(t)]
            BY <1>2 DEF Rerank, ByScore, ByWorth, FirstPlace, Mapped, Where
        <2>2. IsFiniteSet(DOMAIN raw) /\ \A i \in DOMAIN raw : raw[i] \in Nat
            BY BuilderAssumption
        <2>3. best \in Nat
            <3> HIDE DEF raw
            <3> QED BY <1>2, <2>2, BestScore
        <2> HIDE DEF answer, raw, best
        <2>4. \A id : norm(id) \in Int
            <3> TAKE id
            <3>1. PICK d : d = IF best = 0 THEN 1 ELSE best
                OBVIOUS
            <3>2. d \in Nat /\ d > 0
                BY <2>3, <3>1
            <3>3. id \in DOMAIN raw => 1000 * raw[id] \in Int
                BY <2>2
            <3>4. \A x \in Int : x \div d \in Int
                BY <3>2
            <3> QED BY <3>1, <3>3, <3>4
        <2> HIDE DEF norm
        <2>5. \A item : item.score \in Int => score(item) \in Int
            <3> TAKE item
            <3> HAVE item.score \in Int
            <3>1. PICK n \in Int : n = norm(item.id)
                BY <2>4
            <3>2. (7 * n + 3 * item.score) \div 10 \in Int
                OBVIOUS
            <3> QED BY <3>1, <3>2
        <2> HIDE DEF score
        <2>6. \A i \in DOMAIN items : Texts \cup {"score"} \subseteq DOMAIN items[i]
                                      /\ items[i].score \in Int
            BY DEF Items, Table, ToSet
        <2>7. Items(t) /\ Ids(t) = Ids(items) /\ \A R : Once(items, R) => Once(t, R)
            <3>1. ASSUME NEW i \in DOMAIN items
                  PROVE  /\ Texts \cup {"score"} \subseteq DOMAIN t[i]
                         /\ \A n \in Texts : t[i][n] = items[i][n]
                         /\ t[i].score \in Int
                <4>1. PICK x : x = items[i]
                    OBVIOUS
                <4>2. t[i] = [x EXCEPT !.score = score(x)]
                    BY <4>1
                <4>3. score(x) \in Int
                    BY <2>5, <2>6, <4>1
                <4>4. /\ \A n \in Texts : t[i][n] = x[n]
                      /\ t[i].score = score(x) /\ DOMAIN t[i] = DOMAIN x
                    BY <2>6, <4>1, <4>2 DEF Texts
                <4> QED BY <2>6, <4>1, <4>3, <4>4
            <3>2. DOMAIN t = DOMAIN items /\ t = [i \in DOMAIN t |-> t[i]]
                OBVIOUS
            <3> HIDE DEF t
            <3>3. Table(items, {}, Texts \cup {"score"}) /\ Texts \subseteq Texts \cup {"score"}
                BY DEF Items
            <3>4. Items(t) /\ Ids(t) = Ids(items)
                BY <3>1, <3>2, <3>3, ItemByItem
            <3>5. \A i \in DOMAIN items : t[i].id = items[i].id
                BY <3>1 DEF Texts
            <3>6. \A R : Once(items, R) => Once(t, R)
                BY <3>2, <3>5, CopiedOnce
            <3> QED BY <3>4, <3>6
        <2>8. /\ Rows(matched)
              /\ \A id : id \in Ids(matched) <=> id \in Ids(items) /\ id \in Ids(signals)
              /\ \A R : Once(items, R) => Once(matched, R)
            <3>1. \A id : Contains(IdsOf(signals), id) <=> id \in Ids(signals)
                <4>1. Table(IdsOf(signals), {}, {}) /\ ToSet(IdsOf(signals)) = Ids(signals)
                    BY IdRows DEF Rows
                <4> QED BY <4>1 DEF Contains, Table, ToSet
            <3>2. I \cap DOMAIN items = I
                OBVIOUS
            <3>3. \A x : x \in {items[i] : i \in I} <=> x \in ToSet(items) /\ x.id \in Ids(signals)
                BY <3>1 DEF ToSet
            <3> HIDE DEF I
            <3>4. Table(matched, {}, {"id", "score"}) /\ ToSet(matched) = {items[i] : i \in I}
                BY <1>0, <3>2, AtTable DEF Rows
            <3>5. items \in Seq(ToSet(items))
                BY DEF Items, Table
            <3>6. \A R : Once(items, R) => Once(matched, R)
                BY <3>5, AtOnce
            <3> HIDE DEF matched
            <3> QED BY <3>3, <3>4, <3>6 DEF Rows, Ids
        <2>9. /\ Rows(others)
              /\ \A id : id \in Ids(others) <=> id \in Ids(signals) /\ id \notin Ids(items)
              /\ \A R : Once(signals, R) => Once(others, R)
            <3>1. \A id : Contains(IdsOf(items), id) <=> id \in Ids(items)
                <4>1. Table(IdsOf(items), {}, {}) /\ ToSet(IdsOf(items)) = Ids(items)
                    BY <1>0, IdRows DEF Rows
                <4> QED BY <4>1 DEF Contains, Table, ToSet
            <3>2. J \cap DOMAIN signals = J
                OBVIOUS
            <3>3. \A x : x \in {signals[i] : i \in J} <=> x \in ToSet(signals) /\ x.id \notin Ids(items)
                BY <3>1 DEF ToSet
            <3> HIDE DEF J
            <3>4. Table(others, {}, {"id", "score"}) /\ ToSet(others) = {signals[i] : i \in J}
                BY <3>2, AtTable DEF Rows
            <3>5. signals \in Seq(ToSet(signals))
                BY DEF Rows, Table
            <3>6. \A R : Once(signals, R) => Once(others, R)
                BY <3>5, AtOnce
            <3> HIDE DEF others
            <3> QED BY <3>3, <3>4, <3>6 DEF Rows, Ids
        <2> HIDE DEF matched, others, t
        <2>10. Rows(s) /\ Ids(s) = Ids(matched) /\ \A R : Once(matched, R) => Once(s, R)
            <3>1. ASSUME NEW i \in DOMAIN matched
                  PROVE  /\ {"id", "score"} \subseteq DOMAIN s[i]
                         /\ s[i].id = matched[i].id /\ s[i].id \in Int /\ s[i].score \in Int
                <4>1. PICK x : x = matched[i]
                    OBVIOUS
                <4>2. /\ {"id", "score"} \subseteq DOMAIN x /\ x.id \in Int /\ x.score \in Int
                      /\ x.id \in Ids(signals)
                    BY <2>8, <4>1 DEF Rows, Table, ToSet, Ids
                <4>3. PICK y : y = signals[FirstPlace(signals, x.id)]
                    OBVIOUS
                <4>4. y \in ToSet(signals) /\ y.id = x.id
                    BY <4>2, <4>3, SignalFound DEF ToSet
                <4>5. {"id", "score"} \subseteq DOMAIN y
                    BY <4>4 DEF Rows, Table
                <4>6. PICK z : z = score(x)
                    OBVIOUS
                <4>7. merged(x).score = z /\ z \in Int
                    BY <2>5, <4>2, <4>6
                <4>8. s[i] = [y EXCEPT !.score = z]
                    BY <4>1, <4>3, <4>7
                <4>9. DOMAIN s[i] = DOMAIN y /\ s[i].id = y.id /\ s[i].score = z
                    BY <4>5, <4>8
                <4> QED BY <4>1, <4>2, <4>4, <4>5, <4>7, <4>9
            <3>2. DOMAIN s = DOMAIN matched /\ s = [i \in DOMAIN s |-> s[i]]
                OBVIOUS
            <3> HIDE DEF s
            <3>3. Rows(s) /\ Ids(s) = Ids(matched)
                BY <2>8, <3>1, <3>2, RowByRow DEF Rows
            <3>4. \A R : Once(matched, R) => Once(s, R)
                BY <3>1, <3>2, CopiedOnce
            <3> QED BY <3>3, <3>4
        <2> HIDE DEF s
        <2>11. Rows(s \o others) /\ Ids(s \o others) = Ids(s) \cup Ids(others)
            BY <2>9, <2>10, Joined
        <2>12. Ids(s \o others) = Ids(signals)
            BY <2>8, <2>9, <2>10, <2>11
        <2>13. Rows(ByScore(s \o others)) /\ Ids(ByScore(s \o others)) = Ids(signals)
            BY <2>11, <2>12, Scored
        <2>14. Items(ByWorth(t)) /\ Ids(ByWorth(t)) = Ids(items)
            BY <2>7, SortedItems DEF Ids
        <2>15. ASSUME NEW R, Once(signals, R), Once(items, R)
               PROVE  Once(ByScore(s \o others), R) /\ Once(ByWorth(t), R)
            <3>1. Once(s, R)
                BY <2>8, <2>10, <2>15
            <3>2. Once(others, R)
                BY <2>9, <2>15
            <3>3. Apart(s, others, R)
                BY <2>8, <2>9, <2>10 DEF Apart
            <3>4. Once(s \o others, R)
                BY <2>9, <2>10, <3>1, <3>2, <3>3, JoinedOnce
            <3>5. Rows(t) /\ Once(t, R)
                BY <2>7, <2>15, ItemsAreRows
            <3>6. Once(ByScore(s \o others), R)
                BY <2>11, <3>4, ScoredOnce
            <3> QED BY <3>5, <3>6, ScoredOnce
        <2> QED BY <2>1, <2>13, <2>14, <2>15 DEF answer
    <1> QED BY <1>1, <1>2

-----------------------------------------------------------------------------
(* The prompt *)

Sized(s) == s \in Seq(ToSet(s)) /\ \A x \in ToSet(s) : x.chars \in Nat /\ x.tokens \in Nat

Chars(s) == Total(s, Cost)
Tokens(s) == Total(s, LAMBDA x : x.tokens)

\* Additions of numbers, from left to right, and their course.
Adding(c, n) == [i \in 1 .. n |-> [v \in Nat |-> v + c[i]]]

Sums(f, c, n) ==
    /\ n \in Nat /\ \A i \in 1 .. n : c[i] \in Nat
    /\ f \in [0 .. n -> Nat] /\ f[0] = 0 /\ \A i \in 1 .. n : f[i] = f[i - 1] + c[i]

LEMMA AddingSteps ==
    ASSUME NEW n \in Nat, NEW c, \A i \in 1 .. n : c[i] \in Nat
    PROVE  Stepping(Adding(c, n), n, Nat) /\ \A f : Runs(f, Adding(c, n), n, Nat, 0) => Sums(f, c, n)
    <1>1. \A i \in 1 .. n : [v \in Nat |-> v + c[i]] \in [Nat -> Nat]
        OBVIOUS
    <1>2. ASSUME NEW f, Runs(f, Adding(c, n), n, Nat, 0) PROVE Sums(f, c, n)
        <2>1. f \in [0 .. n -> Nat] /\ f[0] = 0 /\ \A i \in 1 .. n : f[i] = Adding(c, n)[i][f[i - 1]]
            BY <1>2 DEF Runs
        <2>2. \A i \in 1 .. n : i - 1 \in 0 .. n
            OBVIOUS
        <2> QED BY <2>1, <2>2 DEF Adding, Sums
    <1> QED BY <1>1, <1>2 DEF Stepping, Adding

LEMMA CharsRun ==
    ASSUME NEW s, Sized(s)
    PROVE  \E f : Sums(f, [i \in DOMAIN s |-> Cost(s[i])], Len(s)) /\ Chars(s) = f[Len(s)]
    <1> DEFINE n == Len(s)
               c == [i \in DOMAIN s |-> Cost(s[i])]
               next == Adding(c, n)
               Rhs(g) == [T \in SUBSET DOMAIN s |->
                             IF T = {} THEN 0 ELSE g[T \ {Max(T)}] + Cost(s[Max(T)])]
               iter == CHOOSE g : g = Rhs(g)
    <1>1. n \in Nat /\ DOMAIN s = 1 .. n /\ \A i \in 1 .. n : c[i] = Cost(s[i]) /\ c[i] \in Nat
        BY DEF Sized, ToSet, Cost
    <1>2. Chars(s) = iter[1 .. n]
        BY <1>1 DEF Chars, Total, FoldLeft, MapThenFoldSet
    <1> HIDE DEF n, c
    <1>3. Stepping(next, n, Nat)
        BY <1>1, AddingSteps
    <1>4. \A i \in 1 .. n : \A v \in Nat : next[i][v] = v + Cost(s[i])
        BY <1>1 DEF Adding
    <1> HIDE DEF next
    <1>5. PICK X, zero : X = Nat /\ zero = 0
        OBVIOUS
    <1>6. n \in Nat /\ zero \in X /\ Stepping(next, n, X)
        BY <1>1, <1>3, <1>5
    <1>7. PICK h : FoldsSets(h, next, n, X, zero)
        BY <1>6, Folding
    <1>8. h = Rhs(h)
        <2>1. ASSUME NEW T \in SUBSET (1 .. n), T # {}
              PROVE  h[T] = h[T \ {Max(T)}] + Cost(s[Max(T)])
            <3>1. Max(T) \in 1 .. n
                BY <1>1, <2>1, Greatest
            <3>2. h[T \ {Max(T)}] \in Nat
                BY <1>5, <1>7 DEF FoldsSets
            <3> QED BY <1>4, <1>7, <2>1, <3>1, <3>2 DEF FoldsSets
        <2> QED BY <1>1, <1>5, <1>7, <2>1 DEF FoldsSets
    <1>9. iter = Rhs(iter)
        BY <1>8
    <1> HIDE DEF iter
    <1>10. Unfolds(iter, next, n, X, zero)
        <2>1. ASSUME NEW T \in SUBSET (1 .. n), T # {}, iter[T \ {Max(T)}] \in X
              PROVE  iter[T] = next[Max(T)][iter[T \ {Max(T)}]]
            <3>1. Max(T) \in 1 .. n
                BY <1>1, <2>1, Greatest
            <3> QED BY <1>1, <1>4, <1>5, <1>9, <2>1, <3>1
        <2> QED BY <1>1, <1>5, <1>9, <2>1 DEF Unfolds
    <1>11. \E f : Runs(f, next, n, X, zero) /\ iter[1 .. n] = f[n]
        BY <1>6, <1>10, Course
    <1>12. PICK f : Runs(f, next, n, Nat, 0) /\ iter[1 .. n] = f[n]
        BY <1>5, <1>11
    <1>13. Sums(f, c, n)
        BY <1>1, <1>12, AddingSteps DEF next
    <1> QED BY <1>2, <1>12, <1>13 DEF n, c

LEMMA TokensRun ==
    ASSUME NEW s, Sized(s)
    PROVE  \E f : Sums(f, [i \in DOMAIN s |-> s[i].tokens], Len(s)) /\ Tokens(s) = f[Len(s)]
    <1> DEFINE n == Len(s)
               c == [i \in DOMAIN s |-> s[i].tokens]
               next == Adding(c, n)
               Rhs(g) == [T \in SUBSET DOMAIN s |->
                             IF T = {} THEN 0 ELSE g[T \ {Max(T)}] + s[Max(T)].tokens]
               iter == CHOOSE g : g = Rhs(g)
    <1>1. n \in Nat /\ DOMAIN s = 1 .. n /\ \A i \in 1 .. n : c[i] = s[i].tokens /\ c[i] \in Nat
        BY DEF Sized, ToSet, Cost
    <1>2. Tokens(s) = iter[1 .. n]
        BY <1>1 DEF Tokens, Total, FoldLeft, MapThenFoldSet
    <1> HIDE DEF n, c
    <1>3. Stepping(next, n, Nat)
        BY <1>1, AddingSteps
    <1>4. \A i \in 1 .. n : \A v \in Nat : next[i][v] = v + s[i].tokens
        BY <1>1 DEF Adding
    <1> HIDE DEF next
    <1>5. PICK X, zero : X = Nat /\ zero = 0
        OBVIOUS
    <1>6. n \in Nat /\ zero \in X /\ Stepping(next, n, X)
        BY <1>1, <1>3, <1>5
    <1>7. PICK h : FoldsSets(h, next, n, X, zero)
        BY <1>6, Folding
    <1>8. h = Rhs(h)
        <2>1. ASSUME NEW T \in SUBSET (1 .. n), T # {}
              PROVE  h[T] = h[T \ {Max(T)}] + s[Max(T)].tokens
            <3>1. Max(T) \in 1 .. n
                BY <1>1, <2>1, Greatest
            <3>2. h[T \ {Max(T)}] \in Nat
                BY <1>5, <1>7 DEF FoldsSets
            <3> QED BY <1>4, <1>7, <2>1, <3>1, <3>2 DEF FoldsSets
        <2> QED BY <1>1, <1>5, <1>7, <2>1 DEF FoldsSets
    <1>9. iter = Rhs(iter)
        BY <1>8
    <1> HIDE DEF iter
    <1>10. Unfolds(iter, next, n, X, zero)
        <2>1. ASSUME NEW T \in SUBSET (1 .. n), T # {}, iter[T \ {Max(T)}] \in X
              PROVE  iter[T] = next[Max(T)][iter[T \ {Max(T)}]]
            <3>1. Max(T) \in 1 .. n
                BY <1>1, <2>1, Greatest
            <3> QED BY <1>1, <1>4, <1>5, <1>9, <2>1, <3>1
        <2> QED BY <1>1, <1>5, <1>9, <2>1 DEF Unfolds
    <1>11. \E f : Runs(f, next, n, X, zero) /\ iter[1 .. n] = f[n]
        BY <1>6, <1>10, Course
    <1>12. PICK f : Runs(f, next, n, Nat, 0) /\ iter[1 .. n] = f[n]
        BY <1>5, <1>11
    <1>13. Sums(f, c, n)
        BY <1>1, <1>12, AddingSteps DEF next
    <1> QED BY <1>2, <1>12, <1>13 DEF n, c

LEMMA OneMore ==
    ASSUME NEW n, NEW c, NEW f, Sums(f, c, n), NEW d, NEW g, Sums(g, d, n + 1),
           \A i \in 1 .. n : d[i] = c[i]
    PROVE  f[n] \in Nat /\ g[n + 1] = f[n] + d[n + 1]
    <1>1. /\ n \in Nat /\ f \in [0 .. n -> Nat]
          /\ f[0] = 0 /\ \A i \in 1 .. n : f[i] = f[i - 1] + c[i]
          /\ g[0] = 0 /\ \A i \in 1 .. n + 1 : g[i] = g[i - 1] + d[i]
        BY DEF Sums
    <1>2. \A i \in 1 .. n : g[i - 1] = f[i - 1] => g[i] = f[i]
        <2> TAKE i \in 1 .. n
        <2>1. i \in 1 .. n + 1
            BY <1>1
        <2> QED BY <1>1, <2>1
    <1>3. \A i \in 0 .. n : g[i] = f[i]
        <2>1. n \in Nat /\ g[0] = f[0]
            BY <1>1
        <2> QED BY <1>2, <2>1, Unrolled
    <1> QED BY <1>1, <1>3

LEMMA Appending ==
    ASSUME NEW s, Sized(s), NEW x, x.chars \in Nat, x.tokens \in Nat
    PROVE  /\ Sized(Append(s, x)) /\ Len(Append(s, x)) = Len(s) + 1
           /\ Chars(s) \in Nat /\ Chars(Append(s, x)) = Chars(s) + Cost(x)
           /\ Tokens(s) \in Nat /\ Tokens(Append(s, x)) = Tokens(s) + x.tokens
    <1> DEFINE t == Append(s, x)
               n == Len(s)
    <1>1. n \in Nat /\ DOMAIN s = 1 .. n /\ DOMAIN t = 1 .. n + 1 /\ Len(t) = n + 1
          /\ t[n + 1] = x /\ \A i \in 1 .. n : t[i] = s[i]
        BY DEF Sized, ToSet
    <1>2. ToSet(t) = ToSet(s) \cup {x}
        BY <1>1 DEF ToSet
    <1>3. Sized(t)
        <2>1. t \in Seq(ToSet(t))
            BY Appended DEF Sized
        <2> HIDE DEF t
        <2> QED BY <1>2, <2>1 DEF Sized
    <1> HIDE DEF t
    <1>4. Chars(s) \in Nat /\ Chars(t) = Chars(s) + Cost(x)
        <2> DEFINE c == [i \in DOMAIN s |-> Cost(s[i])]
                   d == [i \in DOMAIN t |-> Cost(t[i])]
        <2>1. PICK f : Sums(f, c, n) /\ Chars(s) = f[n]
            BY CharsRun
        <2>2. PICK g : Sums(g, d, n + 1) /\ Chars(t) = g[n + 1]
            BY <1>1, <1>3, CharsRun
        <2>3. d[n + 1] = Cost(x) /\ \A i \in 1 .. n : d[i] = c[i]
            BY <1>1
        <2> HIDE DEF c, d, n
        <2>4. f[n] \in Nat /\ g[n + 1] = f[n] + d[n + 1]
            BY <2>1, <2>2, <2>3, OneMore
        <2> QED BY <2>1, <2>2, <2>3, <2>4
    <1>5. Tokens(s) \in Nat /\ Tokens(t) = Tokens(s) + x.tokens
        <2> DEFINE c == [i \in DOMAIN s |-> s[i].tokens]
                   d == [i \in DOMAIN t |-> t[i].tokens]
        <2>1. PICK f : Sums(f, c, n) /\ Tokens(s) = f[n]
            BY TokensRun
        <2>2. PICK g : Sums(g, d, n + 1) /\ Tokens(t) = g[n + 1]
            BY <1>1, <1>3, TokensRun
        <2>3. d[n + 1] = x.tokens /\ \A i \in 1 .. n : d[i] = c[i]
            BY <1>1
        <2> HIDE DEF c, d, n
        <2>4. f[n] \in Nat /\ g[n + 1] = f[n] + d[n + 1]
            BY <2>1, <2>2, <2>3, OneMore
        <2> QED BY <2>1, <2>2, <2>3, <2>4
    <1> QED BY <1>1, <1>3, <1>4, <1>5 DEF t

\* The limits, said of the two sums.
LEMMA TooMuchSums ==
    ASSUME NEW s
    PROVE  TooMuch(s) <=> \/ Len(s) > MaxItems
                          \/ Chars(s) > CharBudget
                          \/ Tokens(s) > TokenBudget
    BY DEF TooMuch, Chars, Tokens, Total, FoldLeft, MapThenFoldSet, Cost

LEMMA FitsSums ==
    ASSUME NEW s, NEW x
    PROVE  Fits(x, s) <=> /\ Len(s) < MaxItems
                          /\ Chars(s) + Cost(x) <= CharBudget
                          /\ Tokens(s) + x.tokens <= TokenBudget
    BY DEF Fits, Chars, Tokens, Total, FoldLeft, MapThenFoldSet, Cost

\* An item fits when the prompt with it is not too much.
LEMMA FitsWhenRoom ==
    ASSUME NEW s, Sized(s), NEW x, x.chars \in Nat, x.tokens \in Nat
    PROVE  Fits(x, s) <=> ~TooMuch(Append(s, x))
    <1>1. /\ Len(s) \in Nat /\ Len(Append(s, x)) = Len(s) + 1
          /\ Chars(s) \in Nat /\ Chars(Append(s, x)) = Chars(s) + Cost(x) /\ Cost(x) \in Nat
          /\ Tokens(s) \in Nat /\ Tokens(Append(s, x)) = Tokens(s) + x.tokens
        BY Appending DEF Sized, Cost
    <1>2. MaxItems \in Nat /\ CharBudget \in Nat /\ TokenBudget \in Nat
        BY BuilderAssumption DEF AssemblyAssumption
    <1>3. PICK t : t = Append(s, x)
        OBVIOUS
    <1>4. TooMuch(t) <=> Len(t) > MaxItems \/ Chars(t) > CharBudget \/ Tokens(t) > TokenBudget
        BY TooMuchSums
    <1> QED BY <1>1, <1>2, <1>3, <1>4, FitsSums

LEMMA EmptyFits ==
    /\ Sized(<<>>) /\ ~TooMuch(<<>>) /\ Chars(<<>>) = 0 /\ Tokens(<<>>) = 0 /\ Len(<<>>) = 0
    <1>1. PICK s : s = <<>>
        OBVIOUS
    <1>2. Sized(s) /\ Len(s) = 0
        BY <1>1 DEF Sized, ToSet
    <1>3. Chars(s) = 0
        BY <1>2, CharsRun DEF Sums
    <1>4. Tokens(s) = 0
        BY <1>2, TokensRun DEF Sums
    <1>5. MaxItems \in Nat /\ CharBudget \in Nat /\ TokenBudget \in Nat
        BY BuilderAssumption DEF AssemblyAssumption
    <1>6. ~TooMuch(s)
        BY <1>2, <1>3, <1>4, <1>5, TooMuchSums
    <1> QED BY <1>1, <1>2, <1>3, <1>4, <1>6

\* What is kept first is kept: sizes and ids only grow.
Below(u, v) ==
    /\ Len(u) <= Len(v) /\ Chars(u) <= Chars(v) /\ Tokens(u) <= Tokens(v)
    /\ Ids(u) \subseteq Ids(v)

LEMMA Measured ==
    ASSUME NEW s, Sized(s)
    PROVE  Len(s) \in Nat /\ Chars(s) \in Nat /\ Tokens(s) \in Nat /\ Below(s, s)
    <1>1. PICK x : x = [chars |-> 0, tokens |-> 0]
        OBVIOUS
    <1>2. x.chars \in Nat /\ x.tokens \in Nat
        BY <1>1
    <1>3. Chars(s) \in Nat /\ Tokens(s) \in Nat
        BY <1>2, Appending
    <1> QED BY <1>3 DEF Sized, Below

LEMMA Growing ==
    ASSUME NEW s, Sized(s), NEW x, x.chars \in Nat, x.tokens \in Nat
    PROVE  Below(s, Append(s, x)) /\ x.id \in Ids(Append(s, x))
    <1>1. /\ Len(s) \in Nat /\ Len(Append(s, x)) = Len(s) + 1
          /\ Chars(s) \in Nat /\ Chars(Append(s, x)) = Chars(s) + Cost(x) /\ Cost(x) \in Nat
          /\ Tokens(s) \in Nat /\ Tokens(Append(s, x)) = Tokens(s) + x.tokens
        BY Appending DEF Sized, Cost
    <1>2. Ids(Append(s, x)) = Ids(s) \cup {x.id}
        <2>1. s \in Seq(ToSet(s))
            BY DEF Sized
        <2>2. PICK t : t = Append(s, x)
            OBVIOUS
        <2>3. DOMAIN t = DOMAIN s \cup {Len(s) + 1} /\ t[Len(s) + 1] = x /\ \A i \in DOMAIN s : t[i] = s[i]
            BY <2>1, <2>2, Appended
        <2>4. ToSet(t) = ToSet(s) \cup {x}
            BY <2>3 DEF ToSet
        <2> QED BY <2>2, <2>4 DEF Ids
    <1> QED BY <1>1, <1>2 DEF Below

LEMMA StillTooMuch ==
    ASSUME NEW u, Sized(u), NEW v, Sized(v), Below(u, v),
           NEW x, x.chars \in Nat, x.tokens \in Nat, ~Fits(x, u)
    PROVE  ~Fits(x, v)
    <1>1. /\ Len(u) \in Nat /\ Chars(u) \in Nat /\ Tokens(u) \in Nat
          /\ Len(v) \in Nat /\ Chars(v) \in Nat /\ Tokens(v) \in Nat /\ Cost(x) \in Nat
        BY Appending DEF Sized, Cost
    <1>2. MaxItems \in Nat /\ CharBudget \in Nat /\ TokenBudget \in Nat
        BY BuilderAssumption DEF AssemblyAssumption
    <1> QED BY <1>1, <1>2, FitsSums DEF Below

Sizes(S) == \A x \in S : x.chars \in Nat /\ x.tokens \in Nat
Roomy(S) == {v \in Seq(S) : ~TooMuch(v)}

LEMMA SizedOf ==
    ASSUME NEW S, Sizes(S), NEW v \in Seq(S)
    PROVE  Sized(v)
    BY OwnElements DEF Sized, Sizes

LEMMA KeepsRoom ==
    ASSUME NEW S, Sizes(S), NEW v \in Roomy(S), NEW x \in S
    PROVE  KeepIfFits(v, x) \in Roomy(S)
    <1>1. v \in Seq(S) /\ ~TooMuch(v)
        BY DEF Roomy
    <1>2. Sized(v) /\ x.chars \in Nat /\ x.tokens \in Nat
        BY <1>1, SizedOf DEF Sizes
    <1>3. Append(v, x) \in Seq(S)
        BY <1>1
    <1>4. Fits(x, v) => ~TooMuch(Append(v, x))
        BY <1>2, FitsWhenRoom
    <1> QED BY <1>1, <1>3, <1>4 DEF KeepIfFits, Roomy

LEMMA HeadsRun ==
    ASSUME NEW S, NEW s, s \in Seq(S)
    PROVE  CategoryHeads(s) \in Seq(S)
    <1> DEFINE n == Len(s)
               Has1(v, i) == \E j \in DOMAIN v : v[j].category = s[i].category
               next == [i \in 1 .. n |-> [v \in Seq(S) |->
                           IF Has1(v, i) THEN v ELSE Append(v, s[i])]]
               Rhs(g) == [T \in SUBSET DOMAIN s |->
                             IF T = {} THEN <<>>
                             ELSE IF Has1(g[T \ {Max(T)}], Max(T)) THEN g[T \ {Max(T)}]
                                  ELSE Append(g[T \ {Max(T)}], s[Max(T)])]
               iter == CHOOSE g : g = Rhs(g)
    <1>1. n \in Nat /\ DOMAIN s = 1 .. n /\ \A i \in 1 .. n : s[i] \in S
        OBVIOUS
    <1>2. CategoryHeads(s) = iter[1 .. n]
        BY <1>1 DEF CategoryHeads, FoldLeft, MapThenFoldSet
    <1> HIDE DEF n, Has1
    <1>3. PICK X, base : X = Seq(S) /\ base = <<>>
        OBVIOUS
    <1>4. n \in Nat /\ base \in X /\ Stepping(next, n, X)
        <2>1. \A i \in 1 .. n : \A v \in X : Append(v, s[i]) \in X
            BY <1>1, <1>3
        <2>2. next = [i \in 1 .. n |-> [v \in X |-> IF Has1(v, i) THEN v ELSE Append(v, s[i])]]
            BY <1>3
        <2>3. base \in X
            BY <1>3
        <2> QED BY <1>1, <2>1, <2>2, <2>3 DEF Stepping
    <1>5. \A i \in 1 .. n : \A v \in X : next[i][v] = IF Has1(v, i) THEN v ELSE Append(v, s[i])
        BY <1>3
    <1> HIDE DEF next
    <1>6. PICK h : FoldsSets(h, next, n, X, base)
        BY <1>4, Folding
    <1>7. h = Rhs(h)
        <2>1. ASSUME NEW T \in SUBSET (1 .. n), T # {}
              PROVE  h[T] = IF Has1(h[T \ {Max(T)}], Max(T)) THEN h[T \ {Max(T)}]
                            ELSE Append(h[T \ {Max(T)}], s[Max(T)])
            <3>1. Max(T) \in 1 .. n
                BY <1>1, <2>1, Greatest
            <3>2. h[T \ {Max(T)}] \in X
                BY <1>6 DEF FoldsSets
            <3> QED BY <1>5, <1>6, <2>1, <3>1, <3>2 DEF FoldsSets
        <2> QED BY <1>1, <1>3, <1>6, <2>1 DEF FoldsSets
    <1>8. iter = Rhs(iter)
        BY <1>7
    <1> HIDE DEF iter
    <1>9. Unfolds(iter, next, n, X, base)
        <2>1. ASSUME NEW T \in SUBSET (1 .. n), T # {}, iter[T \ {Max(T)}] \in X
              PROVE  iter[T] = next[Max(T)][iter[T \ {Max(T)}]]
            <3>1. Max(T) \in 1 .. n
                BY <1>1, <2>1, Greatest
            <3> QED BY <1>1, <1>5, <1>8, <2>1, <3>1
        <2> QED BY <1>1, <1>3, <1>8, <2>1 DEF Unfolds
    <1>10. PICK f : Runs(f, next, n, X, base) /\ iter[1 .. n] = f[n]
        BY <1>4, <1>9, Course
    <1>11. f[n] \in X
        BY <1>1, <1>10 DEF Runs
    <1> QED BY <1>2, <1>3, <1>10, <1>11

Heads(s) == FoldLeft(KeepIfFits, <<>>, s)

LEMMA FirstRun ==
    ASSUME NEW S, Sizes(S), NEW s, s \in Seq(S)
    PROVE  Heads(s) \in Roomy(S)
    <1> DEFINE n == Len(s)
               next == [i \in 1 .. n |-> [v \in Roomy(S) |-> KeepIfFits(v, s[i])]]
               Rhs(g) == [T \in SUBSET DOMAIN s |->
                             IF T = {} THEN <<>> ELSE KeepIfFits(g[T \ {Max(T)}], s[Max(T)])]
               iter == CHOOSE g : g = Rhs(g)
    <1>1. n \in Nat /\ DOMAIN s = 1 .. n /\ \A i \in 1 .. n : s[i] \in S
        OBVIOUS
    <1>2. Heads(s) = iter[1 .. n]
        BY <1>1 DEF Heads, FoldLeft, MapThenFoldSet
    <1> HIDE DEF n
    <1>3. PICK X, base : X = Roomy(S) /\ base = <<>>
        OBVIOUS
    <1>4. n \in Nat /\ base \in X /\ Stepping(next, n, X)
        <2>1. \A i \in 1 .. n : \A v \in X : KeepIfFits(v, s[i]) \in X
            BY <1>1, <1>3, KeepsRoom
        <2>2. next = [i \in 1 .. n |-> [v \in X |-> KeepIfFits(v, s[i])]]
            BY <1>3
        <2>3. base \in X
            BY <1>3, EmptyFits DEF Roomy
        <2> QED BY <1>1, <2>1, <2>2, <2>3 DEF Stepping
    <1>5. \A i \in 1 .. n : \A v \in X : next[i][v] = KeepIfFits(v, s[i])
        BY <1>3
    <1> HIDE DEF next
    <1>6. PICK h : FoldsSets(h, next, n, X, base)
        BY <1>4, Folding
    <1>7. h = Rhs(h)
        <2>1. ASSUME NEW T \in SUBSET (1 .. n), T # {}
              PROVE  h[T] = KeepIfFits(h[T \ {Max(T)}], s[Max(T)])
            <3>1. Max(T) \in 1 .. n
                BY <1>1, <2>1, Greatest
            <3>2. h[T \ {Max(T)}] \in X
                BY <1>6 DEF FoldsSets
            <3> QED BY <1>5, <1>6, <2>1, <3>1, <3>2 DEF FoldsSets
        <2> QED BY <1>1, <1>3, <1>6, <2>1 DEF FoldsSets
    <1>8. iter = Rhs(iter)
        BY <1>7
    <1> HIDE DEF iter
    <1>9. Unfolds(iter, next, n, X, base)
        <2>1. ASSUME NEW T \in SUBSET (1 .. n), T # {}, iter[T \ {Max(T)}] \in X
              PROVE  iter[T] = next[Max(T)][iter[T \ {Max(T)}]]
            <3>1. Max(T) \in 1 .. n
                BY <1>1, <2>1, Greatest
            <3> QED BY <1>1, <1>5, <1>8, <2>1, <3>1
        <2> QED BY <1>1, <1>3, <1>8, <2>1 DEF Unfolds
    <1>10. PICK f : Runs(f, next, n, X, base) /\ iter[1 .. n] = f[n]
        BY <1>4, <1>9, Course
    <1>11. f[n] \in X
        BY <1>1, <1>10 DEF Runs
    <1> QED BY <1>2, <1>3, <1>10, <1>11

AddNew(kept, x) == IF Contains(IdsOf(kept), x.id) THEN kept ELSE KeepIfFits(kept, x)
Filled(heads, s) ==
    FoldLeft(LAMBDA acc, x : IF Contains(IdsOf(acc), x.id) THEN acc ELSE KeepIfFits(acc, x),
             heads, s)

LEMMA AddsRoom ==
    ASSUME NEW S, Sizes(S), NEW v \in Roomy(S), NEW x \in S
    PROVE  AddNew(v, x) \in Roomy(S)
    BY KeepsRoom DEF AddNew

\* The course of the last pass over the items, from the heads on.
Fills(f, s, S, heads) ==
    /\ Len(s) \in Nat /\ f \in [0 .. Len(s) -> Roomy(S)] /\ f[0] = heads
    /\ \A i \in 1 .. Len(s) : s[i] \in S /\ f[i] = AddNew(f[i - 1], s[i])

LEMMA LastRun ==
    ASSUME NEW S, Sizes(S), NEW s, s \in Seq(S), NEW heads, heads \in Roomy(S)
    PROVE  \E f : Fills(f, s, S, heads) /\ Filled(heads, s) = f[Len(s)]
    <1> DEFINE n == Len(s)
               next == [i \in 1 .. n |-> [v \in Roomy(S) |-> AddNew(v, s[i])]]
               Rhs(g) == [T \in SUBSET DOMAIN s |->
                             IF T = {} THEN heads ELSE AddNew(g[T \ {Max(T)}], s[Max(T)])]
               iter == CHOOSE g : g = Rhs(g)
    <1>1. n \in Nat /\ DOMAIN s = 1 .. n /\ \A i \in 1 .. n : s[i] \in S
        OBVIOUS
    <1>2. Filled(heads, s) = iter[1 .. n]
        BY <1>1 DEF Filled, AddNew, FoldLeft, MapThenFoldSet
    <1> HIDE DEF n
    <1>3. PICK X, base : X = Roomy(S) /\ base = heads
        OBVIOUS
    <1>4. n \in Nat /\ base \in X /\ Stepping(next, n, X)
        <2>1. \A i \in 1 .. n : \A v \in X : AddNew(v, s[i]) \in X
            BY <1>1, <1>3, AddsRoom
        <2>2. next = [i \in 1 .. n |-> [v \in X |-> AddNew(v, s[i])]]
            BY <1>3
        <2>3. base \in X
            BY <1>3, EmptyFits DEF Roomy
        <2> QED BY <1>1, <2>1, <2>2, <2>3 DEF Stepping
    <1>5. \A i \in 1 .. n : \A v \in X : next[i][v] = AddNew(v, s[i])
        BY <1>3
    <1> HIDE DEF next
    <1>6. PICK h : FoldsSets(h, next, n, X, base)
        BY <1>4, Folding
    <1>7. h = Rhs(h)
        <2>1. ASSUME NEW T \in SUBSET (1 .. n), T # {}
              PROVE  h[T] = AddNew(h[T \ {Max(T)}], s[Max(T)])
            <3>1. Max(T) \in 1 .. n
                BY <1>1, <2>1, Greatest
            <3>2. h[T \ {Max(T)}] \in X
                BY <1>6 DEF FoldsSets
            <3> QED BY <1>5, <1>6, <2>1, <3>1, <3>2 DEF FoldsSets
        <2> QED BY <1>1, <1>3, <1>6, <2>1 DEF FoldsSets
    <1>8. iter = Rhs(iter)
        BY <1>7
    <1> HIDE DEF iter
    <1>9. Unfolds(iter, next, n, X, base)
        <2>1. ASSUME NEW T \in SUBSET (1 .. n), T # {}, iter[T \ {Max(T)}] \in X
              PROVE  iter[T] = next[Max(T)][iter[T \ {Max(T)}]]
            <3>1. Max(T) \in 1 .. n
                BY <1>1, <2>1, Greatest
            <3> QED BY <1>1, <1>5, <1>8, <2>1, <3>1
        <2> QED BY <1>1, <1>3, <1>8, <2>1 DEF Unfolds
    <1>10. PICK f : Runs(f, next, n, X, base) /\ iter[1 .. n] = f[n]
        BY <1>4, <1>9, Course
    <1>11. /\ f \in [0 .. n -> X] /\ f[0] = base
           /\ \A i \in 1 .. n : f[i] = next[i][f[i - 1]]
        BY <1>10 DEF Runs
    <1>12. \A i \in 1 .. n : i - 1 \in 0 .. n
        BY <1>1
    <1>13. \A i \in 1 .. n : f[i] = AddNew(f[i - 1], s[i])
        BY <1>5, <1>11, <1>12
    <1>14. Fills(f, s, S, heads)
        BY <1>1, <1>3, <1>11, <1>13 DEF Fills, n
    <1> QED BY <1>2, <1>10, <1>14 DEF n

LEMMA FillsUp ==
    ASSUME NEW S, Sizes(S), NEW f, NEW s, NEW heads, Fills(f, s, S, heads)
    PROVE  \A i \in 0 .. Len(s) : Below(f[i], f[Len(s)])
    <1> DEFINE n == Len(s)
               Up == {k \in Nat : k > n \/ \A i \in 0 .. k : Below(f[i], f[k])}
    <1>1. /\ n \in Nat /\ \A i \in 0 .. n : f[i] \in Roomy(S)
          /\ \A i \in 1 .. n : s[i] \in S /\ f[i] = AddNew(f[i - 1], s[i])
        BY DEF Fills
    <1>2. \A i \in 0 .. n : Sized(f[i]) /\ Below(f[i], f[i])
        <2> TAKE i \in 0 .. n
        <2>1. f[i] \in Seq(S)
            BY <1>1 DEF Roomy
        <2>2. Sized(f[i])
            BY <2>1, SizedOf
        <2> QED BY <2>2, Measured
    <1>3. ASSUME NEW k \in 1 .. n PROVE Below(f[k - 1], f[k])
        <2>1. PICK u, x : u = f[k - 1] /\ x = s[k]
            OBVIOUS
        <2>2. k - 1 \in 0 .. n
            BY <1>1
        <2>3. Sized(u) /\ Below(u, u) /\ x.chars \in Nat /\ x.tokens \in Nat
            BY <1>1, <1>2, <2>1, <2>2 DEF Sizes
        <2>4. Below(u, Append(u, x))
            BY <2>3, Growing
        <2>5. f[k] \in {u, Append(u, x)}
            BY <1>1, <2>1 DEF AddNew, KeepIfFits
        <2> QED BY <2>1, <2>3, <2>4, <2>5
    <1>4. ASSUME NEW i \in 0 .. n, NEW j \in 0 .. n, NEW k \in 0 .. n,
                 Below(f[i], f[j]), Below(f[j], f[k])
          PROVE  Below(f[i], f[k])
        <2>1. PICK u, v, w : u = f[i] /\ v = f[j] /\ w = f[k]
            OBVIOUS
        <2>2. Sized(u) /\ Sized(v) /\ Sized(w)
            BY <1>2, <2>1
        <2>3. /\ Len(u) \in Nat /\ Len(v) \in Nat /\ Len(w) \in Nat
              /\ Chars(u) \in Nat /\ Chars(v) \in Nat /\ Chars(w) \in Nat
              /\ Tokens(u) \in Nat /\ Tokens(v) \in Nat /\ Tokens(w) \in Nat
            BY <2>2, Measured
        <2> QED BY <1>4, <2>1, <2>3 DEF Below
    <1>5. 0 \in Up
        <2>1. 0 \in 0 .. n /\ \A i \in 0 .. 0 : i = 0
            BY <1>1
        <2> QED BY <1>2, <2>1
    <1>6. ASSUME NEW k \in Up PROVE k + 1 \in Up
        <2>1. CASE k + 1 > n
            BY <2>1
        <2>2. CASE k + 1 <= n
            <3>1. k + 1 \in 1 .. n /\ k \in 0 .. n /\ k + 1 \in 0 .. n /\ (k + 1) - 1 = k
                BY <1>1, <2>2
            <3>2. Below(f[k], f[k + 1])
                BY <1>3, <3>1
            <3>3. \A i \in 0 .. k : i \in 0 .. n /\ Below(f[i], f[k])
                BY <1>1, <2>2
            <3>4. \A i \in 0 .. k : Below(f[i], f[k + 1])
                BY <1>4, <3>1, <3>2, <3>3
            <3>5. Below(f[k + 1], f[k + 1])
                BY <1>2, <3>1
            <3>6. \A i \in 0 .. k + 1 : i \in 0 .. k \/ i = k + 1
                OBVIOUS
            <3> QED BY <3>4, <3>5, <3>6
        <2> QED BY <1>1, <2>1, <2>2
    <1>7. Up = Nat
        <2>1. Up \in SUBSET Nat
            OBVIOUS
        <2> HIDE DEF Up
        <2> QED BY <1>5, <1>6, <2>1, Induction
    <1> QED BY <1>1, <1>7

LEMMA ContainsId ==
    ASSUME NEW s, s \in Seq(ToSet(s)), NEW k
    PROVE  Contains(IdsOf(s), k) <=> k \in Ids(s)
    <1>1. Table(s, {}, {})
        BY DEF Table
    <1>2. Table(IdsOf(s), {}, {}) /\ ToSet(IdsOf(s)) = Ids(s)
        BY <1>1, IdRows
    <1>3. PICK t : t = IdsOf(s)
        OBVIOUS
    <1>4. DOMAIN t = 1 .. Len(t)
        BY <1>2, <1>3 DEF Table
    <1> QED BY <1>2, <1>3, <1>4 DEF Contains, ToSet

\* In the end an item is there or has no room.
LEMMA FillsAll ==
    ASSUME NEW S, Sizes(S), NEW f, NEW s, NEW heads, Fills(f, s, S, heads), NEW i \in 1 .. Len(s)
    PROVE  s[i].id \in Ids(f[Len(s)]) \/ ~Fits(s[i], f[Len(s)])
    <1> DEFINE n == Len(s)
    <1>1. /\ n \in Nat /\ \A k \in 0 .. n : f[k] \in Roomy(S)
          /\ s[i] \in S /\ f[i] = AddNew(f[i - 1], s[i])
        BY DEF Fills
    <1>2. i - 1 \in 0 .. n /\ i \in 0 .. n /\ n \in 0 .. n
        BY <1>1
    <1>3. PICK u, v, w, x : u = f[i - 1] /\ v = f[i] /\ w = f[n] /\ x = s[i]
        OBVIOUS
    <1>4. u \in Seq(S) /\ v \in Seq(S) /\ w \in Seq(S)
        BY <1>1, <1>2, <1>3 DEF Roomy
    <1>5. Sized(u) /\ Sized(w) /\ x.chars \in Nat /\ x.tokens \in Nat
        BY <1>1, <1>3, <1>4, SizedOf DEF Sizes
    <1>6. Below(u, w) /\ Below(v, w)
        BY <1>2, <1>3, FillsUp
    <1>7. CASE Contains(IdsOf(u), x.id)
        <2>1. x.id \in Ids(u)
            BY <1>5, <1>7, ContainsId DEF Sized
        <2> QED BY <1>3, <1>6, <2>1 DEF Below
    <1>8. CASE ~Contains(IdsOf(u), x.id) /\ Fits(x, u)
        <2>1. v = Append(u, x)
            BY <1>1, <1>3, <1>8 DEF AddNew, KeepIfFits
        <2>2. x.id \in Ids(v)
            BY <1>5, <2>1, Growing
        <2> QED BY <1>3, <1>6, <2>2 DEF Below
    <1>9. CASE ~Fits(x, u)
        BY <1>3, <1>5, <1>6, <1>9, StillTooMuch
    <1> QED BY <1>7, <1>8, <1>9

\* What PromptIsFull says, of any items.
Full(items, kept, dropped) ==
    /\ TooMuch(kept) => \A i \in DOMAIN items : TooMuch(<<items[i]>>)
    /\ Len(kept) <= MaxItems
    /\ items # <<>> => kept # <<>>
    /\ \A i \in DOMAIN dropped : TooMuch(Append(kept, dropped[i]))

LEMMA TrimFills ==
    ASSUME NEW items, Items(items)
    PROVE  LET kept == Trim(items)
           IN  /\ Full(items, kept, Where(items, LAMBDA x : ~Contains(IdsOf(kept), x.id)))
               /\ kept \in Seq(ToSet(items))
    <1> DEFINE S == ToSet(items)
               s == ByWorth(items)
               heads == Heads(CategoryHeads(s))
               kept == Trim(items)
               I == {i \in DOMAIN items : ~Contains(IdsOf(kept), items[i].id)}
               dropped == At(items, I)
    <1>1. Items(s) /\ ToSet(s) = S
        BY SortedItems
    <1>2. Sizes(S)
        BY DEF Items, Table, Texts, Sizes
    <1>3. /\ s \in Seq(S) /\ Len(s) \in Nat /\ DOMAIN s = 1 .. Len(s)
          /\ items \in Seq(S) /\ Len(items) \in Nat /\ DOMAIN items = 1 .. Len(items)
        BY <1>1 DEF Items, Table
    <1> HIDE DEF S, s
    <1>4. heads \in Roomy(S)
        <2>1. PICK c : c = CategoryHeads(s)
            OBVIOUS
        <2>2. c \in Seq(S)
            BY <1>3, <2>1, HeadsRun
        <2>3. Heads(c) \in Roomy(S)
            BY <1>2, <2>2, FirstRun
        <2> QED BY <2>1, <2>3
    <1>5. kept = IF Filled(heads, s) = <<>> THEN Take(s, 1) ELSE Filled(heads, s)
        BY DEF Trim, Filled, Heads, ByWorth, s
    <1> HIDE DEF heads, kept
    <1>6. PICK f : Fills(f, s, S, heads) /\ Filled(heads, s) = f[Len(s)]
        BY <1>2, <1>3, <1>4, LastRun
    <1>7. PICK k : k = f[Len(s)]
        OBVIOUS
    <1>8. k \in Roomy(S)
        BY <1>3, <1>6, <1>7 DEF Fills
    <1>9. k \in Seq(S) /\ ~TooMuch(k) /\ Sized(k)
        BY <1>2, <1>8, SizedOf DEF Roomy
    <1>10. ASSUME NEW x \in S PROVE x.id \in Ids(k) \/ ~Fits(x, k)
        <2>1. PICK i \in 1 .. Len(s) : x = s[i]
            BY <1>1, <1>3 DEF ToSet
        <2> QED BY <1>2, <1>6, <1>7, <2>1, FillsAll
    <1>11. \A i \in DOMAIN items : items[i] \in S
        BY DEF ToSet, S
    <1>12. ASSUME kept \in Seq(S), NEW i \in DOMAIN dropped
           PROVE  dropped[i] \in S /\ dropped[i].id \notin Ids(kept)
        <2>1. PICK J : J = I
            OBVIOUS
        <2>2. ToSet(At(items, J)) = {items[j] : j \in J \cap DOMAIN items}
            BY AtTable DEF Items
        <2>3. dropped[i] \in ToSet(dropped)
            BY DEF ToSet
        <2>4. PICK j \in I : dropped[i] = items[j]
            BY <2>1, <2>2, <2>3
        <2>5. kept \in Seq(ToSet(kept))
            BY <1>12, OwnElements
        <2>6. Contains(IdsOf(kept), items[j].id) <=> items[j].id \in Ids(kept)
            BY <2>5, ContainsId
        <2> QED BY <1>11, <2>4, <2>6
    <1>13. MaxItems \in Nat \ {0}
        BY BuilderAssumption DEF AssemblyAssumption
    <1>14. ASSUME NEW v, Sized(v), NEW x \in S, ~Fits(x, v) PROVE TooMuch(Append(v, x))
        BY <1>2, <1>14, FitsWhenRoom DEF Sizes
    <1>15. kept \in Seq(S)
        <2>1. Take(s, 1) \in Seq(S)
            BY <1>3, TakeElements
        <2> QED BY <1>5, <1>6, <1>7, <1>9, <2>1
    <1> SUFFICES Full(items, kept, dropped)
        BY <1>15 DEF S, kept, dropped, I, Where
    <1> HIDE DEF I, dropped
    <1>16. CASE k # <<>>
        <2>1. kept = k
            BY <1>5, <1>6, <1>7, <1>16
        <2>2. Len(kept) <= MaxItems
            <3>1. Len(k) \in Nat
                BY <1>9, Measured
            <3> QED BY <1>9, <1>13, <2>1, <3>1, TooMuchSums
        <2>3. \A i \in DOMAIN dropped : TooMuch(Append(kept, dropped[i]))
            <3> TAKE i \in DOMAIN dropped
            <3>1. dropped[i] \in S /\ dropped[i].id \notin Ids(k)
                BY <1>9, <1>12, <2>1
            <3>2. ~Fits(dropped[i], k)
                BY <1>10, <3>1
            <3> QED BY <1>9, <1>14, <2>1, <3>1, <3>2
        <2> QED BY <1>9, <1>16, <2>1, <2>2, <2>3 DEF Full
    <1>17. CASE k = <<>>
        <2>1. kept = Take(s, 1)
            BY <1>5, <1>6, <1>7, <1>17
        <2>2. ASSUME NEW x \in S PROVE ~Fits(x, k) /\ TooMuch(<<x>>)
            <3>1. Ids(k) = {}
                BY <1>17 DEF Ids, ToSet
            <3>2. ~Fits(x, k)
                BY <1>10, <3>1
            <3>3. TooMuch(Append(k, x))
                BY <1>9, <1>14, <3>2
            <3>4. Append(k, x) = <<x>>
                BY <1>17
            <3> QED BY <3>2, <3>3, <3>4
        <2>3. CASE Len(s) = 0
            <3>1. kept = <<>> /\ S = {}
                <4>1. Take(s, 1) = <<>>
                    BY <1>3, <2>3 DEF Take
                <4>2. S = {}
                    BY <1>1, <1>3, <2>3 DEF ToSet
                <4> QED BY <2>1, <4>1, <4>2
            <3>2. DOMAIN dropped = {} /\ items = <<>>
                <4>1. kept \in Seq(S)
                    BY <3>1
                <4>2. DOMAIN dropped = {}
                    BY <1>12, <3>1, <4>1
                <4>3. items = <<>>
                    BY <1>3, <1>11, <3>1
                <4> QED BY <4>2, <4>3
            <3>3. ~TooMuch(kept) /\ Len(kept) <= MaxItems
                BY <1>13, <3>1, EmptyFits
            <3> QED BY <3>2, <3>3 DEF Full
        <2>4. CASE Len(s) # 0
            <3>1. PICK y : y = s[1]
                OBVIOUS
            <3>2. y \in S /\ kept = <<y>> /\ kept = Append(k, y) /\ kept \in Seq(S) /\ Len(kept) = 1
                <4>1. y \in S
                    BY <1>3, <2>4, <3>1
                <4>2. Take(s, 1) = SubSeq(s, 1, 1)
                    BY <1>3, <2>4 DEF Take
                <4>3. SubSeq(s, 1, 1) = [i \in 1 .. 1 |-> s[i]]
                    BY <1>3, <2>4
                <4>4. [i \in 1 .. 1 |-> s[i]] = <<y>>
                    BY <3>1
                <4>5. kept = <<y>>
                    BY <2>1, <4>2, <4>3, <4>4
                <4>6. <<y>> = Append(k, y) /\ <<y>> \in Seq(S) /\ Len(<<y>>) = 1
                    BY <1>17, <4>1
                <4> QED BY <4>1, <4>5, <4>6
            <3>3. Below(k, kept)
                BY <1>2, <1>9, <3>2, Growing DEF Sizes
            <3>4. Sized(kept)
                BY <1>2, <3>2, SizedOf
            <3>5. \A i \in DOMAIN dropped : TooMuch(Append(kept, dropped[i]))
                <4> TAKE i \in DOMAIN dropped
                <4>1. PICK x : x = dropped[i]
                    OBVIOUS
                <4>2. x \in S
                    BY <1>12, <3>2, <4>1
                <4>3. x.chars \in Nat /\ x.tokens \in Nat /\ ~Fits(x, k)
                    BY <1>2, <2>2, <4>2 DEF Sizes
                <4>4. ~Fits(x, kept)
                    BY <1>9, <3>3, <3>4, <4>3, StillTooMuch
                <4> QED BY <1>14, <3>4, <4>1, <4>2, <4>4
            <3>6. \A i \in DOMAIN items : TooMuch(<<items[i]>>)
                BY <1>11, <2>2
            <3>7. Len(kept) <= MaxItems /\ kept # <<>>
                BY <1>13, <3>2
            <3> QED BY <3>5, <3>6, <3>7 DEF Full
        <2> QED BY <2>3, <2>4
    <1> QED BY <1>16, <1>17

-----------------------------------------------------------------------------
(* The structural walk *)

Definitions(ss) == /\ Table(ss, {"name", "callees"}, Texts)
                   /\ \A d \in ToSet(ss) : d.callees \in Seq(ToSet(d.callees))

LEMMA ParsedRows ==
    ASSUME NEW w, IsWorld(w), NEW files, files \in Seq(ToSet(files))
    PROVE  Definitions(Parsed(w.symbols, files)) /\ ToSet(Parsed(w.symbols, files)) \subseteq ToSet(w.symbols)
    <1> DEFINE I(f) == {i \in DOMAIN w.symbols : w.symbols[i].file = f}
               ss == [k \in DOMAIN files |-> At(w.symbols, I(files[k]))]
    <1>1. Parsed(w.symbols, files) = FlattenSeq(ss)
        BY DEF Parsed, Mapped, Where
    <1>2. Table(w.symbols, {"name", "callees"}, Texts)
        BY DEF IsWorld
    <1> HIDE DEF I
    <1>3. \A k \in DOMAIN files : Table(ss[k], {"name", "callees"}, Texts)
                                  /\ ToSet(ss[k]) \subseteq ToSet(w.symbols)
        <2> TAKE k \in DOMAIN files
        <2>1. PICK J : J = I(files[k])
            OBVIOUS
        <2>2. Table(At(w.symbols, J), {"name", "callees"}, Texts)
              /\ ToSet(At(w.symbols, J)) = {w.symbols[i] : i \in J \cap DOMAIN w.symbols}
            BY <1>2, AtTable
        <2>3. ToSet(At(w.symbols, J)) \subseteq ToSet(w.symbols)
            BY <2>2 DEF ToSet
        <2> QED BY <2>1, <2>2, <2>3
    <1>4. DOMAIN ss = DOMAIN files /\ ss = [k \in DOMAIN ss |-> ss[k]]
        OBVIOUS
    <1> HIDE DEF ss
    <1>5. ss \in Seq(ToSet(ss))
        BY <1>4, Mapping
    <1>6. /\ Table(FlattenSeq(ss), {"name", "callees"}, Texts)
          /\ ToSet(FlattenSeq(ss)) = UNION {ToSet(ss[k]) : k \in DOMAIN ss}
        BY <1>3, <1>4, <1>5, FlatTable
    <1>7. ToSet(FlattenSeq(ss)) \subseteq ToSet(w.symbols)
        BY <1>3, <1>4, <1>6
    <1> QED BY <1>1, <1>6, <1>7 DEF IsWorld, Definitions

\* What the walk may have come to.
Walks(ss) ==
    LET names == Defined(ss)
    IN  {w \in [queue : Seq(names), depth : UNION {[D -> Nat] : D \in SUBSET names},
                visited : SUBSET names, found : Seq(ToSet(ss)), used : Int, full : BOOLEAN] :
            ToSet(w.queue) \subseteq DOMAIN w.depth}

LEMMA DefinitionFound ==
    ASSUME NEW ss, Definitions(ss), NEW name \in Defined(ss)
    PROVE  Definition(ss, name) \in ToSet(ss)
    <1> DEFINE I == {i \in 1 .. Len(ss) : ss[i].name = name}
    <1>1. DOMAIN ss = 1 .. Len(ss) /\ Len(ss) \in Nat
        BY DEF Definitions, Table
    <1>2. I \in SUBSET (1 .. Len(ss)) /\ I # {}
        BY <1>1 DEF Defined
    <1>3. Definition(ss, name) = ss[Max(I)]
        BY <1>2 DEF Definition, SelectLastInSeq
    <1> HIDE DEF I
    <1>4. Max(I) \in I
        BY <1>1, <1>2, Greatest
    <1> QED BY <1>1, <1>2, <1>3, <1>4 DEF ToSet

LEMMA NamesRows ==
    ASSUME NEW ss, Definitions(ss) PROVE Names(ss) \in Seq(Defined(ss))
    <1> DEFINE firsts == {i \in DOMAIN ss : \A j \in 1 .. i - 1 : ss[j].name # ss[i].name}
               rows == At(ss, firsts)
               names == [i \in DOMAIN rows |-> rows[i].name]
    <1>1. Names(ss) = names
        BY DEF Names, Mapped
    <1> HIDE DEF firsts
    <1>2. Table(rows, {"name", "callees"}, Texts) /\ ToSet(rows) = {ss[i] : i \in firsts \cap DOMAIN ss}
        BY AtTable DEF Definitions
    <1> HIDE DEF rows
    <1>3. DOMAIN names = DOMAIN rows /\ names = [i \in DOMAIN names |-> names[i]]
        OBVIOUS
    <1>4. ToSet(names) \in SUBSET Defined(ss)
        BY <1>2 DEF ToSet, Defined
    <1> HIDE DEF names
    <1>5. names \in Seq(ToSet(names))
        BY <1>2, <1>3, Mapping DEF Table
    <1>6. names \in Seq(Defined(ss))
        <2>1. PICK X : X = Defined(ss)
            OBVIOUS
        <2>2. names \in [1 .. Len(names) -> ToSet(names)] /\ Len(names) \in Nat
            BY <1>5, LenProperties
        <2>3. names \in [1 .. Len(names) -> X]
            BY <1>4, <2>1, <2>2
        <2>4. names \in Seq(X)
            BY <2>2, <2>3, IsASeq
        <2> QED BY <2>1, <2>4
    <1> QED BY <1>1, <1>6

LEMMA WalkStarts ==
    ASSUME NEW ss, Definitions(ss)
    PROVE  /\ Anchors(ss) \in Seq(Defined(ss))
           /\ [NoWalk EXCEPT !.queue = Anchors(ss), !.depth = [n \in ToSet(Anchors(ss)) |-> 0]]
                 \in Walks(ss)
    <1>1. Names(ss) \in Seq(Defined(ss))
        BY NamesRows
    <1>2. MaxAnchors \in Nat
        BY BuilderAssumption DEF RetrievalAssumption
    <1>3. PICK queue : queue = Anchors(ss)
        OBVIOUS
    <1>4. queue \in Seq(Defined(ss))
        BY <1>1, <1>2, <1>3, TakeElements DEF Anchors
    <1>5. ToSet(queue) \subseteq Defined(ss)
        BY <1>4, OwnElements
    <1>6. PICK depth : depth = [n \in ToSet(queue) |-> 0]
        OBVIOUS
    <1>7. depth \in [ToSet(queue) -> Nat] /\ DOMAIN depth = ToSet(queue)
        BY <1>6
    <1>8. depth \in UNION {[D -> Nat] : D \in SUBSET Defined(ss)}
        BY <1>5, <1>7
    <1>9. PICK w : w = [NoWalk EXCEPT !.queue = queue, !.depth = depth]
        OBVIOUS
    <1>10. w = [queue |-> queue, depth |-> depth, visited |-> {}, found |-> <<>>, used |-> 0, full |-> FALSE]
        BY <1>9 DEF NoWalk
    <1>11. w \in Walks(ss)
        BY <1>4, <1>7, <1>8, <1>10 DEF Walks
    <1> QED BY <1>3, <1>4, <1>6, <1>9, <1>11

LEMMA WalkGoesOn ==
    ASSUME NEW ss, Definitions(ss), NEW w \in Walks(ss)
    PROVE  Visit(ss, w) \in Walks(ss)
    <1>0. PICK names : names = Defined(ss)
        OBVIOUS
    <1>1. /\ w = [queue |-> w.queue, depth |-> w.depth, visited |-> w.visited, found |-> w.found,
                  used |-> w.used, full |-> w.full]
          /\ w.queue \in Seq(names) /\ w.visited \in SUBSET names
          /\ w.found \in Seq(ToSet(ss)) /\ w.used \in Int /\ w.full \in BOOLEAN
          /\ ToSet(w.queue) \subseteq DOMAIN w.depth
          /\ w.depth \in UNION {[D -> Nat] : D \in SUBSET names}
        BY <1>0 DEF Walks
    <1>2. CASE w.full \/ w.queue = <<>>
        BY <1>2 DEF Visit
    <1>3. CASE ~(w.full \/ w.queue = <<>>)
        <2>1. PICK name, rest : name = Head(w.queue) /\ rest = Tail(w.queue)
            OBVIOUS
        <2>2. /\ name \in names /\ rest \in Seq(names)
              /\ name \in ToSet(w.queue) /\ ToSet(rest) \subseteq ToSet(w.queue)
            <3>1. /\ Len(w.queue) \in Nat /\ Len(w.queue) # 0 /\ DOMAIN w.queue = 1 .. Len(w.queue)
                  /\ name = w.queue[1] /\ rest \in Seq(names) /\ Len(rest) = Len(w.queue) - 1
                  /\ \A i \in 1 .. Len(rest) : rest[i] = w.queue[i + 1]
                BY <1>1, <1>3, <2>1
            <3>2. 1 \in DOMAIN w.queue /\ \A i \in 1 .. Len(rest) : i + 1 \in DOMAIN w.queue
                BY <3>1
            <3>3. DOMAIN rest = 1 .. Len(rest)
                BY <3>1
            <3> QED BY <1>1, <3>1, <3>2, <3>3 DEF ToSet
        <2>3. PICK D \in SUBSET names : w.depth \in [D -> Nat]
            BY <1>1
        <2>4. w.depth[name] \in Nat /\ DOMAIN w.depth = D
            BY <1>1, <2>2, <2>3
        <2>5. PICK sym : sym = Definition(ss, name)
            OBVIOUS
        <2>6. sym \in ToSet(ss) /\ sym.tokens \in Int /\ sym.callees \in Seq(ToSet(sym.callees))
            <3>1. sym \in ToSet(ss)
                BY <1>0, <2>2, <2>5, DefinitionFound
            <3> QED BY <3>1 DEF Definitions, Table, Texts
        <2>7. PICK seen : seen = w.visited \cup {name}
            OBVIOUS
        <2>8. PICK I : I = {i \in DOMAIN sym.callees : sym.callees[i] \notin seen
                                                       /\ sym.callees[i] \in names}
            OBVIOUS
        <2>9. PICK called : called = IF w.depth[name] >= HopDepth THEN <<>> ELSE At(sym.callees, I)
            OBVIOUS
        <2>10. called \in Seq(names) /\ ToSet(called) \subseteq names
            <3>1. CASE w.depth[name] >= HopDepth
                <4>1. called = <<>>
                    BY <2>9, <3>1
                <4> QED BY <4>1 DEF ToSet
            <3>2. CASE ~(w.depth[name] >= HopDepth)
                <4>1. called = At(sym.callees, I)
                    BY <2>9, <3>2
                <4>2. called \in Seq(ToSet(sym.callees))
                      /\ ToSet(called) = {sym.callees[i] : i \in I \cap DOMAIN sym.callees}
                    BY <2>6, <4>1, AtElements
                <4>3. ToSet(called) \in SUBSET names
                    BY <2>8, <4>2
                <4>4. called \in Seq(ToSet(called))
                    BY <4>2, OwnElements
                <4>5. called \in [1 .. Len(called) -> ToSet(called)] /\ Len(called) \in Nat
                    BY <4>4, LenProperties
                <4>6. called \in [1 .. Len(called) -> names]
                    BY <4>3, <4>5
                <4>7. called \in Seq(names)
                    BY <4>5, <4>6, IsASeq
                <4> QED BY <4>3, <4>7
            <3> QED BY <3>1, <3>2
        <2>11. PICK reached : reached = [c \in ToSet(called) |-> w.depth[name] + 1]
            OBVIOUS
        <2>12. Visit(ss, w) =
                  IF name \in w.visited THEN [w EXCEPT !.queue = rest]
                  ELSE IF w.used + sym.tokens > WalkBudget
                       THEN [w EXCEPT !.queue = rest, !.visited = seen, !.full = TRUE]
                  ELSE [w EXCEPT !.queue = rest \o called, !.visited = seen,
                                 !.found = Append(@, sym), !.used = @ + sym.tokens,
                                 !.depth = Over(@, reached)]
            BY <1>0, <1>3, <2>1, <2>5, <2>7, <2>8, <2>9, <2>11 DEF Visit, Where
        <2>13. CASE name \in w.visited
            <3>1. Visit(ss, w) = [queue |-> rest, depth |-> w.depth, visited |-> w.visited,
                                  found |-> w.found, used |-> w.used, full |-> w.full]
                BY <1>1, <2>12, <2>13
            <3> QED BY <1>0, <1>1, <2>2, <3>1 DEF Walks
        <2>14. CASE name \notin w.visited /\ w.used + sym.tokens > WalkBudget
            <3>1. Visit(ss, w) = [queue |-> rest, depth |-> w.depth, visited |-> seen,
                                  found |-> w.found, used |-> w.used, full |-> TRUE]
                BY <1>1, <2>12, <2>14
            <3> QED BY <1>0, <1>1, <2>2, <2>7, <3>1 DEF Walks
        <2>15. CASE name \notin w.visited /\ ~(w.used + sym.tokens > WalkBudget)
            <3>1. PICK depth, found, queue :
                     /\ depth = Over(w.depth, reached)
                     /\ found = Append(w.found, sym)
                     /\ queue = rest \o called
                OBVIOUS
            <3>2. Visit(ss, w) = [queue |-> queue, depth |-> depth, visited |-> seen,
                                  found |-> found, used |-> w.used + sym.tokens, full |-> w.full]
                BY <1>1, <2>12, <2>15, <3>1
            <3>3. queue \in Seq(names) /\ ToSet(queue) = ToSet(rest) \cup ToSet(called)
                BY <2>2, <2>10, <3>1, ConcatElements
            <3>4. found \in Seq(ToSet(ss))
                BY <1>1, <2>6, <3>1, AppendElements
            <3>5. DOMAIN depth = D \cup ToSet(called)
                BY <2>4, <2>11, <3>1 DEF Over
            <3>6. depth \in [D \cup ToSet(called) -> Nat]
                <4>1. \A c \in D \cup ToSet(called) : depth[c] \in Nat
                    BY <2>3, <2>4, <2>11, <3>1 DEF Over
                <4>2. depth = [c \in DOMAIN depth |-> depth[c]]
                    BY <3>1 DEF Over
                <4> QED BY <3>5, <4>1, <4>2
            <3>7. depth \in UNION {[E -> Nat] : E \in SUBSET names}
                <4>1. D \cup ToSet(called) \in SUBSET names
                    BY <2>10
                <4> QED BY <3>6, <4>1
            <3>8. ToSet(queue) \subseteq DOMAIN depth
                BY <1>1, <2>2, <2>4, <3>3, <3>5
            <3> QED BY <1>0, <1>1, <2>2, <2>6, <2>7, <3>2, <3>3, <3>4, <3>7, <3>8 DEF Walks
        <2> QED BY <2>13, <2>14, <2>15
    <1> QED BY <1>2, <1>3

LEMMA SitesFinite ==
    ASSUME NEW ss, Definitions(ss) PROVE IsFiniteSet(CallSites(ss))
    <1> DEFINE sites == [i \in DOMAIN ss |-> {i} \X DOMAIN ss[i].callees]
               S == {{i} \X DOMAIN ss[i].callees : i \in DOMAIN ss}
    <1>1. DOMAIN ss = 1 .. Len(ss) /\ Len(ss) \in Nat
        BY DEF Definitions, Table
    <1>2. IsFiniteSet(DOMAIN ss)
        BY <1>1, FS_Interval
    <1>3. sites \in Surjection(DOMAIN ss, S)
        BY DEF Surjection
    <1>4. ASSUME NEW i \in DOMAIN ss PROVE IsFiniteSet({i} \X DOMAIN ss[i].callees)
        <2>1. PICK callees : callees = ss[i].callees
            OBVIOUS
        <2>2. callees \in Seq(ToSet(callees))
            BY <2>1 DEF Definitions, ToSet
        <2>3. DOMAIN callees = 1 .. Len(callees) /\ Len(callees) \in Nat
            BY <2>2
        <2>4. IsFiniteSet(DOMAIN callees)
            BY <2>3, FS_Interval
        <2>5. IsFiniteSet({i})
            BY FS_Singleton
        <2> QED BY <2>1, <2>4, <2>5, FS_Product
    <1>5. \A T \in S : IsFiniteSet(T)
        BY <1>4
    <1> HIDE DEF sites, S
    <1>6. IsFiniteSet(S)
        BY <1>2, <1>3, FS_Surjection
    <1>7. IsFiniteSet(UNION S)
        BY <1>5, <1>6, FS_UNION
    <1> QED BY <1>7 DEF CallSites, S

LEMMA WalkEnds ==
    ASSUME NEW ss, Definitions(ss) PROVE WalkSteps(ss) \in Nat
    <1>1. Cardinality(CallSites(ss)) \in Nat
        BY SitesFinite, FS_CardinalityType
    <1> QED BY <1>1, BuilderAssumption DEF WalkSteps, RetrievalAssumption

FirstVisit(ss) ==
    [NoWalk EXCEPT !.queue = Anchors(ss), !.depth = [k \in ToSet(Anchors(ss)) |-> 0]]

\* The walk after each visit.
Visiting(f, ss) ==
    /\ f \in [0 .. WalkSteps(ss) -> Walks(ss)] /\ f[0] = FirstVisit(ss)
    /\ \A i \in 1 .. WalkSteps(ss) : f[i] = Visit(ss, f[i - 1])

LEMMA WalkRun ==
    ASSUME NEW ss, Definitions(ss)
    PROVE  \E f : Visiting(f, ss) /\ RetrieveStructural(ss) = f[WalkSteps(ss)].found
    <1> DEFINE n == WalkSteps(ss)
               start == [NoWalk EXCEPT !.queue = Anchors(ss), !.depth = [k \in ToSet(Anchors(ss)) |-> 0]]
               next == [i \in 1 .. n |-> [w \in Walks(ss) |-> Visit(ss, w)]]
    <1>1. n \in Nat
        BY WalkEnds
    <1>2. start \in Walks(ss)
        BY WalkStarts
    <1>3. Stepping(next, n, Walks(ss))
        BY WalkGoesOn DEF Stepping
    <1> HIDE DEF n, start
    <1>4. PICK f \in [0 .. n -> Walks(ss)] :
             f[0] = start /\ \A i \in 1 .. n : f[i] = next[i][f[i - 1]]
        <2> HIDE DEF next
        <2>1. \E f : Runs(f, next, n, Walks(ss), start)
            BY <1>1, <1>2, <1>3, Recursion
        <2> QED BY <2>1 DEF Runs
    <1>5. \A i \in 1 .. n : f[i] = Visit(ss, f[i - 1])
        <2> TAKE i \in 1 .. n
        <2>1. i - 1 \in 0 .. n
            BY <1>1
        <2>2. f[i - 1] \in Walks(ss)
            BY <2>1
        <2>3. f[i] = next[i][f[i - 1]]
            BY <1>4
        <2>4. next[i] = [w \in Walks(ss) |-> Visit(ss, w)]
            OBVIOUS
        <2> HIDE DEF next
        <2> QED BY <2>2, <2>3, <2>4
    <1> DEFINE Rhs(g) == [i \in 0 .. n |-> IF i > 0 THEN Visit(ss, g[i - 1]) ELSE start]
               walk == CHOOSE g : g = Rhs(g)
    <1>6. f = Rhs(f)
        <2>1. \A i \in 0 .. n : i \in 1 .. n <=> i > 0
            BY <1>1
        <2>2. \A i \in 0 .. n : ~(i > 0) => i = 0
            BY <1>1
        <2>3. f = [i \in 0 .. n |-> f[i]]
            BY <1>4
        <2> HIDE DEF next
        <2> QED BY <1>4, <1>5, <2>1, <2>2, <2>3
    <1>7. walk = Rhs(walk)
        BY <1>6
    <1>8. RetrieveStructural(ss) = walk[n].found
        BY DEF RetrieveStructural, n, start
    <1> HIDE DEF walk, next
    <1>9. walk[0] = f[0] /\ \A i \in 1 .. n : walk[i - 1] = f[i - 1] => walk[i] = f[i]
        <2>1. walk[0] = start
            <3>1. 0 \in 0 .. n /\ ~(0 > 0)
                BY <1>1
            <3> QED BY <1>7, <3>1
        <2>2. ASSUME NEW i \in 1 .. n, walk[i - 1] = f[i - 1] PROVE walk[i] = f[i]
            <3>1. i \in 0 .. n /\ i > 0
                BY <1>1
            <3>2. walk[i] = Rhs(walk)[i]
                BY <1>7
            <3>3. Rhs(walk)[i] = Visit(ss, walk[i - 1])
                BY <3>1
            <3> QED BY <1>5, <2>2, <3>2, <3>3
        <2> QED BY <1>4, <2>1, <2>2
    <1>10. \A i \in 0 .. n : walk[i] = f[i]
        BY <1>1, <1>9, Unrolled
    <1>11. walk[n] = f[n]
        BY <1>1, <1>10
    <1>12. Visiting(f, ss)
        BY <1>4, <1>5 DEF Visiting, FirstVisit, n, start
    <1> QED BY <1>8, <1>11, <1>12 DEF n

\* The walk finds definitions of the request's files.
LEMMA WalkRows ==
    ASSUME NEW ss, Definitions(ss)
    PROVE  RetrieveStructural(ss) \in Seq(ToSet(ss))
    <1>1. PICK f : Visiting(f, ss) /\ RetrieveStructural(ss) = f[WalkSteps(ss)].found
        BY WalkRun
    <1>2. WalkSteps(ss) \in Nat
        BY WalkEnds
    <1>3. f[WalkSteps(ss)] \in Walks(ss)
        BY <1>1, <1>2 DEF Visiting
    <1> QED BY <1>1, <1>3 DEF Walks

-----------------------------------------------------------------------------
(* What the walk finds.  It is breadth first: the entries of its queue come *)
(* by their distance from the anchors, those visited are no farther.        *)

Calls(ss, b, c) == Contains(Definition(ss, b).callees, c)

\* What each number of calls leads to.
Near(ss, near) ==
    /\ near \in [0 .. HopDepth -> SUBSET Defined(ss)]
    /\ near[0] = ToSet(Anchors(ss))
    /\ \A k \in 1 .. HopDepth :
          near[k] = near[k - 1] \cup {c \in Defined(ss) : \E b \in near[k - 1] : Calls(ss, b, c)}

LEMMA HopsRun ==
    ASSUME NEW ss, Definitions(ss)
    PROVE  \E near : Near(ss, near) /\ WithinHops(ss, ToSet(Anchors(ss)), HopDepth) = near[HopDepth]
    <1> DEFINE h == HopDepth
               X == SUBSET Defined(ss)
               from == ToSet(Anchors(ss))
               More(B) == B \cup {c \in Defined(ss) : \E b \in B : Calls(ss, b, c)}
               next == [k \in 1 .. h |-> [B \in X |-> More(B)]]
               Rhs(g) == [k \in 0 .. h |-> IF k = 0 THEN from ELSE More(g[k - 1])]
               hops == CHOOSE g : g = Rhs(g)
    <1>1. h \in Nat
        BY BuilderAssumption DEF RetrievalAssumption
    <1>2. from \in X
        BY WalkStarts, OwnElements
    <1>3. Stepping(next, h, X)
        BY DEF Stepping
    <1>4. WithinHops(ss, from, h) = hops[h]
        BY DEF WithinHops, Calls
    <1> HIDE DEF h, from
    <1>5. PICK f : Runs(f, next, h, X, from)
        <2> HIDE DEF next, X
        <2> QED BY <1>1, <1>2, <1>3, Recursion
    <1>6. /\ f \in [0 .. h -> X] /\ f[0] = from
          /\ \A k \in 1 .. h : f[k] = More(f[k - 1])
        <2>1. /\ f \in [0 .. h -> X] /\ f[0] = from
              /\ \A k \in 1 .. h : f[k] = next[k][f[k - 1]]
            <3> HIDE DEF next, X
            <3> QED BY <1>5 DEF Runs
        <2>2. ASSUME NEW k \in 1 .. h PROVE next[k][f[k - 1]] = More(f[k - 1])
            <3>1. k - 1 \in 0 .. h
                BY <1>1
            <3>2. f[k - 1] \in X
                BY <2>1, <3>1
            <3> HIDE DEF More, X
            <3> QED BY <3>2
        <2> HIDE DEF next, More, X
        <2> QED BY <2>1, <2>2
    <1>7. f = Rhs(f)
        <2>1. \A k \in 0 .. h : k # 0 => k \in 1 .. h
            BY <1>1
        <2>2. f = [k \in 0 .. h |-> f[k]]
            BY <1>6
        <2> HIDE DEF More, X
        <2> QED BY <1>6, <2>1, <2>2
    <1>8. hops = Rhs(hops)
        BY <1>7
    <1> HIDE DEF hops
    <1>9. PICK g : g = hops
        OBVIOUS
    <1>10. g[0] = f[0] /\ \A k \in 1 .. h : g[k - 1] = f[k - 1] => g[k] = f[k]
        <2>1. g[0] = from
            <3>1. 0 \in 0 .. h
                BY <1>1
            <3> QED BY <1>8, <1>9, <3>1
        <2>2. ASSUME NEW k \in 1 .. h PROVE g[k] = More(g[k - 1])
            <3>1. k \in 0 .. h /\ k # 0
                BY <1>1
            <3> HIDE DEF More
            <3> QED BY <1>8, <1>9, <3>1
        <2> HIDE DEF More
        <2> QED BY <1>6, <2>1, <2>2
    <1>11. \A k \in 0 .. h : g[k] = f[k]
        BY <1>1, <1>10, Unrolled
    <1>12. Near(ss, f)
        BY <1>6 DEF Near, h, from
    <1> QED BY <1>1, <1>4, <1>9, <1>11, <1>12 DEF h, from

LEMMA NearGrows ==
    ASSUME NEW ss, NEW near, Near(ss, near)
    PROVE  HopDepth \in Nat /\ \A k \in 0 .. HopDepth : near[k] \subseteq near[HopDepth]
    <1> DEFINE h == HopDepth
               S == {j \in Nat : j <= h => near[h - j] \subseteq near[h]}
    <1>1. h \in Nat
        BY BuilderAssumption DEF RetrievalAssumption
    <1> HIDE DEF h
    <1>2. 0 \in S
        BY <1>1
    <1>3. ASSUME NEW j \in S PROVE j + 1 \in S
        <2>1. CASE j + 1 <= h
            <3>1. PICK k \in 1 .. h : k = h - j /\ k - 1 = h - (j + 1) /\ j <= h
                BY <1>1, <2>1
            <3>2. near[k - 1] \subseteq near[k]
                BY DEF Near, h
            <3> QED BY <3>1, <3>2
        <2> QED BY <2>1
    <1>4. S = Nat
        <2>1. S \in SUBSET Nat
            OBVIOUS
        <2> HIDE DEF S
        <2> QED BY <1>2, <1>3, <2>1, Induction
    <1>5. ASSUME NEW k \in 0 .. h PROVE near[k] \subseteq near[h]
        <2>1. PICK j \in Nat : j = h - k /\ j <= h /\ h - j = k
            BY <1>1
        <2> QED BY <1>4, <2>1
    <1> QED BY <1>1, <1>5 DEF h

\* What a visit does to the walk w: an entry that was visited is dropped, the
\* walk ends at a definition too large, or the definition is collected.
Skips(w, v) ==
    /\ Head(w.queue) \in w.visited
    /\ v.queue = Tail(w.queue) /\ v.depth = w.depth /\ v.visited = w.visited
    /\ v.found = w.found /\ v.used = w.used /\ v.full = w.full

Stops(ss, w, v) ==
    /\ Head(w.queue) \notin w.visited
    /\ w.used + Definition(ss, Head(w.queue)).tokens > WalkBudget
    /\ v.queue = Tail(w.queue) /\ v.depth = w.depth
    /\ v.visited = w.visited \cup {Head(w.queue)}
    /\ v.found = w.found /\ v.used = w.used /\ v.full = TRUE

\* The definitions that a call of name is followed to.
Followed(ss, w, name) ==
    {c \in Defined(ss) : w.depth[name] < HopDepth /\ Calls(ss, name, c)} \ (w.visited \cup {name})

Collects(ss, w, v, called) ==
    LET name == Head(w.queue)
        sym == Definition(ss, name)
    IN  /\ name \notin w.visited
        /\ v.used = w.used + sym.tokens /\ v.used <= WalkBudget
        /\ called \in Seq(Defined(ss)) /\ Len(called) <= Len(sym.callees)
        /\ ToSet(called) = Followed(ss, w, name)
        /\ v.queue = Tail(w.queue) \o called
        /\ v.depth = Over(w.depth, [c \in ToSet(called) |-> w.depth[name] + 1])
        /\ v.visited = w.visited \cup {name}
        /\ v.found = Append(w.found, sym) /\ v.full = w.full

LEMMA VisitCases ==
    ASSUME NEW ss, Definitions(ss), NEW w \in Walks(ss)
    PROVE  /\ w.full \/ w.queue = <<>> => Visit(ss, w) = w
           /\ ~(w.full \/ w.queue = <<>>) =>
                 \/ Skips(w, Visit(ss, w))
                 \/ Stops(ss, w, Visit(ss, w))
                 \/ \E called : Collects(ss, w, Visit(ss, w), called)
    <1>0. PICK names : names = Defined(ss)
        OBVIOUS
    <1>1. /\ w = [queue |-> w.queue, depth |-> w.depth, visited |-> w.visited, found |-> w.found,
                  used |-> w.used, full |-> w.full]
          /\ w.queue \in Seq(names) /\ w.used \in Int
          /\ ToSet(w.queue) \subseteq DOMAIN w.depth
          /\ w.depth \in UNION {[D -> Nat] : D \in SUBSET names}
        BY <1>0 DEF Walks
    <1>2. w.full \/ w.queue = <<>> => Visit(ss, w) = w
        BY DEF Visit
    <1>3. ASSUME ~(w.full \/ w.queue = <<>>)
          PROVE  \/ Skips(w, Visit(ss, w))
                 \/ Stops(ss, w, Visit(ss, w))
                 \/ \E called : Collects(ss, w, Visit(ss, w), called)
        <2>1. PICK name, rest, v : name = Head(w.queue) /\ rest = Tail(w.queue) /\ v = Visit(ss, w)
            OBVIOUS
        <2>2. name \in names
            BY <1>1, <1>3, <2>1
        <2>3. PICK sym : sym = Definition(ss, name)
            OBVIOUS
        <2>4. sym.tokens \in Int /\ sym.callees \in Seq(ToSet(sym.callees))
            <3>1. sym \in ToSet(ss)
                BY <1>0, <2>2, <2>3, DefinitionFound
            <3> QED BY <3>1 DEF Definitions, Table, Texts
        <2>5. PICK seen : seen = w.visited \cup {name}
            OBVIOUS
        <2>6. PICK I : I = {i \in DOMAIN sym.callees : sym.callees[i] \notin seen
                                                       /\ sym.callees[i] \in names}
            OBVIOUS
        <2>7. PICK called : called = IF w.depth[name] >= HopDepth THEN <<>> ELSE At(sym.callees, I)
            OBVIOUS
        <2>8. PICK reached : reached = [c \in ToSet(called) |-> w.depth[name] + 1]
            OBVIOUS
        <2>9. v = IF name \in w.visited THEN [w EXCEPT !.queue = rest]
                  ELSE IF w.used + sym.tokens > WalkBudget
                       THEN [w EXCEPT !.queue = rest, !.visited = seen, !.full = TRUE]
                  ELSE [w EXCEPT !.queue = rest \o called, !.visited = seen,
                                 !.found = Append(@, sym), !.used = @ + sym.tokens,
                                 !.depth = Over(@, reached)]
            BY <1>0, <1>3, <2>1, <2>3, <2>5, <2>6, <2>7, <2>8 DEF Visit, Where
        <2>10. CASE name \in w.visited
            <3>1. v = [queue |-> rest, depth |-> w.depth, visited |-> w.visited,
                       found |-> w.found, used |-> w.used, full |-> w.full]
                BY <1>1, <2>9, <2>10
            <3> QED BY <2>1, <2>10, <3>1 DEF Skips
        <2>11. CASE name \notin w.visited /\ w.used + sym.tokens > WalkBudget
            <3>1. v = [queue |-> rest, depth |-> w.depth, visited |-> seen,
                       found |-> w.found, used |-> w.used, full |-> TRUE]
                BY <1>1, <2>9, <2>11
            <3> QED BY <2>1, <2>3, <2>5, <2>11, <3>1 DEF Stops
        <2>12. CASE name \notin w.visited /\ ~(w.used + sym.tokens > WalkBudget)
            <3>1. PICK depth, found, queue :
                     /\ depth = Over(w.depth, reached)
                     /\ found = Append(w.found, sym)
                     /\ queue = rest \o called
                OBVIOUS
            <3>2. v = [queue |-> queue, depth |-> depth, visited |-> seen,
                       found |-> found, used |-> w.used + sym.tokens, full |-> w.full]
                BY <1>1, <2>9, <2>12, <3>1
            <3>3. w.depth[name] \in Nat /\ HopDepth \in Nat /\ WalkBudget \in Nat
                <4>1. name \in DOMAIN w.depth
                    BY <1>1, <1>3, <2>1 DEF ToSet
                <4>2. PICK D \in SUBSET names : w.depth \in [D -> Nat]
                    BY <1>1
                <4> QED BY <4>1, <4>2, BuilderAssumption DEF RetrievalAssumption
            <3>4. /\ called \in Seq(names) /\ Len(called) <= Len(sym.callees)
                  /\ ToSet(called) = Followed(ss, w, name)
                <4>1. Followed(ss, w, name) =
                         {c \in names : w.depth[name] < HopDepth /\ Contains(sym.callees, c)} \ seen
                    BY <1>0, <2>3, <2>5 DEF Followed, Calls
                <4>2. CASE w.depth[name] >= HopDepth
                    <5>1. called = <<>> /\ ~(w.depth[name] < HopDepth)
                        BY <2>7, <3>3, <4>2
                    <5>2. Followed(ss, w, name) = {} /\ ToSet(<<>>) = {}
                        BY <4>1, <5>1 DEF ToSet
                    <5>3. Len(<<>>) <= Len(sym.callees)
                        BY <2>4
                    <5> QED BY <5>1, <5>2, <5>3
                <4>3. CASE ~(w.depth[name] >= HopDepth)
                    <5>1. called = At(sym.callees, I) /\ w.depth[name] < HopDepth
                        BY <2>7, <3>3, <4>3
                    <5>2. called \in Seq(ToSet(sym.callees))
                          /\ ToSet(called) = {sym.callees[i] : i \in I \cap DOMAIN sym.callees}
                        BY <2>4, <5>1, AtElements
                    <5>3. Len(called) <= Len(sym.callees)
                        BY <2>4, <5>1, AtPlaces
                    <5>4. DOMAIN sym.callees = 1 .. Len(sym.callees)
                        BY <2>4
                    <5>5. ToSet(called) = {c \in names : Contains(sym.callees, c)} \ seen
                        BY <2>6, <5>2, <5>4 DEF Contains
                    <5>6. ToSet(called) = Followed(ss, w, name)
                        BY <4>1, <5>1, <5>5
                    <5>7. called \in Seq(names)
                        <6>1. called \in [1 .. Len(called) -> ToSet(called)] /\ Len(called) \in Nat
                            BY <5>2, OwnElements, LenProperties
                        <6>2. ToSet(called) \subseteq names
                            BY <5>5
                        <6>3. called \in [1 .. Len(called) -> names]
                            BY <6>1, <6>2
                        <6> QED BY <6>1, <6>3, IsASeq
                    <5> QED BY <5>3, <5>6, <5>7
                <4> QED BY <4>2, <4>3
            <3>5. w.used + sym.tokens <= WalkBudget
                BY <1>1, <2>4, <2>12, <3>3
            <3>6. /\ v.queue = queue /\ v.depth = depth /\ v.visited = seen /\ v.found = found
                  /\ v.used = w.used + sym.tokens /\ v.full = w.full
                BY <3>2
            <3>7. Collects(ss, w, v, called)
                BY <1>0, <2>1, <2>3, <2>5, <2>8, <2>12, <3>1, <3>4, <3>5, <3>6 DEF Collects
            <3> QED BY <2>1, <3>7
        <2> QED BY <2>1, <2>10, <2>11, <2>12
    <1> QED BY <1>2, <1>3

\* The depths are numbers of calls that lead there.
Reached(ss, near, w) ==
    /\ w.queue \in Seq(Defined(ss)) /\ w.visited \subseteq Defined(ss)
    /\ DOMAIN w.depth = w.visited \cup ToSet(w.queue)
    /\ \A a \in ToSet(Anchors(ss)) : a \in DOMAIN w.depth /\ w.depth[a] = 0
    /\ \A m \in DOMAIN w.depth : w.depth[m] \in 0 .. HopDepth /\ m \in near[w.depth[m]]

\* What waits is at least as deep as what was visited and at most one deeper
\* than anything; of two entries the later one is no less deep, unless it was
\* entered before; what a visited definition calls is known.
Waiting(w) == DOMAIN w.depth \ w.visited

Frontier(ss, w) ==
    /\ \A m \in DOMAIN w.depth, n \in Waiting(w) : w.depth[m] <= w.depth[n] + 1
    /\ \A m \in w.visited, n \in Waiting(w) : w.depth[m] <= w.depth[n]
    /\ \A i \in DOMAIN w.queue, n \in Waiting(w) :
          w.queue[i] \notin w.visited /\ (\A k \in 1 .. i : w.queue[k] # n) =>
             w.depth[w.queue[i]] <= w.depth[n]
    /\ \A b \in w.visited, c \in Defined(ss) :
          w.depth[b] < HopDepth /\ Calls(ss, b, c) =>
             c \in DOMAIN w.depth /\ w.depth[c] <= w.depth[b] + 1

\* The first entry and the others.
Split(queue, name, rest) ==
    /\ name = Head(queue) /\ rest = Tail(queue)
    /\ queue # <<>> /\ Len(queue) \in Nat /\ DOMAIN queue = 1 .. Len(queue)
    /\ name = queue[1] /\ name \in ToSet(queue) /\ ToSet(queue) = {name} \cup ToSet(rest)
    /\ Len(rest) = Len(queue) - 1 /\ DOMAIN rest = 1 .. Len(rest)
    /\ \A i \in 1 .. Len(rest) : rest[i] = queue[i + 1]

LEMMA Splitting ==
    ASSUME NEW X, NEW queue \in Seq(X), queue # <<>>
    PROVE  \E name \in X, rest \in Seq(X) : Split(queue, name, rest)
    <1>1. PICK name, rest : name = Head(queue) /\ rest = Tail(queue)
        OBVIOUS
    <1>2. /\ Len(queue) \in Nat /\ Len(queue) # 0 /\ DOMAIN queue = 1 .. Len(queue)
          /\ name = queue[1] /\ name \in X /\ rest \in Seq(X) /\ Len(rest) = Len(queue) - 1
          /\ DOMAIN rest = 1 .. Len(rest)
          /\ \A i \in 1 .. Len(rest) : rest[i] = queue[i + 1]
        BY <1>1
    <1>3. name \in ToSet(queue)
        BY <1>2 DEF ToSet
    <1>4. ToSet(rest) \subseteq ToSet(queue)
        <2>1. \A i \in 1 .. Len(rest) : i + 1 \in DOMAIN queue
            BY <1>2
        <2> QED BY <1>2, <2>1 DEF ToSet
    <1>5. ASSUME NEW x \in ToSet(queue) PROVE x = name \/ x \in ToSet(rest)
        <2>1. PICK i \in 1 .. Len(queue) : x = queue[i]
            BY <1>2 DEF ToSet
        <2>2. CASE i = 1
            BY <1>2, <2>1, <2>2
        <2>3. CASE i # 1
            <3>1. i - 1 \in 1 .. Len(rest) /\ (i - 1) + 1 = i
                BY <1>2, <2>1, <2>3
            <3>2. rest[i - 1] = x
                BY <1>2, <2>1, <3>1
            <3> QED BY <1>2, <3>1, <3>2 DEF ToSet
        <2> QED BY <2>2, <2>3
    <1> QED BY <1>1, <1>2, <1>3, <1>4, <1>5 DEF Split

LEMMA SkippedReached ==
    ASSUME NEW ss, Definitions(ss), NEW near, NEW w, Reached(ss, near, w), w.queue # <<>>,
           NEW v, Skips(w, v) \/ Stops(ss, w, v)
    PROVE  Reached(ss, near, v)
    <1>1. PICK name \in Defined(ss), rest \in Seq(Defined(ss)) : Split(w.queue, name, rest)
        BY Splitting DEF Reached
    <1>2. /\ v.queue = rest /\ v.depth = w.depth /\ v.visited \in {w.visited, w.visited \cup {name}}
          /\ name \in v.visited
        BY <1>1 DEF Skips, Stops, Split
    <1>3. v.visited \cup ToSet(rest) = w.visited \cup ToSet(w.queue)
        BY <1>1, <1>2 DEF Split
    <1> QED BY <1>1, <1>2, <1>3 DEF Reached

LEMMA SkippedFrontier ==
    ASSUME NEW ss, Definitions(ss), NEW near, NEW w, Reached(ss, near, w), w.queue # <<>>,
           Frontier(ss, w), NEW v, Skips(w, v)
    PROVE  Frontier(ss, v)
    <1>1. PICK name \in Defined(ss), rest \in Seq(Defined(ss)) : Split(w.queue, name, rest)
        BY Splitting DEF Reached
    <1>2. v.queue = rest /\ v.depth = w.depth /\ v.visited = w.visited /\ name \in w.visited
        BY <1>1 DEF Skips, Split
    <1>3. Waiting(v) = Waiting(w)
        BY <1>2 DEF Waiting
    <1>4. ASSUME NEW i \in DOMAIN rest, NEW n \in Waiting(w), rest[i] \notin w.visited,
                 \A k \in 1 .. i : rest[k] # n
          PROVE  w.depth[rest[i]] <= w.depth[n]
        <2>1. i + 1 \in DOMAIN w.queue /\ w.queue[i + 1] = rest[i]
            BY <1>1 DEF Split
        <2>2. \A k \in 1 .. i + 1 : w.queue[k] # n
            <3> TAKE k \in 1 .. i + 1
            <3>1. CASE k = 1
                BY <1>1, <1>2, <3>1 DEF Split, Waiting
            <3>2. CASE k # 1
                <4>1. k - 1 \in 1 .. i /\ k - 1 \in 1 .. Len(rest) /\ (k - 1) + 1 = k
                    BY <1>1, <3>2 DEF Split
                <4>2. rest[k - 1] = w.queue[k]
                    BY <1>1, <4>1 DEF Split
                <4> QED BY <1>4, <4>1, <4>2
            <3> QED BY <3>1, <3>2
        <2> QED BY <1>4, <2>1, <2>2 DEF Frontier
    <1> QED BY <1>2, <1>3, <1>4 DEF Frontier

\* The depths after a definition was collected.
Deepened(w, v, called) ==
    LET name == Head(w.queue)
    IN  /\ DOMAIN v.depth = DOMAIN w.depth \cup ToSet(called)
        /\ \A m \in DOMAIN w.depth : v.depth[m] = w.depth[m]
        /\ \A m \in ToSet(called) \ DOMAIN w.depth : v.depth[m] = w.depth[name] + 1

LEMMA CollectsDeepens ==
    ASSUME NEW ss, NEW w, NEW v, NEW called, Collects(ss, w, v, called)
    PROVE  Deepened(w, v, called)
    <1>1. PICK name, new, old : /\ name = Head(w.queue) /\ new = w.depth
                                /\ old = [c \in ToSet(called) |-> w.depth[name] + 1]
        OBVIOUS
    <1>2. v.depth = Over(new, old) /\ DOMAIN old = ToSet(called)
          /\ \A c \in ToSet(called) : old[c] = w.depth[name] + 1
        BY <1>1 DEF Collects
    <1>3. PICK depth : depth = Over(new, old)
        OBVIOUS
    <1>4. /\ DOMAIN depth = DOMAIN new \cup DOMAIN old
          /\ \A f \in DOMAIN new : depth[f] = new[f]
          /\ \A f \in DOMAIN old \ DOMAIN new : depth[f] = old[f]
        BY <1>3 DEF Over
    <1> QED BY <1>1, <1>2, <1>3, <1>4 DEF Deepened

LEMMA CollectedReached ==
    ASSUME NEW ss, Definitions(ss), NEW near, Near(ss, near), NEW w, Reached(ss, near, w),
           w.queue # <<>>, NEW v, NEW called, Collects(ss, w, v, called)
    PROVE  Reached(ss, near, v)
    <1>1. PICK name \in Defined(ss), rest \in Seq(Defined(ss)) : Split(w.queue, name, rest)
        BY Splitting DEF Reached
    <1>2. PICK d : d = w.depth[name]
        OBVIOUS
    <1>3. /\ v.queue = rest \o called /\ v.visited = w.visited \cup {name}
          /\ called \in Seq(Defined(ss)) /\ ToSet(called) = Followed(ss, w, name)
        BY <1>1 DEF Collects, Split
    <1>4. /\ DOMAIN v.depth = DOMAIN w.depth \cup ToSet(called)
          /\ \A m \in DOMAIN w.depth : v.depth[m] = w.depth[m]
          /\ \A m \in ToSet(called) \ DOMAIN w.depth : v.depth[m] = d + 1
        BY <1>1, <1>2, CollectsDeepens DEF Deepened, Split
    <1>5. v.queue \in Seq(Defined(ss)) /\ ToSet(v.queue) = ToSet(rest) \cup ToSet(called)
        BY <1>1, <1>3, ConcatElements
    <1>6. DOMAIN v.depth = v.visited \cup ToSet(v.queue)
        BY <1>1, <1>3, <1>4, <1>5 DEF Reached, Split
    <1>7. HopDepth \in Nat
        BY BuilderAssumption DEF RetrievalAssumption
    <1>8. d \in 0 .. HopDepth /\ name \in near[d]
        BY <1>1, <1>2 DEF Reached, Split
    <1>9. ASSUME NEW m \in ToSet(called) \ DOMAIN w.depth
          PROVE  v.depth[m] \in 0 .. HopDepth /\ m \in near[v.depth[m]]
        <2>1. v.depth[m] = d + 1 /\ d < HopDepth /\ m \in Defined(ss) /\ Calls(ss, name, m)
            BY <1>2, <1>3, <1>4 DEF Followed
        <2>2. d + 1 \in 1 .. HopDepth /\ (d + 1) - 1 = d
            BY <1>7, <1>8, <2>1
        <2>3. m \in near[d + 1]
            BY <1>8, <2>1, <2>2 DEF Near
        <2> QED BY <1>7, <2>1, <2>2, <2>3
    <1>10. \A m \in DOMAIN v.depth : v.depth[m] \in 0 .. HopDepth /\ m \in near[v.depth[m]]
        BY <1>4, <1>9 DEF Reached
    <1>11. \A a \in ToSet(Anchors(ss)) : a \in DOMAIN v.depth /\ v.depth[a] = 0
        BY <1>4 DEF Reached
    <1> QED BY <1>3, <1>5, <1>6, <1>10, <1>11 DEF Reached

LEMMA CollectedFrontier ==
    ASSUME NEW ss, Definitions(ss), NEW near, Near(ss, near), NEW w, Reached(ss, near, w),
           Frontier(ss, w), w.queue # <<>>, NEW v, NEW called, Collects(ss, w, v, called)
    PROVE  Frontier(ss, v)
    <1>1. PICK name \in Defined(ss), rest \in Seq(Defined(ss)) : Split(w.queue, name, rest)
        BY Splitting DEF Reached
    <1>2. PICK d, D, new : d = w.depth[name] /\ D = DOMAIN w.depth /\ new = ToSet(called) \ D
        OBVIOUS
    <1>3. /\ v.queue = rest \o called /\ v.visited = w.visited \cup {name} /\ name \notin w.visited
          /\ called \in Seq(Defined(ss)) /\ ToSet(called) = Followed(ss, w, name)
        BY <1>1 DEF Collects, Split
    <1>4. /\ DOMAIN v.depth = D \cup new
          /\ \A m \in D : v.depth[m] = w.depth[m]
          /\ \A m \in new : v.depth[m] = d + 1
        BY <1>1, <1>2, CollectsDeepens DEF Deepened, Split
    <1>5. HopDepth \in Nat
        BY BuilderAssumption DEF RetrievalAssumption
    <1>6. \A m \in D : w.depth[m] \in 0 .. HopDepth
        BY <1>2 DEF Reached
    <1>7. name \in D /\ name \in Waiting(w) /\ d \in 0 .. HopDepth
        BY <1>1, <1>2, <1>3, <1>6 DEF Reached, Split, Waiting
    <1>8. Waiting(v) = (Waiting(w) \ {name}) \cup new /\ Waiting(w) \subseteq D
        <2>1. new \cap v.visited = {}
            BY <1>2, <1>3 DEF Followed
        <2> QED BY <1>2, <1>3, <1>4, <2>1 DEF Waiting
    <1>9. \A m \in D : w.depth[m] <= d + 1
        BY <1>2, <1>7 DEF Frontier
    <1>10. \A m \in w.visited : m \in D /\ w.depth[m] <= d
        BY <1>2, <1>7 DEF Frontier, Reached
    <1>11. \A n \in Waiting(w) : d <= w.depth[n]
        <2> TAKE n \in Waiting(w)
        <2>1. CASE n = name
            BY <1>2, <1>7, <2>1
        <2>2. CASE n # name
            <3>1. 1 \in DOMAIN w.queue /\ w.queue[1] = name /\ \A k \in 1 .. 1 : w.queue[k] # n
                BY <1>1, <2>2 DEF Split
            <3> QED BY <1>2, <1>3, <3>1 DEF Frontier
        <2> QED BY <2>1, <2>2
    <1>12. ASSUME NEW m \in DOMAIN v.depth, NEW n \in Waiting(v) PROVE v.depth[m] <= v.depth[n] + 1
        <2>1. v.depth[m] <= d + 1 /\ v.depth[m] \in Int
            BY <1>4, <1>5, <1>6, <1>7, <1>9
        <2>2. CASE n \in Waiting(w)
            BY <1>4, <1>5, <1>6, <1>7, <1>8, <1>11, <2>1, <2>2
        <2>3. CASE n \in new
            BY <1>4, <1>7, <2>1, <2>3
        <2> QED BY <1>8, <2>2, <2>3
    <1>13. ASSUME NEW m \in v.visited, NEW n \in Waiting(v) PROVE v.depth[m] <= v.depth[n]
        <2>1. m \in D /\ v.depth[m] <= d /\ v.depth[m] \in Int
            BY <1>2, <1>3, <1>4, <1>6, <1>7, <1>10
        <2>2. CASE n \in Waiting(w)
            BY <1>4, <1>5, <1>6, <1>7, <1>8, <1>11, <2>1, <2>2
        <2>3. CASE n \in new
            BY <1>4, <1>7, <2>1, <2>3
        <2> QED BY <1>8, <2>2, <2>3
    <1>14. /\ Len(called) \in Nat /\ Len(rest) \in Nat /\ DOMAIN v.queue = 1 .. Len(rest) + Len(called)
           /\ \A i \in 1 .. Len(rest) : v.queue[i] = rest[i]
           /\ \A i \in 1 .. Len(called) : v.queue[Len(rest) + i] = called[i]
        BY <1>1, <1>3, ConcatProperties
    <1>15. ASSUME NEW i \in DOMAIN v.queue, NEW n \in Waiting(v), v.queue[i] \notin v.visited,
                  \A k \in 1 .. i : v.queue[k] # n
           PROVE  v.depth[v.queue[i]] <= v.depth[n]
        <2>1. PICK m : m = v.queue[i]
            OBVIOUS
        <2>2. m \in DOMAIN v.depth
            <3>1. Reached(ss, near, v)
                BY CollectedReached
            <3>2. m \in ToSet(v.queue)
                BY <2>1 DEF ToSet
            <3> QED BY <3>1, <3>2 DEF Reached
        <2>3. v.depth[m] <= d + 1 /\ v.depth[m] \in Int
            BY <1>4, <1>5, <1>6, <1>7, <1>9, <2>2
        <2>4. CASE n \in new
            BY <1>4, <1>7, <2>1, <2>3, <2>4
        <2>5. CASE n \in Waiting(w) /\ n # name
            <3>1. PICK j \in 1 .. Len(rest) : n = rest[j]
                <4>1. n \in ToSet(w.queue)
                    BY <2>5 DEF Waiting, Reached
                <4>2. n \in ToSet(rest)
                    BY <1>1, <2>5, <4>1 DEF Split
                <4> QED BY <1>1, <4>2 DEF ToSet, Split
            <3>2. v.queue[j] = n /\ i < j
                BY <1>14, <1>15, <3>1
            <3>3. i \in 1 .. Len(rest)
                BY <1>14, <3>1, <3>2
            <3>4. m = rest[i] /\ m = w.queue[i + 1] /\ i + 1 \in DOMAIN w.queue
                BY <1>1, <1>14, <2>1, <3>3 DEF Split
            <3>5. \A k \in 1 .. i + 1 : w.queue[k] # n
                <4> TAKE k \in 1 .. i + 1
                <4>1. CASE k = 1
                    BY <1>1, <2>5, <4>1 DEF Split
                <4>2. CASE k # 1
                    <5>1. k - 1 \in 1 .. i /\ k - 1 \in 1 .. Len(rest) /\ (k - 1) + 1 = k
                        BY <3>3, <4>2
                    <5>2. v.queue[k - 1] = w.queue[k]
                        BY <1>1, <1>14, <5>1 DEF Split
                    <5> QED BY <1>15, <5>1, <5>2
                <4> QED BY <4>1, <4>2
            <3>6. m \notin w.visited
                BY <1>3, <1>15, <2>1
            <3>7. w.depth[m] <= w.depth[n]
                BY <2>5, <3>4, <3>5, <3>6 DEF Frontier
            <3>8. m \in D /\ n \in D
                <4>1. m \in ToSet(w.queue)
                    BY <3>4 DEF ToSet
                <4> QED BY <1>2, <1>8, <2>5, <4>1 DEF Reached
            <3> QED BY <1>4, <2>1, <3>7, <3>8
        <2> QED BY <1>8, <2>4, <2>5
    <1>16. ASSUME NEW b \in v.visited, NEW c \in Defined(ss), v.depth[b] < HopDepth, Calls(ss, b, c)
           PROVE  c \in DOMAIN v.depth /\ v.depth[c] <= v.depth[b] + 1
        <2>1. CASE b \in w.visited
            <3>1. b \in D /\ v.depth[b] = w.depth[b]
                BY <1>4, <1>10, <2>1
            <3>2. c \in D /\ w.depth[c] <= w.depth[b] + 1
                BY <1>2, <1>16, <2>1, <3>1 DEF Frontier
            <3> QED BY <1>4, <3>1, <3>2
        <2>2. CASE b = name
            <3>1. v.depth[b] = d
                BY <1>2, <1>4, <1>7, <2>2
            <3>2. CASE c \in D
                BY <1>4, <1>9, <3>1, <3>2
            <3>3. CASE c \notin D
                <4>1. c \notin w.visited \cup {name}
                    BY <1>7, <1>10, <3>3
                <4>2. c \in Followed(ss, w, name)
                    BY <1>2, <1>16, <2>2, <3>1, <4>1 DEF Followed
                <4>3. c \in new
                    BY <1>2, <1>3, <3>3, <4>2
                <4> QED BY <1>4, <1>7, <3>1, <4>3
            <3> QED BY <3>2, <3>3
        <2> QED BY <1>3, <2>1, <2>2
    <1> QED BY <1>12, <1>13, <1>15, <1>16 DEF Frontier

NamesOf(found) == {x.name : x \in ToSet(found)}

\* What was collected: each definition once, as much as the budget takes; a
\* walk that ended early was at one that does not fit.
Collected(ss, w) ==
    /\ w.used = Tokens(w.found) /\ w.used <= WalkBudget
    /\ \A i, j \in DOMAIN w.found : w.found[i].name = w.found[j].name => i = j
    /\ ~w.full => w.visited = NamesOf(w.found)
    /\ w.full => \E n \in w.visited : /\ NamesOf(w.found) = w.visited \ {n}
                                      /\ w.used + Definition(ss, n).tokens > WalkBudget

LEMMA DefinitionName ==
    ASSUME NEW ss, Definitions(ss), NEW name \in Defined(ss)
    PROVE  Definition(ss, name).name = name
           /\ \E i \in DOMAIN ss : Definition(ss, name) = ss[i] /\ ss[i].name = name
    <1> DEFINE I == {i \in 1 .. Len(ss) : ss[i].name = name}
    <1>1. DOMAIN ss = 1 .. Len(ss) /\ Len(ss) \in Nat
        BY DEF Definitions, Table
    <1>2. I \in SUBSET (1 .. Len(ss)) /\ I # {}
        BY <1>1 DEF Defined
    <1>3. Definition(ss, name) = ss[Max(I)]
        BY <1>2 DEF Definition, SelectLastInSeq
    <1>4. \A i \in I : i \in DOMAIN ss /\ ss[i].name = name
        BY <1>1
    <1> HIDE DEF I
    <1>5. Max(I) \in I
        BY <1>1, <1>2, Greatest
    <1> QED BY <1>3, <1>4, <1>5

LEMMA FoundSized ==
    ASSUME NEW ss, Definitions(ss), NEW found \in Seq(ToSet(ss)) PROVE Sized(found)
    <1>1. Table(ss, {"name", "callees"}, Texts)
        BY DEF Definitions
    <1>2. Table(found, {"name", "callees"}, Texts)
        BY <1>1, SubTable
    <1> QED BY <1>2 DEF Table, Texts, Sized

LEMMA SkippedCollected ==
    ASSUME NEW ss, NEW w, Collected(ss, w), ~w.full, NEW v, Skips(w, v)
    PROVE  Collected(ss, v)
    BY DEF Collected, Skips

LEMMA StoppedCollected ==
    ASSUME NEW ss, NEW w, Collected(ss, w), ~w.full, NEW v, Stops(ss, w, v)
    PROVE  Collected(ss, v)
    <1>1. PICK n : n = Head(w.queue)
        OBVIOUS
    <1>2. n \in v.visited /\ v.visited \ {n} = NamesOf(w.found)
        BY <1>1 DEF Collected, Stops
    <1> QED BY <1>1, <1>2 DEF Collected, Stops

LEMMA CollectedMore ==
    ASSUME NEW ss, Definitions(ss), NEW w \in Walks(ss), w.queue # <<>>, Collected(ss, w), ~w.full,
           NEW v, NEW called, Collects(ss, w, v, called)
    PROVE  Collected(ss, v)
    <1>1. PICK name, sym, found : /\ name = Head(w.queue) /\ sym = Definition(ss, name)
                                  /\ found = w.found
        OBVIOUS
    <1>2. /\ v.used = w.used + sym.tokens /\ v.used <= WalkBudget /\ name \notin w.visited
          /\ v.visited = w.visited \cup {name} /\ v.found = Append(found, sym) /\ v.full = w.full
        BY <1>1 DEF Collects
    <1>3. name \in Defined(ss)
        BY <1>1 DEF Walks
    <1>4. sym.name = name /\ sym \in ToSet(ss)
        BY <1>1, <1>3, DefinitionName, DefinitionFound
    <1>5. found \in Seq(ToSet(ss))
        BY <1>1 DEF Walks
    <1>6. Sized(found)
        BY <1>5, FoundSized
    <1>7. sym.chars \in Nat /\ sym.tokens \in Nat
        BY <1>4 DEF Definitions, Table, Texts
    <1>8. Tokens(v.found) = Tokens(found) + sym.tokens
        BY <1>2, <1>6, <1>7, Appending
    <1>9. /\ Len(found) \in Nat /\ DOMAIN found = 1 .. Len(found)
          /\ DOMAIN v.found = DOMAIN found \cup {Len(found) + 1} /\ Len(found) + 1 \notin DOMAIN found
          /\ v.found[Len(found) + 1] = sym
          /\ \A i \in DOMAIN found : v.found[i] = found[i]
        <2>1. found \in Seq(ToSet(found))
            BY <1>6 DEF Sized
        <2> QED BY <1>2, <2>1, Appended
    <1>10. NamesOf(v.found) = NamesOf(found) \cup {name}
        <2>1. ToSet(v.found) = ToSet(found) \cup {sym}
            BY <1>9 DEF ToSet
        <2> QED BY <1>4, <2>1 DEF NamesOf
    <1>11. \A i \in DOMAIN found : found[i].name # name
        BY <1>1, <1>2 DEF Collected, NamesOf, ToSet
    <1>12. \A i, j \in DOMAIN v.found : v.found[i].name = v.found[j].name => i = j
        BY <1>1, <1>4, <1>9, <1>11 DEF Collected
    <1> QED BY <1>1, <1>2, <1>8, <1>10, <1>12 DEF Collected

\* The calls of definitions that were not visited yet; they and the entries
\* of the queue are at least as many as the visits to come.
SitesLeft(ss, w) == {c \in CallSites(ss) : ss[c[1]].name \notin w.visited}
VisitsLeft(ss, w) == Len(w.queue) + Cardinality(SitesLeft(ss, w))

LEMMA LeftTyped ==
    ASSUME NEW ss, Definitions(ss), NEW w, w.queue \in Seq(Defined(ss))
    PROVE  IsFiniteSet(SitesLeft(ss, w)) /\ Cardinality(SitesLeft(ss, w)) \in Nat
           /\ Len(w.queue) \in Nat
    <1>1. IsFiniteSet(CallSites(ss))
        BY SitesFinite
    <1>2. SitesLeft(ss, w) \in SUBSET CallSites(ss)
        BY DEF SitesLeft
    <1>3. IsFiniteSet(SitesLeft(ss, w))
        BY <1>1, <1>2, FS_Subset
    <1>4. Cardinality(SitesLeft(ss, w)) \in Nat
        BY <1>3, FS_CardinalityType
    <1> QED BY <1>3, <1>4

LEMMA SkippedShrinks ==
    ASSUME NEW ss, Definitions(ss), NEW w, w.queue \in Seq(Defined(ss)), w.queue # <<>>,
           NEW v, Skips(w, v)
    PROVE  VisitsLeft(ss, v) + 1 = VisitsLeft(ss, w)
    <1>1. Len(v.queue) = Len(w.queue) - 1
        BY DEF Skips
    <1>2. SitesLeft(ss, v) = SitesLeft(ss, w)
        BY DEF Skips, SitesLeft
    <1>3. Cardinality(SitesLeft(ss, w)) \in Nat /\ Len(w.queue) \in Nat
        BY LeftTyped
    <1> QED BY <1>1, <1>2, <1>3 DEF VisitsLeft

LEMMA CollectedShrinks ==
    ASSUME NEW ss, Definitions(ss), NEW w, w.queue \in Seq(Defined(ss)), w.queue # <<>>,
           NEW v, NEW called, Collects(ss, w, v, called)
    PROVE  VisitsLeft(ss, v) + 1 <= VisitsLeft(ss, w)
    <1>1. PICK name \in Defined(ss), rest \in Seq(Defined(ss)) : Split(w.queue, name, rest)
        BY Splitting
    <1>2. PICK k \in DOMAIN ss : Definition(ss, name) = ss[k] /\ ss[k].name = name
        BY DefinitionName
    <1>3. PICK callees : callees = ss[k].callees
        OBVIOUS
    <1>4. /\ v.queue = rest \o called /\ v.visited = w.visited \cup {name} /\ name \notin w.visited
          /\ called \in Seq(Defined(ss)) /\ Len(called) <= Len(callees)
        BY <1>1, <1>2, <1>3 DEF Collects, Split
    <1>5. callees \in Seq(ToSet(callees))
        BY <1>3 DEF Definitions, ToSet
    <1>6. Len(callees) \in Nat /\ DOMAIN callees = 1 .. Len(callees)
        BY <1>5, OwnElements
    <1>7. v.queue \in Seq(Defined(ss)) /\ Len(v.queue) = Len(rest) + Len(called)
          /\ Len(rest) \in Nat /\ Len(called) \in Nat /\ Len(rest) = Len(w.queue) - 1
        BY <1>1, <1>4 DEF Split
    <1> DEFINE own == {k} \X DOMAIN callees
               before == SitesLeft(ss, w)
               after == SitesLeft(ss, v)
    <1>8. own \subseteq before
        BY <1>2, <1>3, <1>4 DEF SitesLeft, CallSites
    <1>9. after \subseteq before /\ own \cap after = {}
        BY <1>2, <1>4 DEF SitesLeft
    <1>10. IsFiniteSet(own) /\ Cardinality(own) = Len(callees)
        <2>1. IsFiniteSet({k}) /\ Cardinality({k}) = 1
            BY FS_Singleton
        <2>2. PICK places, m : places = DOMAIN callees /\ m = Len(callees)
            OBVIOUS
        <2>3. places = 1 .. m /\ m \in Nat
            BY <1>6, <2>2
        <2>4. IsFiniteSet(places) /\ Cardinality(places) = m
            <3>1. IsFiniteSet(1 .. m) /\ Cardinality(1 .. m) = IF 1 > m THEN 0 ELSE m - 1 + 1
                BY <2>3, FS_Interval
            <3> QED BY <2>3, <3>1
        <2>5. IsFiniteSet({k} \X places) /\ Cardinality({k} \X places) = Cardinality({k}) * Cardinality(places)
            BY <2>1, <2>4, FS_Product
        <2> QED BY <2>1, <2>2, <2>3, <2>4, <2>5
    <1>11. /\ IsFiniteSet(before) /\ Cardinality(before) \in Nat
           /\ IsFiniteSet(after) /\ Cardinality(after) \in Nat
        BY <1>7, LeftTyped
    <1> HIDE DEF own, before, after
    <1>12. Cardinality(own \cup after) = Len(callees) + Cardinality(after)
        <2>1. Cardinality(own \cup after)
                 = Cardinality(own) + Cardinality(after) - Cardinality(own \cap after)
            BY <1>10, <1>11, FS_Union
        <2>2. Cardinality(own \cap after) = 0
            BY <1>9, FS_EmptySet
        <2> QED BY <1>6, <1>10, <1>11, <2>1, <2>2
    <1>13. Cardinality(own \cup after) <= Cardinality(before)
        <2>1. own \cup after \in SUBSET before
            BY <1>8, <1>9
        <2> QED BY <1>11, <2>1, FS_Subset
    <1>14. Len(rest) + Len(called) + Cardinality(after) + 1 <= Len(w.queue) + Cardinality(before)
        BY <1>4, <1>6, <1>7, <1>11, <1>12, <1>13
    <1> QED BY <1>7, <1>14 DEF VisitsLeft, before, after

\* Up to the end of the walk.
Walking(ss, near, w) ==
    /\ w \in Walks(ss) /\ Reached(ss, near, w) /\ Collected(ss, w)
    /\ ~w.full => Frontier(ss, w)

LEMMA WalkingStarts ==
    ASSUME NEW ss, Definitions(ss), NEW near, Near(ss, near)
    PROVE  Walking(ss, near, FirstVisit(ss)) /\ VisitsLeft(ss, FirstVisit(ss)) <= WalkSteps(ss)
    <1>1. PICK queue, depth, w : /\ queue = Anchors(ss) /\ depth = [n \in ToSet(queue) |-> 0]
                                 /\ w = FirstVisit(ss)
        OBVIOUS
    <1>2. w = [queue |-> queue, depth |-> depth, visited |-> {}, found |-> <<>>, used |-> 0, full |-> FALSE]
        BY <1>1 DEF FirstVisit, NoWalk
    <1>3. queue \in Seq(Defined(ss)) /\ w \in Walks(ss)
        BY <1>1, WalkStarts DEF FirstVisit
    <1>4. HopDepth \in Nat /\ MaxAnchors \in Nat /\ WalkBudget \in Nat
        BY BuilderAssumption DEF RetrievalAssumption
    <1>5. Reached(ss, near, w)
        <2>1. \A m \in ToSet(queue) : depth[m] = 0 /\ depth[m] \in 0 .. HopDepth /\ m \in near[depth[m]]
            BY <1>1, <1>4 DEF Near
        <2> QED BY <1>1, <1>2, <1>3, <2>1 DEF Reached
    <1>6. Collected(ss, w)
        <2>1. Tokens(<<>>) = 0
            <3>1. Sized(<<>>)
                BY DEF Sized, ToSet
            <3>2. PICK f : Sums(f, [i \in DOMAIN <<>> |-> <<>>[i].tokens], Len(<<>>))
                           /\ Tokens(<<>>) = f[Len(<<>>)]
                BY <3>1, TokensRun
            <3>3. Len(<<>>) = 0
                OBVIOUS
            <3> QED BY <3>2, <3>3 DEF Sums
        <2>2. NamesOf(<<>>) = {} /\ DOMAIN <<>> = {}
            BY DEF NamesOf, ToSet
        <2> QED BY <1>2, <1>4, <2>1, <2>2 DEF Collected
    <1>7. Frontier(ss, w)
        <2>1. \A m \in DOMAIN depth : depth[m] = 0
            BY <1>1
        <2>2. DOMAIN depth = ToSet(queue) /\ \A i \in DOMAIN queue : queue[i] \in DOMAIN depth
            BY <1>1 DEF ToSet
        <2> QED BY <1>2, <2>1, <2>2 DEF Frontier, Waiting
    <1>8. VisitsLeft(ss, w) <= WalkSteps(ss)
        <2>1. SitesLeft(ss, w) = CallSites(ss)
            BY <1>2 DEF SitesLeft
        <2>2. Cardinality(CallSites(ss)) \in Nat
            BY SitesFinite, FS_CardinalityType
        <2>3. Len(queue) <= MaxAnchors /\ Len(queue) \in Nat
            <3>1. PICK names : names = Names(ss)
                OBVIOUS
            <3>2. names \in Seq(Defined(ss)) /\ Len(names) \in Nat
                BY <3>1, NamesRows
            <3>3. queue = SubSeq(names, 1, IF Len(names) < MaxAnchors THEN Len(names) ELSE MaxAnchors)
                BY <1>1, <3>1 DEF Anchors, Take
            <3> QED BY <1>4, <3>2, <3>3
        <2>4. w.queue = queue
            BY <1>2
        <2> QED BY <1>4, <2>1, <2>2, <2>3, <2>4 DEF VisitsLeft, WalkSteps
    <1> QED BY <1>1, <1>3, <1>5, <1>6, <1>7, <1>8 DEF Walking

WalkOver(w) == w.full \/ w.queue = <<>>

LEMMA WalkingGoesOn ==
    ASSUME NEW ss, Definitions(ss), NEW near, Near(ss, near), NEW w, Walking(ss, near, w)
    PROVE  /\ Walking(ss, near, Visit(ss, w))
           /\ WalkOver(w) => WalkOver(Visit(ss, w))
           /\ ~WalkOver(w) => WalkOver(Visit(ss, w)) \/ VisitsLeft(ss, Visit(ss, w)) + 1 <= VisitsLeft(ss, w)
    <1>1. PICK v : v = Visit(ss, w)
        OBVIOUS
    <1>2. w \in Walks(ss) /\ v \in Walks(ss)
        BY <1>1, WalkGoesOn DEF Walking
    <1>3. CASE WalkOver(w)
        <2>1. v = w
            BY <1>1, <1>2, <1>3, VisitCases DEF WalkOver
        <2> QED BY <1>1, <1>3, <2>1
    <1>4. CASE ~WalkOver(w)
        <2>1. /\ ~w.full /\ w.queue # <<>> /\ w.queue \in Seq(Defined(ss))
              /\ Reached(ss, near, w) /\ Collected(ss, w) /\ Frontier(ss, w)
            BY <1>2, <1>4 DEF WalkOver, Walking, Walks
        <2>2. Skips(w, v) \/ Stops(ss, w, v) \/ \E called : Collects(ss, w, v, called)
            BY <1>1, <1>2, <2>1, VisitCases
        <2>3. VisitsLeft(ss, w) \in Nat
            BY <2>1, LeftTyped DEF VisitsLeft
        <2>4. v.queue \in Seq(Defined(ss))
            BY <1>2 DEF Walks
        <2>5. VisitsLeft(ss, v) \in Nat
            BY <2>4, LeftTyped DEF VisitsLeft
        <2>6. CASE Skips(w, v)
            <3>1. Reached(ss, near, v)
                BY <2>1, <2>6, SkippedReached
            <3>2. Collected(ss, v)
                BY <2>1, <2>6, SkippedCollected
            <3>3. Frontier(ss, v)
                BY <2>1, <2>6, SkippedFrontier
            <3>4. VisitsLeft(ss, v) + 1 = VisitsLeft(ss, w)
                BY <2>1, <2>6, SkippedShrinks
            <3>5. VisitsLeft(ss, v) + 1 <= VisitsLeft(ss, w)
                BY <2>3, <3>4
            <3> QED BY <1>1, <1>2, <1>4, <3>1, <3>2, <3>3, <3>5 DEF Walking
        <2>7. CASE Stops(ss, w, v)
            <3>1. Reached(ss, near, v)
                BY <2>1, <2>7, SkippedReached
            <3>2. Collected(ss, v)
                BY <2>1, <2>7, StoppedCollected
            <3>3. v.full = TRUE
                BY <2>7 DEF Stops
            <3> QED BY <1>1, <1>2, <1>4, <3>1, <3>2, <3>3 DEF Walking, WalkOver
        <2>8. CASE \E called : Collects(ss, w, v, called)
            <3>1. PICK called : Collects(ss, w, v, called)
                BY <2>8
            <3>2. Reached(ss, near, v)
                BY <2>1, <3>1, CollectedReached
            <3>3. Collected(ss, v)
                BY <1>2, <2>1, <3>1, CollectedMore
            <3>4. Frontier(ss, v)
                BY <2>1, <3>1, CollectedFrontier
            <3>5. VisitsLeft(ss, v) + 1 <= VisitsLeft(ss, w)
                BY <2>1, <3>1, CollectedShrinks
            <3> QED BY <1>1, <1>2, <1>4, <3>2, <3>3, <3>4, <3>5 DEF Walking
        <2> QED BY <2>2, <2>6, <2>7, <2>8
    <1> QED BY <1>3, <1>4

\* WalkSteps visits are enough.
LEMMA WalkIsOver ==
    ASSUME NEW ss, Definitions(ss), NEW near, Near(ss, near)
    PROVE  \E w : /\ Walking(ss, near, w) /\ WalkOver(w)
                  /\ RetrieveStructural(ss) = w.found
    <1>1. PICK n : n = WalkSteps(ss)
        OBVIOUS
    <1>2. n \in Nat
        BY <1>1, WalkEnds
    <1>3. PICK f : Visiting(f, ss) /\ RetrieveStructural(ss) = f[n].found
        BY <1>1, WalkRun
    <1>4. f[0] = FirstVisit(ss) /\ \A i \in 1 .. n : f[i] = Visit(ss, f[i - 1])
        BY <1>1, <1>3 DEF Visiting
    <1> DEFINE Good(i) == Walking(ss, near, f[i])
                          /\ (WalkOver(f[i]) \/ VisitsLeft(ss, f[i]) + i <= n)
               S == {i \in Nat : i > n \/ Good(i)}
    <1>5. 0 \in S
        <2>1. Walking(ss, near, f[0]) /\ VisitsLeft(ss, f[0]) <= n
            BY <1>1, <1>4, WalkingStarts
        <2>2. VisitsLeft(ss, f[0]) \in Nat
            BY <2>1, LeftTyped DEF VisitsLeft, Walking, Reached
        <2> QED BY <2>1, <2>2
    <1>6. ASSUME NEW i \in S PROVE i + 1 \in S
        <2>1. CASE i + 1 > n
            BY <2>1
        <2>2. CASE i + 1 <= n
            <3>1. i \in Nat /\ Good(i) /\ i + 1 \in 1 .. n /\ (i + 1) - 1 = i
                BY <1>2, <2>2
            <3>2. PICK w, v : w = f[i] /\ v = f[i + 1]
                OBVIOUS
            <3>3. v = Visit(ss, w)
                BY <1>4, <3>1, <3>2
            <3>4. Walking(ss, near, w) /\ (WalkOver(w) \/ VisitsLeft(ss, w) + i <= n)
                BY <3>1, <3>2
            <3>5. /\ Walking(ss, near, v)
                  /\ WalkOver(w) => WalkOver(v)
                  /\ ~WalkOver(w) => WalkOver(v) \/ VisitsLeft(ss, v) + 1 <= VisitsLeft(ss, w)
                BY <3>3, <3>4, WalkingGoesOn
            <3>6. VisitsLeft(ss, w) \in Nat
                BY <3>4, LeftTyped DEF VisitsLeft, Walking, Reached
            <3>7. VisitsLeft(ss, v) \in Nat
                BY <3>5, LeftTyped DEF VisitsLeft, Walking, Reached
            <3>8. WalkOver(v) \/ VisitsLeft(ss, v) + (i + 1) <= n
                BY <1>2, <3>1, <3>4, <3>5, <3>6, <3>7
            <3> QED BY <3>1, <3>2, <3>5, <3>8
        <2> QED BY <1>2, <2>1, <2>2
    <1>7. S = Nat
        <2>1. S \in SUBSET Nat
            OBVIOUS
        <2> HIDE DEF S
        <2> QED BY <1>5, <1>6, <2>1, Induction
    <1>8. PICK w : w = f[n]
        OBVIOUS
    <1>9. Walking(ss, near, w) /\ (WalkOver(w) \/ VisitsLeft(ss, w) + n <= n)
        <2>1. n \in S
            BY <1>2, <1>7
        <2> QED BY <1>2, <1>8, <2>1
    <1>10. WalkOver(w)
        <2>1. /\ w.queue \in Seq(Defined(ss)) /\ Len(w.queue) \in Nat
              /\ Cardinality(SitesLeft(ss, w)) \in Nat
            BY <1>9, LeftTyped DEF Walking, Reached
        <2>2. CASE VisitsLeft(ss, w) + n <= n
            <3>1. Len(w.queue) = 0
                BY <1>2, <2>1, <2>2 DEF VisitsLeft
            <3>2. w.queue = <<>>
                BY <2>1, <3>1
            <3> QED BY <3>2 DEF WalkOver
        <2> QED BY <1>9, <2>2
    <1> QED BY <1>3, <1>8, <1>9, <1>10

\* An empty queue: everything near was visited.
LEMMA AllVisited ==
    ASSUME NEW ss, Definitions(ss), NEW near, Near(ss, near), NEW w, Reached(ss, near, w),
           Frontier(ss, w), w.queue = <<>>
    PROVE  near[HopDepth] \subseteq w.visited
    <1> DEFINE h == HopDepth
               Good(k) == \A m \in near[k] : m \in w.visited /\ w.depth[m] <= k
               S == {k \in Nat : k > h \/ Good(k)}
    <1>1. h \in Nat
        BY BuilderAssumption DEF RetrievalAssumption
    <1>2. DOMAIN w.depth = w.visited /\ \A m \in w.visited : w.depth[m] \in 0 .. h
        <2>1. ToSet(w.queue) = {}
            BY DEF ToSet
        <2> QED BY <2>1 DEF Reached
    <1>3. 0 \in S
        BY <1>2 DEF Near, Reached
    <1>4. ASSUME NEW k \in S PROVE k + 1 \in S
        <2>1. CASE k + 1 > h
            BY <2>1
        <2>2. CASE k + 1 <= h
            <3>1. k \in Nat /\ k < h /\ k + 1 \in 1 .. h /\ (k + 1) - 1 = k /\ Good(k)
                BY <1>1, <2>2
            <3>2. ASSUME NEW c \in near[k + 1] PROVE c \in w.visited /\ w.depth[c] <= k + 1
                <4>1. c \in near[k] \/ (c \in Defined(ss) /\ \E b \in near[k] : Calls(ss, b, c))
                    BY <3>1 DEF Near
                <4>2. CASE c \in near[k]
                    <5>1. c \in w.visited /\ w.depth[c] <= k /\ w.depth[c] \in 0 .. h
                        BY <1>2, <3>1, <4>2
                    <5> QED BY <3>1, <5>1
                <4>3. CASE c \in Defined(ss) /\ \E b \in near[k] : Calls(ss, b, c)
                    <5>1. PICK b \in near[k] : Calls(ss, b, c)
                        BY <4>3
                    <5>2. b \in w.visited /\ w.depth[b] <= k /\ w.depth[b] \in 0 .. h
                        BY <1>2, <3>1, <5>1
                    <5>3. w.depth[b] < h
                        BY <1>1, <3>1, <5>2
                    <5>4. c \in DOMAIN w.depth /\ w.depth[c] <= w.depth[b] + 1
                        BY <4>3, <5>1, <5>2, <5>3 DEF Frontier
                    <5>5. c \in w.visited /\ w.depth[c] \in 0 .. h
                        BY <1>2, <5>4
                    <5> QED BY <3>1, <5>2, <5>4, <5>5
                <4> QED BY <4>1, <4>2, <4>3
            <3> HIDE DEF h
            <3> QED BY <3>1, <3>2
        <2> QED BY <1>1, <2>1, <2>2
    <1>5. S = Nat
        <2>1. S \in SUBSET Nat
            OBVIOUS
        <2> HIDE DEF S
        <2> QED BY <1>3, <1>4, <2>1, Induction
    <1>6. Good(h)
        <2>1. h \in S
            BY <1>1, <1>5
        <2> HIDE DEF Good, h
        <2> QED BY <1>1, <2>1
    <1> QED BY <1>6

\* Rows with names of their own are as many as their names.
LEMMA NamesCount ==
    ASSUME NEW found, found \in Seq(ToSet(found)),
           \A i, j \in DOMAIN found : found[i].name = found[j].name => i = j
    PROVE  Cardinality(NamesOf(found)) = Len(found)
    <1>1. PICK n : n = Len(found)
        OBVIOUS
    <1>2. n \in Nat /\ DOMAIN found = 1 .. n
        BY <1>1
    <1>3. PICK f : f = [i \in 1 .. n |-> found[i].name]
        OBVIOUS
    <1>4. NamesOf(found) = {found[i].name : i \in 1 .. n}
        BY <1>2 DEF NamesOf, ToSet
    <1>5. f \in Bijection(1 .. n, NamesOf(found))
        <2>1. PICK N : N = NamesOf(found)
            OBVIOUS
        <2>2. f \in [1 .. n -> N] /\ \A i \in 1 .. n : f[i] = found[i].name
            BY <1>3, <1>4, <2>1
        <2>3. \A i, j \in 1 .. n : f[i] = f[j] => i = j
            BY <1>2, <2>2
        <2>4. \A x \in N : \E i \in 1 .. n : f[i] = x
            BY <1>4, <2>1, <2>2
        <2>5. f \in Injection(1 .. n, N)
            BY <2>2, <2>3 DEF Injection, IsInjective
        <2>6. f \in Surjection(1 .. n, N)
            BY <2>2, <2>4 DEF Surjection
        <2> QED BY <2>1, <2>5, <2>6 DEF Bijection
    <1>6. IsFiniteSet(1 .. n) /\ Cardinality(1 .. n) = IF 1 > n THEN 0 ELSE n - 1 + 1
        BY <1>2, FS_Interval
    <1>7. ExistsBijection(1 .. n, NamesOf(found))
        BY <1>5 DEF ExistsBijection
    <1>8. Cardinality(NamesOf(found)) = Cardinality(1 .. n)
        BY <1>6, <1>7, FS_Bijection
    <1> QED BY <1>1, <1>2, <1>6, <1>8

LEMMA WalkFinds ==
    ASSUME NEW ss, Definitions(ss)
    PROVE  LET near == WithinHops(ss, ToSet(Anchors(ss)), HopDepth)
               found == RetrieveStructural(ss)
           IN  /\ NamesOf(found) \subseteq near
               /\ Cardinality(NamesOf(found)) = Len(found)
               /\ Tokens(found) <= WalkBudget
               /\ \/ NamesOf(found) = near
                  \/ \E n \in near \ NamesOf(found) : Tokens(found) + Definition(ss, n).tokens > WalkBudget
    <1>1. PICK hops : Near(ss, hops) /\ WithinHops(ss, ToSet(Anchors(ss)), HopDepth) = hops[HopDepth]
        BY HopsRun
    <1>2. PICK w : Walking(ss, hops, w) /\ WalkOver(w) /\ RetrieveStructural(ss) = w.found
        BY <1>1, WalkIsOver
    <1>3. PICK near, found : near = hops[HopDepth] /\ found = w.found
        OBVIOUS
    <1>4. /\ w \in Walks(ss) /\ Reached(ss, hops, w) /\ Collected(ss, w) /\ w.full \in BOOLEAN
          /\ ~w.full => Frontier(ss, w) /\ w.queue = <<>>
        BY <1>2 DEF Walking, WalkOver, Walks
    <1>5. w.visited \subseteq near
        <2>1. \A m \in w.visited : \E k \in 0 .. HopDepth : m \in hops[k]
            BY <1>4 DEF Reached
        <2>2. \A k \in 0 .. HopDepth : hops[k] \subseteq near
            BY <1>1, <1>3, NearGrows
        <2> QED BY <2>1, <2>2
    <1>6. NamesOf(found) \subseteq w.visited
        BY <1>3, <1>4 DEF Collected
    <1>7. Cardinality(NamesOf(found)) = Len(found)
        <2>1. found \in Seq(ToSet(ss))
            BY <1>3, <1>4 DEF Walks
        <2>2. found \in Seq(ToSet(found))
            BY <2>1, OwnElements
        <2>3. \A i, j \in DOMAIN found : found[i].name = found[j].name => i = j
            BY <1>3, <1>4 DEF Collected
        <2> QED BY <2>2, <2>3, NamesCount
    <1>8. Tokens(found) <= WalkBudget
        BY <1>3, <1>4 DEF Collected
    <1>9. CASE w.full
        <2>1. PICK n \in w.visited : /\ NamesOf(found) = w.visited \ {n}
                                     /\ Tokens(found) + Definition(ss, n).tokens > WalkBudget
            BY <1>3, <1>4, <1>9 DEF Collected
        <2>2. n \in near \ NamesOf(found)
            BY <1>5, <2>1
        <2> QED BY <1>1, <1>2, <1>3, <1>5, <1>6, <1>7, <1>8, <2>1, <2>2
    <1>10. CASE ~w.full
        <2>1. near \subseteq w.visited
            BY <1>1, <1>3, <1>4, <1>10, AllVisited
        <2>2. NamesOf(found) = w.visited
            BY <1>3, <1>4, <1>10 DEF Collected
        <2>3. NamesOf(found) = near
            BY <1>5, <2>1, <2>2
        <2> QED BY <1>1, <1>2, <1>3, <1>7, <1>8, <2>3
    <1> QED BY <1>9, <1>10

-----------------------------------------------------------------------------
(* Where what was retrieved ends *)

\* Each item is kept or dropped.
Divided(items, kept, dropped) ==
    /\ ToSet(IdsOf(kept)) \cup ToSet(IdsOf(dropped)) = ToSet(IdsOf(items))
    /\ ToSet(IdsOf(kept)) \cap ToSet(IdsOf(dropped)) = {}

LEMMA TrimDivides ==
    ASSUME NEW items, Items(items)
    PROVE  LET kept == Trim(items)
           IN  Divided(items, kept, Where(items, LAMBDA x : ~Contains(IdsOf(kept), x.id)))
    <1> DEFINE kept == Trim(items)
               I == {i \in DOMAIN items : ~Contains(IdsOf(kept), items[i].id)}
               dropped == At(items, I)
    <1>1. kept \in Seq(ToSet(items))
        BY TrimFills
    <1>2. Where(items, LAMBDA x : ~Contains(IdsOf(kept), x.id)) = dropped
        BY DEF Where
    <1> HIDE DEF kept
    <1>3. kept \in Seq(ToSet(kept)) /\ ToSet(kept) \subseteq ToSet(items)
        BY <1>1, OwnElements
    <1>4. \A x : x \in {items[i] : i \in I \cap DOMAIN items} <=> x \in ToSet(items) /\ x.id \notin Ids(kept)
        BY <1>3, ContainsId DEF ToSet
    <1> HIDE DEF I
    <1>5. /\ Table(dropped, {}, Texts \cup {"score"})
          /\ ToSet(dropped) = {items[i] : i \in I \cap DOMAIN items}
        BY AtTable DEF Items
    <1>6. Table(kept, {}, {}) /\ Table(items, {}, {}) /\ Table(dropped, {}, {})
        BY <1>3, <1>5 DEF Items, Table
    <1> HIDE DEF dropped
    <1>7. /\ ToSet(IdsOf(kept)) = Ids(kept) /\ ToSet(IdsOf(items)) = Ids(items)
          /\ ToSet(IdsOf(dropped)) = Ids(dropped)
        BY <1>6, IdRows
    <1>8. /\ Ids(kept) \cup Ids(dropped) = Ids(items)
          /\ Ids(kept) \cap Ids(dropped) = {}
        BY <1>3, <1>4, <1>5 DEF Ids
    <1> QED BY <1>2, <1>7, <1>8 DEF Divided, kept

\* What the keys of the tables tell apart.
LEMMA WorldIds ==
    ASSUME NEW w, IsWorld(w)
    PROVE  /\ \A R : Once(w.memories, R) /\ Once(w.files, R) /\ Once(w.commits, R)
           /\ \A id \in Ids(w.memories) : id \notin Ids(w.files) /\ id \notin Ids(w.commits)
           /\ \A id \in Ids(w.files) : id \notin Ids(w.commits)
           /\ \A id \in Ids(w.memories) \cup Ids(w.files) \cup Ids(w.commits) :
                 /\ id \notin Ids(w.symbols)
                 /\ \A row \in ToSet(w.memories) : \A k \in DOMAIN row.enrichment :
                       id \notin Ids(row.enrichment[k])
    <1> DEFINE reports == UNION {{m.enrichment[k] : k \in DOMAIN m.enrichment} : m \in ToSet(w.memories)}
               found == UNION {ToSet(IdsOf(report)) : report \in reports \cup {w.symbols}}
               kinds == <<ToSet(IdsOf(w.memories)), ToSet(IdsOf(w.files)), ToSet(IdsOf(w.commits)), found>>
    <1>1. \A rows \in {w.memories, w.files, w.commits} : IsInjective(IdsOf(rows))
        BY DEF IsWorld, OwnIds
    <1>2. \A rows : IsInjective(IdsOf(rows)) => \A R : Once(rows, R)
        BY DEF IsInjective, IdsOf, Mapped, Once
    <1>3. \A i, j \in DOMAIN kinds : i # j => kinds[i] \cap kinds[j] = {}
        BY DEF IsWorld, OwnIds
    <1>4. /\ ToSet(IdsOf(w.memories)) = Ids(w.memories) /\ ToSet(IdsOf(w.files)) = Ids(w.files)
          /\ ToSet(IdsOf(w.commits)) = Ids(w.commits) /\ ToSet(IdsOf(w.symbols)) = Ids(w.symbols)
        <2>1. /\ Table(w.memories, {}, {}) /\ Table(w.files, {}, {}) /\ Table(w.commits, {}, {})
              /\ Table(w.symbols, {}, {})
            BY DEF IsWorld, Table
        <2> QED BY <2>1, IdRows
    <1>5. \A row \in ToSet(w.memories) : \A k \in DOMAIN row.enrichment :
             Ids(row.enrichment[k]) \subseteq found
        <2> TAKE row \in ToSet(w.memories)
        <2> TAKE k \in DOMAIN row.enrichment
        <2>1. PICK report : report = row.enrichment[k]
            OBVIOUS
        <2>2. report \in reports
            BY <2>1
        <2>3. Table(report, {}, Texts \cup {"rank", "line"})
            BY <2>1 DEF IsWorld
        <2>4. ToSet(IdsOf(report)) = Ids(report)
            BY <2>3, IdRows
        <2> HIDE DEF reports
        <2> QED BY <2>1, <2>2, <2>4
    <1>6. Ids(w.symbols) \subseteq found
        <2> HIDE DEF reports
        <2> QED BY <1>4
    <1> HIDE DEF found
    <1>7. DOMAIN kinds = 1 .. 4 /\ kinds[1] = Ids(w.memories) /\ kinds[2] = Ids(w.files)
          /\ kinds[3] = Ids(w.commits) /\ kinds[4] = found
        BY <1>4
    <1> HIDE DEF kinds
    <1>8. \A i, j \in 1 .. 4 : i # j => kinds[i] \cap kinds[j] = {}
        BY <1>3, <1>7
    <1>9. /\ Ids(w.memories) \cap Ids(w.files) = {} /\ Ids(w.memories) \cap Ids(w.commits) = {}
          /\ Ids(w.files) \cap Ids(w.commits) = {}
          /\ Ids(w.memories) \cap found = {} /\ Ids(w.files) \cap found = {}
          /\ Ids(w.commits) \cap found = {}
        BY <1>7, <1>8
    <1> QED BY <1>1, <1>2, <1>5, <1>6, <1>9

\* The queries return a row once, under its key.
LEMMA RememberedOnce ==
    ASSUME NEW w, IsWorld(w), NEW req
    PROVE  /\ \A R : Once(Remembered(w, req), R)
           /\ Ids(Remembered(w, req)) \subseteq Ids(w.memories)
    <1>1. PICK rows : rows = RetrieveMemories(w, req)
        OBVIOUS
    <1>2. PICK told : told = Remembered(w, req)
        OBVIOUS
    <1>3. /\ Table(rows, {"tenant", "type", "enrichment"}, MemoryNumbers)
          /\ ToSet(rows) \subseteq ToSet(w.memories)
        BY <1>1, MemoryRows
    <1>4. told = [i \in DOMAIN rows |-> WithFindings(rows[i])]
        BY <1>1, <1>2 DEF Remembered, Mapped
    <1>5. \A i \in DOMAIN rows : told[i].id = rows[i].id
        <2> TAKE i \in DOMAIN rows
        <2>1. PICK m : m = rows[i]
            OBVIOUS
        <2>2. "id" \in DOMAIN m
            BY <1>3, <2>1 DEF Table, ToSet, MemoryNumbers, Texts
        <2>3. PICK new : new = [findings |-> ExtractFindings(m.enrichment)]
            OBVIOUS
        <2>4. told[i] = Over(new, m) /\ DOMAIN new = {"findings"}
            BY <1>4, <2>1, <2>3 DEF WithFindings
        <2> QED BY <2>1, <2>2, <2>4 DEF Over
    <1>6. \A R : Once(rows, R)
        <2> DEFINE I == {i \in DOMAIN w.memories :
                            /\ req.scope = None \/ w.memories[i].scope = req.scope
                            /\ InTenant(w.memories[i], req.tenant)}
        <2>1. rows = Take(At(w.memories, I), MemoryLimit)
            BY <1>1 DEF RetrieveMemories, Where
        <2> HIDE DEF I
        <2>2. w.memories \in Seq(ToSet(w.memories))
            BY DEF IsWorld, Table
        <2>3. \A R : Once(At(w.memories, I), R)
            BY <2>2, WorldIds, AtOnce
        <2>4. At(w.memories, I) \in Seq(ToSet(w.memories))
            BY <2>2, AtElements
        <2>5. MemoryLimit \in Nat
            BY BuilderAssumption DEF RetrievalAssumption
        <2> QED BY <2>1, <2>3, <2>4, <2>5, TakeOnce
    <1>7. DOMAIN told = DOMAIN rows
        BY <1>4
    <1>8. \A R : Once(told, R)
        BY <1>5, <1>6, <1>7, CopiedOnce
    <1>9. Ids(told) \subseteq Ids(w.memories)
        <2>1. \A x \in ToSet(told) : \E i \in DOMAIN rows : x.id = rows[i].id
            BY <1>5, <1>7 DEF ToSet
        <2>2. \A i \in DOMAIN rows : rows[i] \in ToSet(w.memories)
            BY <1>3 DEF ToSet
        <2> QED BY <2>1, <2>2 DEF Ids
    <1> QED BY <1>2, <1>8, <1>9

LEMMA FilesOnce ==
    ASSUME NEW w, IsWorld(w), NEW req
    PROVE  /\ \A R : Once(RetrieveFileSignals(w, req), R)
           /\ Ids(RetrieveFileSignals(w, req)) \subseteq Ids(w.files)
    <1> DEFINE I == {i \in DOMAIN w.files : /\ Contains(req.files, w.files[i].id)
                                            /\ InTenant(w.files[i], req.tenant)}
    <1>1. PICK found : found = At(w.files, I)
        OBVIOUS
    <1>2. PICK rows : rows = [i \in DOMAIN found |-> Over([fragility |-> Fragility(found[i])], found[i])]
        OBVIOUS
    <1>3. RetrieveFileSignals(w, req) = rows
        BY <1>1, <1>2 DEF RetrieveFileSignals, Where, Mapped
    <1> HIDE DEF I
    <1>4. Table(w.files, {"tenant"}, FileNumbers) /\ w.files \in Seq(ToSet(w.files))
        BY DEF IsWorld, Table, FileNumbers
    <1>5. /\ Table(found, {"tenant"}, FileNumbers)
          /\ ToSet(found) = {w.files[i] : i \in I \cap DOMAIN w.files}
        BY <1>1, <1>4, AtTable
    <1>6. \A R : Once(found, R)
        BY <1>1, <1>4, WorldIds, AtOnce
    <1>7. \A i \in DOMAIN found : rows[i].id = found[i].id
        <2> TAKE i \in DOMAIN found
        <2>1. PICK f : f = found[i]
            OBVIOUS
        <2>2. "id" \in DOMAIN f
            BY <1>5, <2>1 DEF Table, ToSet, FileNumbers, Texts
        <2>3. PICK new : new = [fragility |-> Fragility(f)]
            OBVIOUS
        <2>4. rows[i] = Over(new, f) /\ DOMAIN new = {"fragility"}
            BY <1>2, <2>1, <2>3
        <2> QED BY <2>1, <2>2, <2>4 DEF Over
    <1>8. DOMAIN rows = DOMAIN found
        BY <1>2
    <1>9. \A R : Once(rows, R)
        BY <1>6, <1>7, <1>8, CopiedOnce
    <1>10. Ids(rows) \subseteq Ids(w.files)
        <2>1. \A x \in ToSet(rows) : \E i \in DOMAIN found : x.id = found[i].id
            BY <1>7, <1>8 DEF ToSet
        <2>2. \A i \in DOMAIN found : found[i] \in ToSet(w.files)
            BY <1>5 DEF ToSet
        <2> QED BY <2>1, <2>2 DEF Ids
    <1> QED BY <1>3, <1>9, <1>10

LEMMA DiffsOnce ==
    ASSUME NEW w, IsWorld(w), NEW req
    PROVE  /\ \A R : Once(RetrieveDiffs(w, req), R)
           /\ Ids(RetrieveDiffs(w, req)) \subseteq Ids(w.commits)
    <1> DEFINE I == {i \in DOMAIN w.commits :
                        /\ req.scope = None \/ req.scope \in w.commits[i].touches
                        /\ InTenant(w.commits[i], req.tenant)}
    <1>1. PICK found : found = At(w.commits, I)
        OBVIOUS
    <1>2. RetrieveDiffs(w, req) = Take(found, DiffLimit)
        BY <1>1 DEF RetrieveDiffs, Where
    <1> HIDE DEF I
    <1>3. w.commits \in Seq(ToSet(w.commits))
        BY DEF IsWorld, Table
    <1>4. found \in Seq(ToSet(w.commits)) /\ \A R : Once(found, R)
        <2>1. found \in Seq(ToSet(w.commits))
            BY <1>1, <1>3, AtElements
        <2>2. \A R : Once(found, R)
            BY <1>1, <1>3, WorldIds, AtOnce
        <2> QED BY <2>1, <2>2
    <1>5. DiffLimit \in Nat
        BY BuilderAssumption DEF RetrievalAssumption
    <1>6. \A R : Once(Take(found, DiffLimit), R)
        BY <1>4, <1>5, TakeOnce
    <1>7. PICK rows : rows = Take(found, DiffLimit)
        OBVIOUS
    <1>8. rows \in Seq(ToSet(w.commits))
        BY <1>4, <1>5, <1>7, TakeElements
    <1>9. Ids(rows) \subseteq Ids(w.commits)
        BY <1>8, OwnElements DEF Ids
    <1> QED BY <1>2, <1>6, <1>7, <1>9

-----------------------------------------------------------------------------
(* The signals of a brief *)

\* The ids of three tables one after the other.
LEMMA RetrievedIds ==
    ASSUME NEW ms, Memories(ms), NEW fs, Files(fs), NEW ds, Diffs(ds)
    PROVE  ToSet(IdsOf(ms) \o IdsOf(fs) \o IdsOf(ds)) = Ids(ms) \cup Ids(fs) \cup Ids(ds)
    <1>1. /\ Table(IdsOf(ms), {}, {}) /\ ToSet(IdsOf(ms)) = Ids(ms)
          /\ Table(IdsOf(fs), {}, {}) /\ ToSet(IdsOf(fs)) = Ids(fs)
          /\ Table(IdsOf(ds), {}, {}) /\ ToSet(IdsOf(ds)) = Ids(ds)
        <2>1. Table(IdsOf(ms), {}, {}) /\ ToSet(IdsOf(ms)) = Ids(ms)
            BY IdRows DEF Memories
        <2>2. Table(IdsOf(fs), {}, {}) /\ ToSet(IdsOf(fs)) = Ids(fs)
            BY IdRows DEF Files
        <2>3. Table(IdsOf(ds), {}, {}) /\ ToSet(IdsOf(ds)) = Ids(ds)
            BY IdRows DEF Diffs
        <2> QED BY <2>1, <2>2, <2>3
    <1>2. /\ Table(IdsOf(ms) \o IdsOf(fs), {}, {})
          /\ ToSet(IdsOf(ms) \o IdsOf(fs)) = Ids(ms) \cup Ids(fs)
        BY <1>1, ConcatTable
    <1> QED BY <1>1, <1>2, ConcatTable

\* What a call holds before it assembles, and of whom.
LEMMA ReadRows ==
    ASSUME CallInv, RetrievedInv,
           {"req", "memories", "governor", "files", "diffs", "structural"} \subseteq DOMAIN job
    PROVE  /\ Memories(job.memories) /\ OwnRows(job.memories, job.req)
           /\ Files(job.files) /\ OwnRows(job.files, job.req)
           /\ Table(job.files, {"tenant"}, {})
           /\ Diffs(job.diffs) /\ OwnRows(job.diffs, job.req)
           /\ Table(job.diffs, {"tenant"}, {})
           /\ Table(job.structural, {}, Texts)
    <1>0. IsWorld(world) /\ job.req \in world.requests
        BY DEF CallInv, Has
    <1>1. Memories(job.memories) /\ OwnRows(job.memories, job.req)
        <2>1. job.memories = Remembered(world, job.req)
            BY DEF RetrievedInv, Has, Faithful, Remembered
        <2> QED BY <1>0, <2>1, RememberedRows DEF Memories
    <1>2. Files(job.files) /\ OwnRows(job.files, job.req) /\ Table(job.files, {"tenant"}, {})
        <2>1. job.files \in {<<>>, RetrieveFileSignals(world, job.req)}
            BY DEF RetrievedInv, Has, Read
        <2>2. CASE job.files = <<>>
            BY <2>2, EmptyTable DEF Files, OwnRows
        <2>3. CASE job.files = RetrieveFileSignals(world, job.req)
            <3>1. Table(job.files, {"tenant"}, FileNumbers \cup {"fragility"}) /\ OwnRows(job.files, job.req)
                BY <1>0, <2>3, FileRows
            <3> QED BY <3>1, WeakTable DEF Files
        <2> QED BY <2>1, <2>2, <2>3
    <1>3. Diffs(job.diffs) /\ OwnRows(job.diffs, job.req) /\ Table(job.diffs, {"tenant"}, {})
        <2>1. job.diffs \in {<<>>, RetrieveDiffs(world, job.req)}
            BY DEF RetrievedInv, Has, Read
        <2>2. CASE job.diffs = <<>>
            BY <2>2, EmptyTable DEF Diffs, OwnRows
        <2>3. CASE job.diffs = RetrieveDiffs(world, job.req)
            <3>1. Table(job.diffs, {"tenant"}, DiffNumbers) /\ OwnRows(job.diffs, job.req)
                BY <1>0, <2>3, DiffRows
            <3> QED BY <3>1, WeakTable DEF Diffs
        <2> QED BY <2>1, <2>2, <2>3
    <1>4. Table(job.structural, {}, Texts)
        <2>1. PICK ss : ss = Parsed(world.symbols, job.req.files)
            OBVIOUS
        <2>2. job.structural \in {<<>>, RetrieveStructural(ss)}
            BY <2>1 DEF RetrievedInv, Has
        <2>3. CASE job.structural = <<>>
            BY <2>3, EmptyTable
        <2>4. CASE job.structural = RetrieveStructural(ss)
            <3>1. job.req.files \in Seq(ToSet(job.req.files))
                BY <1>0 DEF IsWorld
            <3>2. Definitions(ss)
                BY <1>0, <2>1, <3>1, ParsedRows
            <3>3. job.structural \in Seq(ToSet(ss))
                BY <2>4, <3>2, WalkRows
            <3>4. Table(ss, {"name", "callees"}, Texts)
                BY <3>2 DEF Definitions
            <3>5. Table(job.structural, {"name", "callees"}, Texts)
                BY <3>3, <3>4, SubTable
            <3> QED BY <3>5, WeakTable
        <2> QED BY <2>2, <2>3, <2>4
    <1> QED BY <1>1, <1>2, <1>3, <1>4

LEMMA InitSignals == Init => SignalsInv
    BY DEF Init, SignalsInv, Has, NoJob

LEMMA StepSignals ==
    TypeOK /\ CallInv /\ RetrievedInv /\ SignalsInv /\ [Next]_vars => SignalsInv'
    <1> SUFFICES ASSUME TypeOK, CallInv, RetrievedInv, SignalsInv, [Next]_vars PROVE SignalsInv'
        OBVIOUS
    <1> USE DEF register, tables
    <1>1. ASSUME NEW req \in world.requests, Call(req) PROVE SignalsInv'
        <2>1. job' = [req |-> req]
            BY <1>1 DEF Call
        <2>2. DOMAIN job' = {"req"}
            BY <2>1
        <2> QED BY <2>2 DEF SignalsInv, Has
    <1>2. CASE Step /\ ~Return
        <2>0. pc \in Stages
            BY <1>2, StepAdds, Stations
        <2>1. /\ DOMAIN job = Gathered[pc] /\ DOMAIN job' = Gathered[pc'] /\ pc' = After[pc]
              /\ DOMAIN job \subseteq DOMAIN job'
              /\ \A f \in DOMAIN job : (pc = "rerank" /\ f \in {"signals", "items"}) \/ job'[f] = job[f]
            BY <1>2, <2>0, StepGathers DEF Around, CallInv
        <2>2. CASE Assemble
            <3>1. {"req", "memories", "governor", "files", "diffs", "structural"} \subseteq DOMAIN job
                BY <2>1, <2>2, Stations, FieldsAt DEF Assemble
            <3>2. PICK ms, fs, ds, structural :
                     /\ ms = job.memories /\ fs = job.files /\ ds = job.diffs
                     /\ structural = job.structural
                OBVIOUS
            <3>3. Memories(ms) /\ Files(fs) /\ Diffs(ds) /\ Table(structural, {}, Texts)
                BY <3>1, <3>2, ReadRows
            <3>4. job'.memories = ms /\ job'.files = fs /\ job'.diffs = ds
                BY <2>1, <2>2, <3>1, <3>2 DEF Assemble
            <3>5. PICK signals, items : /\ signals = RankSignals(ms, fs, ds)
                                        /\ items = SoftItems(ms, fs, ds, structural, signals)
                OBVIOUS
            <3>6. Rows(signals) /\ Ids(signals) = Ids(ms) \cup Ids(fs) \cup Ids(ds)
                BY <3>3, <3>5, RankedRows
            <3>7. Items(items)
                BY <3>3, <3>5, <3>6, SoftRows
            <3>8. PICK learned, hard, forbidden, allowed :
                     Gather([learned |-> learned, signals |-> signals, hard |-> hard,
                             forbidden |-> forbidden, allowed |-> allowed, items |-> items])
                BY <2>2, <3>2, <3>5 DEF Assemble
            <3>9. PICK more :
                     more = [learned |-> learned, signals |-> signals, hard |-> hard,
                             forbidden |-> forbidden, allowed |-> allowed, items |-> items]
                OBVIOUS
            <3>10. Gather(more)
                BY <3>8, <3>9
            <3>11. {"signals", "items"} \subseteq DOMAIN more /\ more.signals = signals /\ more.items = items
                BY <3>9
            <3>12. job'.signals = signals /\ job'.items = items
                BY <3>10, <3>11, Gathers
            <3>13. ToSet(IdsOf(signals)) = ToSet(IdsOf(ms) \o IdsOf(fs) \o IdsOf(ds))
                <4>1. ToSet(IdsOf(signals)) = Ids(signals)
                    BY <3>6, IdRows DEF Rows
                <4> QED BY <3>3, <3>6, <4>1, RetrievedIds
            <3>14. ToSet(IdsOf(job'.signals)) = ToSet(Retrieved(job'))
                BY <3>4, <3>12, <3>13 DEF Retrieved
            <3> QED BY <3>6, <3>7, <3>12, <3>14 DEF SignalsInv, Rows, Items
        <2>3. CASE RerankStep
            <3>1. {"signals", "items", "memories", "files", "diffs"} \subseteq DOMAIN job
                BY <2>1, <2>3, Stations, FieldsAt DEF RerankStep
            <3>2. job'.memories = job.memories /\ job'.files = job.files /\ job'.diffs = job.diffs
                BY <2>1, <3>1
            <3>3. PICK signals, items : signals = job.signals /\ items = job.items
                OBVIOUS
            <3>4. /\ Rows(signals) /\ Items(items)
                  /\ ToSet(IdsOf(signals)) = ToSet(Retrieved(job))
                BY <3>1, <3>3 DEF SignalsInv, Has, Rows, Items
            <3>5. PICK a \in world.answers : Gather(Rerank(signals, items, Answers[a]))
                BY <2>3, <3>3 DEF RerankStep
            <3>6. a \in DOMAIN Answers
                BY <3>5 DEF CallInv, IsWorld
            <3>7. PICK more : more = Rerank(signals, items, Answers[a])
                OBVIOUS
            <3>8. Rows(more.signals) /\ Ids(more.signals) = Ids(signals) /\ Items(more.items)
                BY <3>4, <3>6, <3>7, RerankRows
            <3>9. job'.signals = more.signals /\ job'.items = more.items
                <4>1. {"signals", "items"} \subseteq DOMAIN more
                    BY <3>7, RerankFields
                <4>2. Gather(more)
                    BY <3>5, <3>7
                <4> QED BY <4>1, <4>2, Gathers
            <3>10. ToSet(IdsOf(more.signals)) = ToSet(IdsOf(signals))
                BY <3>4, <3>8, IdRows DEF Rows
            <3>11. ToSet(IdsOf(job'.signals)) = ToSet(Retrieved(job'))
                <4>1. Retrieved(job') = Retrieved(job)
                    BY <3>2 DEF Retrieved
                <4> QED BY <3>4, <3>9, <3>10, <4>1
            <3> QED BY <3>8, <3>9, <3>11 DEF SignalsInv, Rows, Items
        <2>4. CASE ~Assemble /\ ~RerankStep
            <3>1. Has("signals")' => Has("signals") /\ Has("learned")
                BY <1>2, <2>0, <2>1, <2>4, Stations, FieldsAt
                   DEF Has, Step, Embed, MemoriesStep, FilesStep, DiffsStep, StructuralStep, Probe,
                       CompressStep, Persist, Decide, Sources
            <3>2. ASSUME Has("signals")'
                  PROVE  \A f \in {"signals", "items", "memories", "files", "diffs"} : job'[f] = job[f]
                <4>1. {"signals", "items", "memories", "files", "diffs"} \subseteq DOMAIN job
                    BY <3>1, <3>2, Together
                <4>2. pc # "rerank"
                    BY <1>2, <2>4
                       DEF Step, Embed, MemoriesStep, FilesStep, DiffsStep, StructuralStep, Probe,
                           CompressStep, Persist, Decide, Sources
                <4> QED BY <2>1, <4>1, <4>2
            <3>3. ASSUME Has("signals")' PROVE Retrieved(job') = Retrieved(job)
                BY <3>2, <3>3 DEF Retrieved
            <3> QED BY <3>1, <3>2, <3>3 DEF SignalsInv
        <2> QED BY <2>2, <2>3, <2>4
    <1>3. CASE Return \/ Abort
        BY <1>3 DEF Return, Abort, Done, NoJob, SignalsInv, Has
    <1>4. CASE ChangeConstraint \/ ChangeSource \/ UNCHANGED vars
        <2>1. UNCHANGED job
            BY <1>4 DEF ChangeConstraint, ChangeSource, vars
        <2> QED BY <2>1 DEF SignalsInv, Has, Retrieved
    <1> QED BY <1>1, <1>2, <1>3, <1>4 DEF Next, Step

-----------------------------------------------------------------------------
(* The items of a brief *)

\* What a call holds before it assembles, by its ids.
LEMMA ReadOnce ==
    ASSUME CallInv, RetrievedInv,
           {"req", "memories", "governor", "files", "diffs", "structural"} \subseteq DOMAIN job
    PROVE  /\ \A R : Distinct(job.memories, job.files, job.diffs, R)
           /\ Elsewhere(job.memories, job.structural,
                        Ids(job.memories) \cup Ids(job.files) \cup Ids(job.diffs))
    <1>1. PICK w, req, ms, fs, ds, structural, ss :
             /\ w = world /\ req = job.req /\ ms = job.memories /\ fs = job.files
             /\ ds = job.diffs /\ structural = job.structural
             /\ ss = Parsed(w.symbols, req.files)
        OBVIOUS
    <1>2. IsWorld(w) /\ req \in w.requests
        BY <1>1 DEF CallInv, Has
    <1>3. /\ ms = Remembered(w, req)
          /\ fs \in {<<>>, RetrieveFileSignals(w, req)}
          /\ ds \in {<<>>, RetrieveDiffs(w, req)}
          /\ structural \in {<<>>, RetrieveStructural(ss)}
        BY <1>1 DEF RetrievedInv, Has, Faithful, Read, Remembered
    <1>4. Ids(<<>>) = {} /\ \A R : Once(<<>>, R)
        BY DEF Ids, ToSet, Once
    <1>5. (\A R : Once(ms, R)) /\ Ids(ms) \subseteq Ids(w.memories)
        BY <1>2, <1>3, RememberedOnce
    <1>6. (\A R : Once(fs, R)) /\ Ids(fs) \subseteq Ids(w.files)
        BY <1>2, <1>3, <1>4, FilesOnce
    <1>7. (\A R : Once(ds, R)) /\ Ids(ds) \subseteq Ids(w.commits)
        BY <1>2, <1>3, <1>4, DiffsOnce
    <1>8. /\ \A id \in Ids(w.memories) : id \notin Ids(w.files) /\ id \notin Ids(w.commits)
          /\ \A id \in Ids(w.files) : id \notin Ids(w.commits)
          /\ \A id \in Ids(w.memories) \cup Ids(w.files) \cup Ids(w.commits) :
                /\ id \notin Ids(w.symbols)
                /\ \A row \in ToSet(w.memories) : \A k \in DOMAIN row.enrichment :
                      id \notin Ids(row.enrichment[k])
        BY <1>2, WorldIds
    <1>9. \A R : Distinct(ms, fs, ds, R)
        BY <1>5, <1>6, <1>7, <1>8 DEF Distinct, Apart
    <1>10. Ids(structural) \subseteq Ids(w.symbols)
        <2>1. CASE structural = <<>>
            BY <1>4, <2>1
        <2>2. CASE structural = RetrieveStructural(ss)
            <3>1. req.files \in Seq(ToSet(req.files))
                BY <1>2 DEF IsWorld
            <3>2. Definitions(ss) /\ ToSet(ss) \subseteq ToSet(w.symbols)
                BY <1>1, <1>2, <3>1, ParsedRows
            <3>3. structural \in Seq(ToSet(ss))
                BY <2>2, <3>2, WalkRows
            <3>4. ToSet(structural) \subseteq ToSet(ss)
                BY <3>3, OwnElements
            <3> QED BY <3>2, <3>4 DEF Ids
        <2> QED BY <1>3, <2>1, <2>2
    <1>11. Memories(ms)
        BY <1>2, <1>3, RememberedRows DEF Memories
    <1>12. ASSUME NEW f \in ToSet(SoftAdditions(ms))
           PROVE  \E row \in ToSet(w.memories) : \E k \in DOMAIN row.enrichment :
                     f.id \in Ids(row.enrichment[k])
        <2>0. PICK m \in ToSet(ms) : \E k : f \in ToSet(FindingsOf(m, k))
            BY <1>11, <1>12, SoftFindings
        <2>1. PICK k : f \in ToSet(FindingsOf(m, k))
            BY <2>0
        <2>2. PICK told, got : told = m.enrichment /\ got = m.findings
            OBVIOUS
        <2>3. /\ got = ExtractFindings(told)
              /\ \A q \in DOMAIN told : Table(told[q], {}, Texts \cup {"rank", "line"})
              /\ \E row \in ToSet(w.memories) : told = row.enrichment
            BY <1>2, <1>3, <2>2, RememberedFindings
        <2>4. ToSet(<<>>) = {}
            BY DEF ToSet
        <2>5. k \in DOMAIN got /\ f \in ToSet(got[k])
            BY <2>1, <2>2, <2>4 DEF FindingsOf
        <2>6. k \in DOMAIN told /\ ToSet(got[k]) \subseteq ToSet(told[k])
            BY <2>3, <2>5, Extracted
        <2>7. f.id \in Ids(told[k])
            BY <2>5, <2>6 DEF Ids
        <2> QED BY <2>3, <2>6, <2>7
    <1>13. \A id \in Ids(ms) \cup Ids(fs) \cup Ids(ds) :
              id \notin Ids(SoftAdditions(ms)) /\ id \notin Ids(structural)
        <2>1. \A id \in Ids(SoftAdditions(ms)) :
                 \E row \in ToSet(w.memories) : \E k \in DOMAIN row.enrichment :
                    id \in Ids(row.enrichment[k])
            BY <1>12 DEF Ids
        <2> QED BY <1>5, <1>6, <1>7, <1>8, <1>10, <2>1
    <1> QED BY <1>1, <1>9, <1>13 DEF Elsewhere

\* Each row is a vow or an item, once.
Settled(ms, fs, ds, structural, signals, items) ==
    LET retrieved == ToSet(IdsOf(ms) \o IdsOf(fs) \o IdsOf(ds))
        placed == ToSet(IdsOf(items))
        vows == {m.id : m \in {x \in ToSet(ms) : Unbreakable(x)}}
    IN  /\ Once(signals, retrieved) /\ Once(items, retrieved)
        /\ retrieved \cup ToSet(IdsOf(structural)) \subseteq placed \cup vows
        /\ placed \cap vows = {}

LEMMA ItemsSettled ==
    ASSUME NEW ms, Memories(ms), NEW fs, Files(fs), NEW ds, Diffs(ds),
           NEW structural, Table(structural, {}, Texts),
           \A R : Distinct(ms, fs, ds, R),
           Elsewhere(ms, structural, Ids(ms) \cup Ids(fs) \cup Ids(ds))
    PROVE  Settled(ms, fs, ds, structural, RankSignals(ms, fs, ds),
                   SoftItems(ms, fs, ds, structural, RankSignals(ms, fs, ds)))
    <1>1. PICK signals, items : /\ signals = RankSignals(ms, fs, ds)
                                /\ items = SoftItems(ms, fs, ds, structural, signals)
        OBVIOUS
    <1>2. PICK R : R = Ids(ms) \cup Ids(fs) \cup Ids(ds)
        OBVIOUS
    <1>3. /\ Rows(signals) /\ Ids(signals) = Ids(ms) \cup Ids(fs) \cup Ids(ds)
          /\ Once(signals, R)
        BY <1>1, RankedRows
    <1>4. /\ Ids(items) = Ids(SoftMemories(ms)) \cup Ids(ds) \cup Ids(fs)
                            \cup Ids(SoftAdditions(ms)) \cup Ids(structural)
          /\ Once(items, R)
        BY <1>1, <1>2, <1>3, SoftRows
    <1>5. ToSet(SoftMemories(ms)) = {m \in ToSet(ms) : ~Unbreakable(m)}
        BY SoftOnes
    <1> DEFINE vows == {m.id : m \in {x \in ToSet(ms) : Unbreakable(x)}}
    <1>6. \A id \in Ids(ms) : id \in vows \/ id \in Ids(SoftMemories(ms))
        BY <1>5 DEF Ids
    <1>7. \A id \in vows : id \notin Ids(SoftMemories(ms))
        <2> SUFFICES ASSUME NEW m \in ToSet(ms), Unbreakable(m), NEW x \in ToSet(ms),
                            ~Unbreakable(x), m.id = x.id
                     PROVE  FALSE
            BY <1>5 DEF Ids
        <2>1. PICK i \in DOMAIN ms, j \in DOMAIN ms : ms[i] = m /\ ms[j] = x
            BY DEF ToSet
        <2>2. Once(ms, {m.id})
            BY DEF Distinct
        <2> QED BY <2>1, <2>2 DEF Once
    <1>8. vows \subseteq Ids(ms)
        BY DEF Ids
    <1>9. \A id \in vows : id \notin Ids(items)
        BY <1>2, <1>4, <1>7, <1>8 DEF Elsewhere, Distinct, Apart
    <1>10. R \cup Ids(structural) \subseteq Ids(items) \cup vows
        BY <1>2, <1>4, <1>6
    <1>11. /\ ToSet(IdsOf(ms) \o IdsOf(fs) \o IdsOf(ds)) = R
           /\ ToSet(IdsOf(structural)) = Ids(structural)
           /\ ToSet(IdsOf(items)) = Ids(items)
        <2>1. ToSet(IdsOf(ms) \o IdsOf(fs) \o IdsOf(ds)) = R
            BY <1>2, RetrievedIds
        <2>2. ToSet(IdsOf(structural)) = Ids(structural)
            BY IdRows
        <2>3. Items(items)
            BY <1>1, <1>3, SoftRows
        <2>4. ToSet(IdsOf(items)) = Ids(items)
            BY <2>3, IdRows DEF Items
        <2> QED BY <2>1, <2>2, <2>4
    <1> QED BY <1>1, <1>3, <1>4, <1>9, <1>10, <1>11 DEF Settled

LEMMA InitPlaced == Init => PlacedInv
    BY DEF Init, PlacedInv, Has, NoJob

LEMMA PlacedSays ==
    PlacedInv <=> /\ Has("items") => Settled(job.memories, job.files, job.diffs, job.structural,
                                             job.signals, job.items)
                  /\ Has("kept") => Divided(job.items, job.kept, job.dropped)
    BY DEF PlacedInv, Settled, Divided, Retrieved, Vows

LEMMA StepPlaced ==
    TypeOK /\ CallInv /\ RetrievedInv /\ SignalsInv /\ PlacedInv /\ [Next]_vars => PlacedInv'
    <1> SUFFICES ASSUME TypeOK, CallInv, RetrievedInv, SignalsInv, PlacedInv, [Next]_vars
                 PROVE  PlacedInv'
        OBVIOUS
    <1> USE DEF register, tables
    <1>0. /\ Has("items") => Settled(job.memories, job.files, job.diffs, job.structural,
                                     job.signals, job.items)
          /\ Has("kept") => Divided(job.items, job.kept, job.dropped)
          /\ PlacedInv' <=>
               /\ "items" \in DOMAIN job' =>
                     Settled(job'.memories, job'.files, job'.diffs, job'.structural,
                             job'.signals, job'.items)
               /\ "kept" \in DOMAIN job' => Divided(job'.items, job'.kept, job'.dropped)
        BY PlacedSays DEF PlacedInv, Settled, Divided, Retrieved, Vows, Has
    <1> HIDE DEF PlacedInv
    <1>1. ASSUME NEW req \in world.requests, Call(req) PROVE PlacedInv'
        <2>1. job' = [req |-> req]
            BY <1>1 DEF Call
        <2>2. DOMAIN job' = {"req"}
            BY <2>1
        <2> QED BY <1>0, <2>2
    <1>2. CASE Step /\ ~Return
        <2>0. pc \in Stages
            BY <1>2, StepAdds, Stations
        <2>1. /\ DOMAIN job = Gathered[pc] /\ DOMAIN job' = Gathered[pc'] /\ pc' = After[pc]
              /\ DOMAIN job \subseteq DOMAIN job'
              /\ \A f \in DOMAIN job : (pc = "rerank" /\ f \in {"signals", "items"}) \/ job'[f] = job[f]
            BY <1>2, <2>0, StepGathers DEF Around, CallInv
        <2>2. CASE Assemble
            <3>1. /\ {"req", "memories", "governor", "files", "diffs", "structural"} \subseteq DOMAIN job
                  /\ "kept" \notin DOMAIN job'
                BY <2>1, <2>2, Stations, FieldsAt DEF Assemble
            <3>2. PICK ms, fs, ds, structural :
                     /\ ms = job.memories /\ fs = job.files /\ ds = job.diffs
                     /\ structural = job.structural
                OBVIOUS
            <3>3. Memories(ms) /\ Files(fs) /\ Diffs(ds) /\ Table(structural, {}, Texts)
                BY <3>1, <3>2, ReadRows
            <3>4. /\ \A R : Distinct(ms, fs, ds, R)
                  /\ Elsewhere(ms, structural, Ids(ms) \cup Ids(fs) \cup Ids(ds))
                BY <3>1, <3>2, ReadOnce
            <3>5. /\ job'.memories = ms /\ job'.files = fs /\ job'.diffs = ds
                  /\ job'.structural = structural
                BY <2>1, <2>2, <3>1, <3>2 DEF Assemble
            <3>6. PICK signals, items : /\ signals = RankSignals(ms, fs, ds)
                                        /\ items = SoftItems(ms, fs, ds, structural, signals)
                OBVIOUS
            <3>7. Settled(ms, fs, ds, structural, signals, items)
                BY <3>3, <3>4, <3>6, ItemsSettled
            <3>8. PICK learned, hard, forbidden, allowed :
                     Gather([learned |-> learned, signals |-> signals, hard |-> hard,
                             forbidden |-> forbidden, allowed |-> allowed, items |-> items])
                BY <2>2, <3>2, <3>6 DEF Assemble
            <3>9. PICK more :
                     more = [learned |-> learned, signals |-> signals, hard |-> hard,
                             forbidden |-> forbidden, allowed |-> allowed, items |-> items]
                OBVIOUS
            <3>10. Gather(more)
                BY <3>8, <3>9
            <3>11. {"signals", "items"} \subseteq DOMAIN more /\ more.signals = signals /\ more.items = items
                BY <3>9
            <3>12. job'.signals = signals /\ job'.items = items
                BY <3>10, <3>11, Gathers
            <3> QED BY <1>0, <3>1, <3>5, <3>7, <3>12
        <2>3. CASE RerankStep
            <3>1. /\ {"signals", "items", "memories", "files", "diffs", "structural"} \subseteq DOMAIN job
                  /\ "kept" \notin DOMAIN job'
                BY <2>1, <2>3, Stations, FieldsAt DEF RerankStep
            <3>2. PICK ms, fs, ds, structural, signals, items :
                     /\ ms = job.memories /\ fs = job.files /\ ds = job.diffs
                     /\ structural = job.structural /\ signals = job.signals /\ items = job.items
                OBVIOUS
            <3>3. /\ job'.memories = ms /\ job'.files = fs /\ job'.diffs = ds
                  /\ job'.structural = structural
                BY <2>1, <3>1, <3>2
            <3>4. Rows(signals) /\ Items(items) /\ Settled(ms, fs, ds, structural, signals, items)
                BY <1>0, <3>1, <3>2 DEF SignalsInv, Has, Rows, Items
            <3>5. PICK a \in world.answers : Gather(Rerank(signals, items, Answers[a]))
                BY <2>3, <3>2 DEF RerankStep
            <3>6. a \in DOMAIN Answers
                BY <3>5 DEF CallInv, IsWorld
            <3>7. PICK more : more = Rerank(signals, items, Answers[a])
                OBVIOUS
            <3>8. PICK after, ranked : after = more.signals /\ ranked = more.items
                OBVIOUS
            <3>9. /\ Items(ranked) /\ Ids(ranked) = Ids(items)
                  /\ \A R : Once(signals, R) /\ Once(items, R) => Once(after, R) /\ Once(ranked, R)
                BY <3>4, <3>6, <3>7, <3>8, RerankRows
            <3>10. ToSet(IdsOf(ranked)) = ToSet(IdsOf(items))
                <4>1. ToSet(IdsOf(ranked)) = Ids(ranked)
                    BY <3>9, IdRows DEF Items
                <4>2. ToSet(IdsOf(items)) = Ids(items)
                    BY <3>4, IdRows DEF Items
                <4> QED BY <3>9, <4>1, <4>2
            <3>11. Settled(ms, fs, ds, structural, after, ranked)
                BY <3>4, <3>9, <3>10 DEF Settled
            <3>12. job'.signals = after /\ job'.items = ranked
                <4>1. {"signals", "items"} \subseteq DOMAIN more
                    BY <3>7, RerankFields
                <4>2. Gather(more)
                    BY <3>5, <3>7
                <4> QED BY <3>8, <4>1, <4>2, Gathers
            <3> QED BY <1>0, <3>1, <3>3, <3>11, <3>12
        <2>4. CASE CompressStep
            <3>1. /\ {"signals", "items", "memories", "files", "diffs", "structural"} \subseteq DOMAIN job
                  /\ pc # "rerank"
                BY <2>1, <2>4, Stations, FieldsAt DEF CompressStep
            <3>2. PICK items, kept, dropped :
                     /\ items = job.items /\ kept = Trim(items)
                     /\ dropped = Where(items, LAMBDA x : ~Contains(IdsOf(kept), x.id))
                OBVIOUS
            <3>3. Items(items)
                BY <3>1, <3>2 DEF SignalsInv, Items, Has
            <3>4. Divided(items, kept, dropped)
                BY <3>2, <3>3, TrimDivides DEF Where
            <3>5. PICK reply, bundle : Gather(Over([bundle |-> bundle], Compress(items, reply)))
                BY <2>4, <3>2 DEF CompressStep
            <3>6. PICK new, old, more : /\ new = [bundle |-> bundle] /\ old = Compress(items, reply)
                                        /\ more = Over(new, old)
                OBVIOUS
            <3>7. /\ DOMAIN new = {"bundle"} /\ DOMAIN old = {"context", "kept", "dropped"}
                  /\ old.kept = kept /\ old.dropped = dropped
                BY <3>2, <3>6 DEF Compress
            <3>8. /\ {"kept", "dropped"} \subseteq DOMAIN more
                  /\ more.kept = kept /\ more.dropped = dropped
                BY <3>6, <3>7 DEF Over
            <3>9. job'.kept = kept /\ job'.dropped = dropped
                BY <3>5, <3>6, <3>8, Gathers
            <3>10. \A f \in {"signals", "items", "memories", "files", "diffs", "structural"} : job'[f] = job[f]
                BY <2>1, <3>1
            <3>11. Settled(job'.memories, job'.files, job'.diffs, job'.structural, job'.signals, job'.items)
                BY <1>0, <3>1, <3>10 DEF Has
            <3> QED BY <1>0, <3>2, <3>4, <3>9, <3>10, <3>11
        <2>5. CASE ~Assemble /\ ~RerankStep /\ ~CompressStep
            <3>1. pc \notin {"assemble", "rerank", "compress"}
                BY <1>2, <2>5
                   DEF Step, Embed, MemoriesStep, FilesStep, DiffsStep, StructuralStep, Probe,
                       Persist, Decide, Sources
            <3>2. "items" \in DOMAIN job' =>
                     {"signals", "items", "memories", "files", "diffs", "structural"} \subseteq DOMAIN job
                BY <2>0, <2>1, <3>1, Stations, FieldsAt
            <3>3. "kept" \in DOMAIN job' => {"items", "kept", "dropped"} \subseteq DOMAIN job
                BY <2>0, <2>1, <3>1, Stations, FieldsAt
            <3>4. ASSUME "items" \in DOMAIN job'
                  PROVE  Settled(job'.memories, job'.files, job'.diffs, job'.structural,
                                 job'.signals, job'.items)
                <4>1. \A f \in {"signals", "items", "memories", "files", "diffs", "structural"} :
                         job'[f] = job[f]
                    BY <2>1, <3>1, <3>2, <3>4
                <4> QED BY <1>0, <3>2, <3>4, <4>1 DEF Has
            <3>5. ASSUME "kept" \in DOMAIN job' PROVE Divided(job'.items, job'.kept, job'.dropped)
                <4>1. \A f \in {"items", "kept", "dropped"} : job'[f] = job[f]
                    BY <2>1, <3>1, <3>3, <3>5
                <4> QED BY <1>0, <3>3, <3>5, <4>1 DEF Has
            <3> QED BY <1>0, <3>4, <3>5
        <2> QED BY <2>2, <2>3, <2>4, <2>5
    <1>3. CASE Return \/ Abort
        BY <1>0, <1>3 DEF Return, Abort, Done, NoJob
    <1>4. CASE ChangeConstraint \/ ChangeSource \/ UNCHANGED vars
        <2>1. UNCHANGED job
            BY <1>4 DEF ChangeConstraint, ChangeSource, vars
        <2> QED BY <1>0, <2>1 DEF Has
    <1> QED BY <1>1, <1>2, <1>3, <1>4 DEF Next, Step

-----------------------------------------------------------------------------
(* What is sent *)

LEMMA InitPrompt == Init => PromptIsFull
    BY DEF Init, PromptIsFull, Has, NoJob

LEMMA PromptSays == PromptIsFull <=> (Has("kept") => Full(job.items, job.kept, job.dropped))
    BY DEF PromptIsFull, Full

LEMMA StepPrompt ==
    TypeOK /\ CallInv /\ SignalsInv /\ PromptIsFull /\ [Next]_vars => PromptIsFull'
    <1> SUFFICES ASSUME TypeOK, CallInv, SignalsInv, PromptIsFull, [Next]_vars PROVE PromptIsFull'
        OBVIOUS
    <1> USE DEF register, tables
    <1>0. /\ Has("kept") => Full(job.items, job.kept, job.dropped)
          /\ PromptIsFull' <=> ("kept" \in DOMAIN job' => Full(job'.items, job'.kept, job'.dropped))
        BY PromptSays DEF Has, PromptIsFull, Full
    <1> HIDE DEF PromptIsFull
    <1>1. ASSUME NEW req \in world.requests, Call(req) PROVE PromptIsFull'
        <2>1. job' = [req |-> req]
            BY <1>1 DEF Call
        <2>2. DOMAIN job' = {"req"}
            BY <2>1
        <2> QED BY <1>0, <2>2
    <1>2. CASE Step /\ ~Return
        <2>0. pc \in Stages
            BY <1>2, StepAdds, Stations
        <2>1. /\ DOMAIN job = Gathered[pc] /\ DOMAIN job' = Gathered[pc'] /\ pc' = After[pc]
              /\ \A f \in DOMAIN job : (pc = "rerank" /\ f \in {"signals", "items"}) \/ job'[f] = job[f]
            BY <1>2, <2>0, StepGathers DEF CallInv
        <2>2. CASE CompressStep
            <3>1. "items" \in DOMAIN job /\ Has("signals") /\ job'.items = job.items
                BY <2>1, <2>2, Stations, FieldsAt DEF CompressStep, Has
            <3>2. PICK items, kept, dropped :
                     /\ items = job.items /\ kept = Trim(items)
                     /\ dropped = Where(items, LAMBDA x : ~Contains(IdsOf(kept), x.id))
                OBVIOUS
            <3>3. Items(items)
                BY <3>1, <3>2 DEF SignalsInv, Items
            <3>4. Full(items, kept, dropped)
                BY <3>2, <3>3, TrimFills DEF Where
            <3>5. PICK reply, bundle : Gather(Over([bundle |-> bundle], Compress(items, reply)))
                BY <2>2, <3>2 DEF CompressStep
            <3>6. PICK new, old, more : /\ new = [bundle |-> bundle] /\ old = Compress(items, reply)
                                        /\ more = Over(new, old)
                OBVIOUS
            <3>7. /\ DOMAIN new = {"bundle"} /\ DOMAIN old = {"context", "kept", "dropped"}
                  /\ old.kept = kept /\ old.dropped = dropped
                BY <3>2, <3>6 DEF Compress
            <3>8. /\ {"kept", "dropped"} \subseteq DOMAIN more
                  /\ more.kept = kept /\ more.dropped = dropped
                BY <3>6, <3>7 DEF Over
            <3>9. job'.kept = kept /\ job'.dropped = dropped
                BY <3>5, <3>6, <3>8, Gathers
            <3> QED BY <1>0, <3>1, <3>2, <3>4, <3>9
        <2>3. CASE ~CompressStep
            <3>1. "kept" \in DOMAIN job' => {"kept", "dropped", "items"} \subseteq DOMAIN job
                                            /\ pc # "rerank"
                BY <1>2, <2>0, <2>1, <2>3, Stations, FieldsAt
                   DEF Has, Step, Embed, MemoriesStep, FilesStep, DiffsStep, StructuralStep, Probe,
                       Assemble, RerankStep, Persist, Decide, Sources
            <3> QED BY <1>0, <2>1, <3>1 DEF Has
        <2> QED BY <2>2, <2>3
    <1>3. CASE Return \/ Abort
        BY <1>0, <1>3 DEF Return, Abort, Done, NoJob
    <1>4. CASE ChangeConstraint \/ ChangeSource \/ UNCHANGED vars
        <2>1. UNCHANGED job
            BY <1>4 DEF ChangeConstraint, ChangeSource, vars
        <2> QED BY <1>0, <2>1 DEF Has
    <1> QED BY <1>1, <1>2, <1>3, <1>4 DEF Next, Step

-----------------------------------------------------------------------------
(* The stored briefs and their decisions *)

\* A brief as it was when it was stored.
Whole(brief) ==
    /\ DOMAIN brief = Gathered["persist"]
    /\ Faithful(brief)
    /\ brief.diffs = Read(brief, RetrieveDiffs(world, brief.req))
    /\ ToSet(IdsOf(brief.signals)) = ToSet(Retrieved(brief))

LEMMA InitStored == Init => StoredInv
    <1> SUFFICES ASSUME Init PROVE StoredInv OBVIOUS
    <1>1. briefs = <<>> /\ decisions = <<>> /\ answered = {} /\ calls = 0 /\ pc = "idle"
        BY DEF Init
    <1>2. <<>> \in Seq(ToSet(<<>>)) /\ Len(<<>>) = 0 /\ DOMAIN <<>> = {}
        OBVIOUS
    <1>3. "idle" \notin Stages
        BY Stations
    <1>4. Len(briefs) <= calls
        BY <1>1, <1>2
    <1> QED BY <1>1, <1>2, <1>3, <1>4 DEF StoredInv

\* A step that stores nothing.
LEMMA StoredKept ==
    ASSUME StoredInv, UNCHANGED <<world, briefs, decisions>>,
           Len(briefs) <= calls', answered' = answered,
           pc' \in Stages \ {"decide", "return"} => Len(briefs) < calls',
           pc' \in {"decide", "return"} => UNCHANGED <<pc, job>>
    PROVE  StoredInv'
    <1>1. /\ briefs' \in Seq(ToSet(briefs')) /\ decisions' \in Seq(ToSet(decisions'))
          /\ Len(briefs') <= calls'
          /\ pc' \in Stages \ {"decide", "return"} => Len(briefs') < calls'
        BY DEF StoredInv
    <1>2. ASSUME NEW b \in DOMAIN briefs PROVE Whole(briefs[b])'
        <2>1. PICK brief : brief = briefs[b]
            OBVIOUS
        <2>2. Whole(brief)
            BY <1>2, <2>1 DEF StoredInv, Whole
        <2>3. Whole(brief)'
            BY <2>2 DEF Whole, Faithful, Read, Retrieved, Mapped
        <2>4. briefs'[b] = brief
            BY <2>1
        <2> QED BY <2>3, <2>4 DEF Whole
    <1>3. /\ \A i \in DOMAIN decisions' : LET b == decisions'[i].brief IN
                b \in DOMAIN briefs' /\ decisions'[i] = DecisionRow(Over([id |-> b], briefs'[b]))
          /\ \A i, j \in DOMAIN decisions' : decisions'[i].brief = decisions'[j].brief => i = j
        BY DEF StoredInv
    <1>4. pc' \in {"decide", "return"} =>
             job'.id \in DOMAIN briefs' /\ job' = Over([id |-> job'.id], briefs'[job'.id])
        BY DEF StoredInv
    <1>5. (pc = "decide" => Decided(job.id) = {})' /\ (pc = "return" => Decided(job.id) # {})'
        BY DEF StoredInv, Decided
    <1>6. (\A b \in answered : b \in DOMAIN briefs /\ Decided(b) # {})'
        BY DEF StoredInv, Decided
    <1> QED BY <1>1, <1>2, <1>3, <1>4, <1>5, <1>6 DEF StoredInv, Whole

LEMMA PersistStored ==
    ASSUME TypeOK, CallInv, RetrievedInv, SignalsInv, StoredInv, Persist
    PROVE  StoredInv'
    <1> USE DEF register, tables
    <1> DEFINE k == Len(briefs) + 1
    <1>1. pc = "persist" /\ briefs' = Append(briefs, job) /\ Gather([id |-> k])
          /\ UNCHANGED <<world, decisions, answered, calls>>
        BY DEF Persist
    <1>2. DOMAIN job = Gathered["persist"]
        BY <1>1 DEF CallInv
    <1>3. /\ briefs' \in Seq(ToSet(briefs'))
          /\ Len(briefs) \in Nat /\ Len(briefs') = k
          /\ DOMAIN briefs' = DOMAIN briefs \cup {k} /\ k \notin DOMAIN briefs
          /\ briefs'[k] = job
          /\ \A b \in DOMAIN briefs : briefs'[b] = briefs[b]
        BY <1>1, Appended DEF StoredInv
    <1>4. pc' = "decide" /\ job' = Over([id |-> k], job)
        BY <1>1, Stations DEF Gather
    <1>5. job'.id = k
        BY <1>4 DEF Over
    <1> HIDE DEF k
    <1>6. Len(briefs') <= calls'
        <2>1. Len(briefs) < calls /\ calls \in Nat
            BY <1>1, Stations DEF StoredInv, TypeOK, CallInv, IsWorld
        <2> QED BY <1>1, <1>3, <2>1 DEF k
    <1>7. ASSUME NEW b \in DOMAIN briefs' PROVE Whole(briefs[b])'
        <2>1. PICK brief : brief = briefs'[b]
            OBVIOUS
        <2>2. Whole(brief)
            <3>1. CASE b = k
                <4>1. brief = job
                    BY <1>3, <2>1, <3>1
                <4>2. {"memories", "diffs", "signals"} \subseteq DOMAIN job
                    BY <1>2, FieldsAt
                <4>3. Whole(job)
                    BY <1>2, <4>2 DEF RetrievedInv, SignalsInv, Has, Whole
                <4> QED BY <4>1, <4>3
            <3>2. CASE b \in DOMAIN briefs
                BY <1>3, <2>1, <3>2 DEF StoredInv, Whole
            <3> QED BY <1>3, <3>1, <3>2
        <2>3. Whole(brief)'
            BY <1>1, <2>2 DEF Whole, Faithful, Read, Retrieved, Mapped
        <2> QED BY <2>1, <2>3 DEF Whole
    <1>8. ASSUME NEW i \in DOMAIN decisions
          PROVE  /\ decisions[i].brief \in DOMAIN briefs' /\ decisions[i].brief # k
                 /\ decisions[i] = DecisionRow(Over([id |-> decisions[i].brief],
                                                    briefs'[decisions[i].brief]))
        <2>1. PICK b \in DOMAIN briefs : b = decisions[i].brief
            BY DEF StoredInv
        <2>2. decisions[i] = DecisionRow(Over([id |-> b], briefs[b]))
            BY <2>1 DEF StoredInv
        <2>3. briefs'[b] = briefs[b] /\ b # k /\ b \in DOMAIN briefs'
            BY <1>3
        <2> QED BY <2>1, <2>2, <2>3
    <1>9. (Decided(job.id) = {})'
        BY <1>1, <1>5, <1>8 DEF Decided
    <1>10. (\A b \in answered : b \in DOMAIN briefs /\ Decided(b) # {})'
        BY <1>1, <1>3 DEF StoredInv, Decided
    <1>11. /\ decisions' \in Seq(ToSet(decisions'))
           /\ \A i, j \in DOMAIN decisions' : decisions'[i].brief = decisions'[j].brief => i = j
        BY <1>1 DEF StoredInv
    <1> QED BY <1>1, <1>3, <1>4, <1>5, <1>6, <1>7, <1>8, <1>9, <1>10, <1>11 DEF StoredInv, Whole

LEMMA DecideStored ==
    ASSUME StoredInv, Decide
    PROVE  StoredInv'
    <1> USE DEF register, tables
    <1> DEFINE k == Len(decisions) + 1
    <1>1. /\ pc = "decide" /\ decisions' = Append(decisions, DecisionRow(job)) /\ Gather(NoJob)
          /\ UNCHANGED <<world, briefs, answered, calls>>
        BY DEF Decide
    <1>2. /\ decisions' \in Seq(ToSet(decisions'))
          /\ DOMAIN decisions' = DOMAIN decisions \cup {k} /\ k \notin DOMAIN decisions
          /\ decisions'[k] = DecisionRow(job)
          /\ \A i \in DOMAIN decisions : decisions'[i] = decisions[i]
        BY <1>1, Appended DEF StoredInv
    <1> HIDE DEF k
    <1>3. PICK id : id = job.id
        OBVIOUS
    <1>4. id \in DOMAIN briefs /\ job = Over([id |-> id], briefs[id])
        BY <1>1, <1>3 DEF StoredInv
    <1>5. job = [f \in DOMAIN job |-> job[f]]
        BY <1>4, OverFields
    <1>6. pc' = "return" /\ job' = job
        BY <1>1, <1>5, Stations DEF Gather, Over, NoJob
    <1>7. DecisionRow(job).brief = id
        BY <1>3 DEF DecisionRow
    <1>8. \A i \in DOMAIN decisions : decisions[i].brief # id
        BY <1>1, <1>3 DEF StoredInv, Decided
    <1>9. ASSUME NEW b \in DOMAIN briefs PROVE Whole(briefs[b])'
        <2>1. PICK brief : brief = briefs[b]
            OBVIOUS
        <2>2. Whole(brief)
            BY <2>1 DEF StoredInv, Whole
        <2>3. Whole(brief)'
            BY <1>1, <2>2 DEF Whole, Faithful, Read, Retrieved, Mapped
        <2>4. briefs'[b] = brief
            BY <1>1, <2>1
        <2> QED BY <2>3, <2>4 DEF Whole
    <1>10. ASSUME NEW i \in DOMAIN decisions'
           PROVE  /\ decisions'[i].brief \in DOMAIN briefs
                  /\ decisions'[i] = DecisionRow(Over([id |-> decisions'[i].brief],
                                                      briefs[decisions'[i].brief]))
        <2>1. CASE i = k
            <3>1. PICK d : d = DecisionRow(job)
                OBVIOUS
            <3>2. decisions'[i] = d /\ d.brief = id
                BY <1>2, <1>7, <2>1, <3>1
            <3>3. d = DecisionRow(Over([id |-> id], briefs[id]))
                BY <1>4, <3>1
            <3> QED BY <1>4, <3>2, <3>3
        <2>2. CASE i \in DOMAIN decisions
            <3>1. decisions'[i] = decisions[i]
                BY <1>2, <2>2
            <3> QED BY <2>2, <3>1 DEF StoredInv
        <2> QED BY <1>2, <2>1, <2>2
    <1>11. \A i, j \in DOMAIN decisions' : decisions'[i].brief = decisions'[j].brief => i = j
        <2> SUFFICES ASSUME NEW i \in DOMAIN decisions', NEW j \in DOMAIN decisions',
                            decisions'[i].brief = decisions'[j].brief
                     PROVE  i = j
            OBVIOUS
        <2>1. \A n \in DOMAIN decisions : decisions'[n].brief # id /\ decisions'[n].brief = decisions[n].brief
            BY <1>2, <1>8
        <2>2. decisions'[k].brief = id
            BY <1>2, <1>7
        <2> QED BY <1>2, <2>1, <2>2 DEF StoredInv
    <1>12. (Decided(job.id) # {})'
        <2>1. k \in DOMAIN decisions' /\ decisions'[k].brief = job'.id
            BY <1>2, <1>3, <1>6, <1>7
        <2> QED BY <2>1 DEF Decided
    <1>13. (\A b \in answered : b \in DOMAIN briefs /\ Decided(b) # {})'
        <2>1. ASSUME NEW b \in answered PROVE b \in DOMAIN briefs /\ (Decided(b) # {})'
            <3>1. PICK i \in DOMAIN decisions : decisions[i].brief = b
                BY DEF StoredInv, Decided
            <3>2. i \in DOMAIN decisions' /\ decisions'[i].brief = b
                BY <1>2, <3>1
            <3> QED BY <3>2 DEF StoredInv, Decided
        <2> QED BY <1>1, <2>1
    <1>14. /\ briefs' \in Seq(ToSet(briefs')) /\ Len(briefs') <= calls'
           /\ job'.id \in DOMAIN briefs' /\ job' = Over([id |-> job'.id], briefs'[job'.id])
        BY <1>1, <1>3, <1>4, <1>6 DEF StoredInv
    <1> QED BY <1>1, <1>2, <1>6, <1>9, <1>10, <1>11, <1>12, <1>13, <1>14 DEF StoredInv, Whole

LEMMA StepStored ==
    TypeOK /\ CallInv /\ RetrievedInv /\ SignalsInv /\ StoredInv /\ [Next]_vars => StoredInv'
    <1> SUFFICES ASSUME TypeOK, CallInv, RetrievedInv, SignalsInv, StoredInv, [Next]_vars
                 PROVE  StoredInv'
        OBVIOUS
    <1> USE DEF register, tables
    <1>0. calls \in Nat /\ Len(briefs) \in Nat /\ Len(briefs) <= calls
        <2>1. Len(briefs) \in Nat
            BY LenProperties DEF StoredInv
        <2> QED BY <2>1 DEF TypeOK, CallInv, IsWorld, StoredInv
    <1>1. ASSUME NEW req \in world.requests, Call(req) PROVE StoredInv'
        <2>1. UNCHANGED <<world, briefs, decisions, answered>> /\ calls' = calls + 1 /\ pc' = "embed"
            BY <1>1 DEF Call
        <2>2. Len(briefs) < calls'
            BY <1>0, <2>1
        <2> QED BY <1>0, <2>1, <2>2, StoredKept
    <1>2. CASE Persist
        BY <1>2, PersistStored
    <1>3. CASE Decide
        BY <1>3, DecideStored
    <1>4. CASE Step /\ ~Return /\ ~Persist /\ ~Decide
        <2>1. pc \in Stages
            BY <1>4, StepAdds, Stations
        <2>2. pc' = After[pc] /\ UNCHANGED Around
            BY <1>4, <2>1, StepGathers
        <2>3. pc \notin {"persist", "decide", "return"} /\ UNCHANGED <<briefs, decisions>>
            BY <1>4 DEF Step, Embed, MemoriesStep, FilesStep, DiffsStep, StructuralStep, Probe,
                        Assemble, RerankStep, CompressStep, Sources
        <2>4. Len(briefs) < calls
            BY <2>1, <2>3 DEF StoredInv
        <2>5. pc' \notin {"decide", "return"}
            BY <2>1, <2>2, <2>3, Stations
        <2> QED BY <1>0, <2>2, <2>3, <2>4, <2>5, StoredKept DEF Around
    <1>5. CASE Return
        <2>1. pc = "return" /\ pc' = "idle" /\ answered' = answered \cup {job.id}
              /\ UNCHANGED <<world, briefs, decisions, calls>>
            BY <1>5 DEF Return, Done
        <2>2. job.id \in DOMAIN briefs /\ Decided(job.id) # {}
            BY <2>1 DEF StoredInv
        <2>3. (\A b \in answered : b \in DOMAIN briefs /\ Decided(b) # {})'
            BY <2>1, <2>2 DEF StoredInv, Decided
        <2>4. ASSUME NEW b \in DOMAIN briefs PROVE Whole(briefs[b])'
            <3>1. PICK brief : brief = briefs[b]
                OBVIOUS
            <3>2. Whole(brief)
                BY <3>1 DEF StoredInv, Whole
            <3>3. Whole(brief)'
                BY <2>1, <3>2 DEF Whole, Faithful, Read, Retrieved, Mapped
            <3>4. briefs'[b] = brief
                BY <2>1, <3>1
            <3> QED BY <3>3, <3>4 DEF Whole
        <2>5. /\ briefs' \in Seq(ToSet(briefs')) /\ decisions' \in Seq(ToSet(decisions'))
              /\ Len(briefs') <= calls'
              /\ \A i \in DOMAIN decisions' : LET b == decisions'[i].brief IN
                    b \in DOMAIN briefs' /\ decisions'[i] = DecisionRow(Over([id |-> b], briefs'[b]))
              /\ \A i, j \in DOMAIN decisions' : decisions'[i].brief = decisions'[j].brief => i = j
            BY <2>1 DEF StoredInv
        <2>6. pc' \notin Stages
            BY <2>1, Stations
        <2> QED BY <2>1, <2>3, <2>4, <2>5, <2>6 DEF StoredInv, Whole
    <1>6. CASE Abort
        <2>1. pc' = "idle" /\ UNCHANGED <<world, briefs, decisions, answered, calls>>
            BY <1>6 DEF Abort, Done
        <2>2. pc' \notin Stages
            BY <2>1, Stations
        <2> QED BY <1>0, <2>1, <2>2, StoredKept
    <1>7. CASE ChangeConstraint \/ ChangeSource \/ UNCHANGED vars
        <2>1. UNCHANGED <<world, pc, job, briefs, decisions, answered, calls>>
            BY <1>7 DEF ChangeConstraint, ChangeSource, vars
        <2>2. pc \in Stages \ {"decide", "return"} => Len(briefs) < calls
            BY DEF StoredInv
        <2> QED BY <1>0, <2>1, <2>2, StoredKept
    <1> QED BY <1>1, <1>2, <1>3, <1>4, <1>5, <1>6, <1>7 DEF Next, Step

-----------------------------------------------------------------------------
(* The theorems *)

\* The inductive invariant: what a call has gathered at each stage, where it
\* came from, and what of it was stored, holds in every reachable state.
THEOREM Invariant == Spec => []IInv
    <1>1. Init => IInv
        BY InitType, InitCall, InitRegister, InitRetrieved, InitLearned, InitSignals,
           InitPlaced, InitPrompt, InitStored DEF IInv
    <1>2. IInv /\ [Next]_vars => IInv'
        <2> SUFFICES ASSUME IInv, [Next]_vars PROVE IInv'
            OBVIOUS
        <2>1. TypeOK /\ CallInv /\ RegisterInv /\ RetrievedInv /\ LearnedInv
              /\ SignalsInv /\ PlacedInv /\ PromptIsFull /\ StoredInv
            BY DEF IInv
        <2>2. TypeOK'
            BY <2>1, StepType
        <2>3. CallInv'
            BY <2>1, <2>2, StepCall
        <2>4. RegisterInv'
            BY <2>1, StepRegister
        <2>5. RetrievedInv'
            BY <2>1, StepRetrieved
        <2>6. LearnedInv'
            BY <2>1, StepLearned
        <2>7. SignalsInv'
            BY <2>1, StepSignals
        <2>8. PromptIsFull'
            BY <2>1, StepPrompt
        <2>9. StoredInv'
            BY <2>1, StepStored
        <2>10. PlacedInv'
            BY <2>1, StepPlaced
        <2> QED BY <2>2, <2>3, <2>4, <2>5, <2>6, <2>7, <2>8, <2>9, <2>10 DEF IInv
    <1> QED BY <1>1, <1>2, PTL DEF Spec

\* The types, and that a decision or an answer names a stored brief
\* (builder.py:250-385).
THEOREM TypeCorrect == Spec => []TypeOK
    <1>1. IInv => TypeOK
        BY DEF IInv
    <1> QED BY <1>1, Invariant, PTL

\* Whatever the sizes and the limits, the prompt respects all three limits and
\* nothing that was dropped would still fit; only when no item fits is one too
\* large sent (compressor.py:126-167).
THEOREM PromptFull == Spec => []PromptIsFull
    <1>1. IInv => PromptIsFull
        BY DEF IInv
    <1> QED BY <1>1, Invariant, PTL

\* What the rules among the learned constraints look like.
LEMMA LearnedRows ==
    ASSUME TypeOK, CallInv, LearnedInv, Has("learned")
    PROVE  /\ Constraints(job.learned)
           /\ \A c \in ToSet(job.learned) :
                 c.id \in window.ever /\ InTenant(c, job.req.tenant)
           /\ \A r \in Rules : active[r] \in window.always /\ InForce(r, job.req) =>
                 \E c \in ToSet(job.learned) : c.id = active[r] /\ c.kind = r.kind /\ c.target = r.target
    <1>1. ASSUME NEW r \in Rules, NEW i
          PROVE  LET c == Over([id |-> i], r)
                 IN  /\ DOMAIN c = {"id", "kind", "scope", "tenant", "target"}
                     /\ c.id = i /\ c.kind = r.kind /\ c.target = r.target /\ c.tenant = r.tenant
                     /\ r.kind \in {"forbidden", "invariant", "known_issue"}
        <2>1. r = [kind |-> r.kind, scope |-> r.scope, tenant |-> r.tenant, target |-> r.target]
              /\ r.kind \in {"forbidden", "invariant", "known_issue"}
            BY BuilderAssumption
        <2>2. DOMAIN r = {"kind", "scope", "tenant", "target"}
            BY <2>1
        <2> QED BY <2>1, <2>2 DEF Over
    <1>2. PICK learned, req : learned = job.learned /\ req = job.req
        OBVIOUS
    <1>3. /\ learned \in Seq(ToSet(learned))
          /\ \A c \in ToSet(learned) : \E i \in window.ever, r \in Rules :
                InForce(r, req) /\ c = Over([id |-> i], r)
          /\ \A r \in Rules : active[r] \in window.always /\ InForce(r, req) =>
                Over([id |-> active[r]], r) \in ToSet(learned)
        BY <1>2 DEF LearnedInv, Learned
    <1>4. ASSUME NEW c \in ToSet(learned)
          PROVE  /\ {"id", "kind", "target"} \subseteq DOMAIN c
                 /\ c.id \in Int /\ c.id \in window.ever
                 /\ c.kind \in {"forbidden", "invariant", "known_issue"}
                 /\ InTenant(c, req.tenant)
        <2>1. PICK i \in window.ever, r \in Rules : InForce(r, req) /\ c = Over([id |-> i], r)
            BY <1>3
        <2>2. i \in Int
            BY DEF CallInv, Seen
        <2>3. /\ DOMAIN c = {"id", "kind", "scope", "tenant", "target"}
              /\ c.id = i /\ c.kind = r.kind /\ c.tenant = r.tenant
              /\ r.kind \in {"forbidden", "invariant", "known_issue"}
            BY <1>1, <2>1
        <2> QED BY <2>1, <2>2, <2>3 DEF InForce, InTenant
    <1>5. Constraints(learned)
        BY <1>3, <1>4 DEF Constraints, Table
    <1>6. ASSUME NEW r \in Rules, active[r] \in window.always, InForce(r, req)
          PROVE  \E c \in ToSet(learned) : c.id = active[r] /\ c.kind = r.kind /\ c.target = r.target
        <2>1. PICK i : i = active[r]
            OBVIOUS
        <2>2. Over([id |-> i], r) \in ToSet(learned)
            BY <1>3, <1>6, <2>1
        <2> QED BY <1>1, <2>1, <2>2
    <1> QED BY <1>2, <1>4, <1>5, <1>6

\* For a request of a tenant, every memory, file signal, commit and constraint
\* of the brief is that tenant's (tenant.py:22-35 and the four queries).
THEOREM NothingForeign == Spec => []NoForeignRows
    <1>1. IInv => NoForeignRows
        <2> SUFFICES ASSUME IInv, Has("learned"), job.req.tenant # None
                     PROVE  \A row \in ToSet(job.memories) \cup ToSet(job.files)
                                          \cup ToSet(job.diffs) \cup ToSet(job.learned) :
                               row.tenant = job.req.tenant
            BY DEF NoForeignRows
        <2>1. TypeOK /\ CallInv /\ RetrievedInv /\ LearnedInv
            BY DEF IInv
        <2>2. {"req", "memories", "governor", "files", "diffs", "structural"} \subseteq DOMAIN job
            BY <2>1, Together
        <2>3. OwnRows(job.memories, job.req) /\ OwnRows(job.files, job.req) /\ OwnRows(job.diffs, job.req)
            BY <2>1, <2>2, ReadRows
        <2>4. \A c \in ToSet(job.learned) : InTenant(c, job.req.tenant)
            BY <2>1, LearnedRows
        <2> QED BY <2>3, <2>4 DEF OwnRows, InTenant
    <1> QED BY <1>1, Invariant, PTL

\* A constraint that was in force during the whole call is a hard constraint
\* of the brief, is in its bundle, and keeps the edit it forbids from being
\* allowed; what the brief shows was in force at some moment of the call,
\* whatever was added and retired meanwhile (constraints.py:83-122).
THEOREM ConstraintsAreShown == Spec => []ShowsConstraintsInForce
    <1>1. IInv => ShowsConstraintsInForce
        <2> SUFFICES ASSUME IInv, Has("hard")
                     PROVE  ShowsConstraintsInForce
            BY DEF ShowsConstraintsInForce
        <2>1. TypeOK /\ CallInv /\ RetrievedInv /\ LearnedInv
            BY DEF IInv
        <2>2. Has("learned")
            BY <2>1, Together
        <2>3. {"req", "memories", "governor", "files", "diffs", "structural"} \subseteq DOMAIN job
            BY <2>1, <2>2, Together
        <2>4. PICK learned, ms, policies :
                 /\ learned = job.learned /\ ms = job.memories
                 /\ policies = PoliciesFor(world.policies, job.req.scope)
            OBVIOUS
        <2>5. Constraints(learned) /\ Memories(ms)
            BY <2>1, <2>2, <2>3, <2>4, LearnedRows, ReadRows
        <2>6. Policies(policies)
            BY <2>1, <2>4, PolicyRows DEF CallInv
        <2>7. PICK hard, allowed :
                 /\ hard = job.hard /\ hard = HardConstraints(learned, policies, ms)
                 /\ allowed = job.allowed /\ allowed = AllowedEdits(learned, policies)
            BY <2>1, <2>2, <2>4 DEF LearnedInv
        <2>8. \A e : e \in ToSet(hard) /\ e[1] = "constraint"
                       <=> \E c \in ToSet(learned) : e = Entry("constraint", c.id)
            BY <2>5, <2>6, <2>7, HardLayers
        <2>9. \A e \in ToSet(allowed) : e \notin Blocked(learned)
            BY <2>6, <2>7, AllowedRows
        <2>10. Shown("constraint") = {c.id : c \in ToSet(learned)}
            <3>1. Shown("constraint") = {e[2] : e \in {x \in ToSet(hard) : x[1] = "constraint"}}
                BY <2>7 DEF Shown
            <3>2. \A c : Entry("constraint", c.id)[2] = c.id
                BY DEF Entry
            <3>3. ASSUME NEW e \in ToSet(hard), e[1] = "constraint"
                  PROVE  e[2] \in {c.id : c \in ToSet(learned)}
                BY <2>8, <3>2, <3>3
            <3>4. ASSUME NEW c \in ToSet(learned)
                  PROVE  \E e \in ToSet(hard) : e[1] = "constraint" /\ e[2] = c.id
                <4>1. PICK e : e = Entry("constraint", c.id)
                    OBVIOUS
                <4>2. e \in ToSet(hard) /\ e[1] = "constraint"
                    BY <2>8, <4>1
                <4> QED BY <3>2, <4>1, <4>2
            <3> QED BY <3>1, <3>3, <3>4
        <2>11. Shown("constraint") \subseteq window.ever
            BY <2>1, <2>2, <2>4, <2>10, LearnedRows
        <2>12. ASSUME NEW r \in Rules, active[r] \in window.always, Applies(r, job.req)
               PROVE  /\ active[r] \in Shown("constraint")
                      /\ Has("bundle") => \E i \in DOMAIN job.bundle.constraints :
                                             job.bundle.constraints[i].id = active[r]
                      /\ r.kind # "known_issue" => r.target \notin ToSet(job.allowed)
            <3>1. InForce(r, job.req)
                BY <2>12 DEF Applies, InForce, InTenant
            <3>2. PICK c \in ToSet(learned) : c.id = active[r] /\ c.kind = r.kind /\ c.target = r.target
                BY <2>1, <2>2, <2>4, <2>12, <3>1, LearnedRows
            <3>3. ASSUME Has("bundle")
                  PROVE  \E i \in DOMAIN job.bundle.constraints : job.bundle.constraints[i].id = active[r]
                <4>1. job.bundle.constraints =
                        [i \in DOMAIN learned |-> [id |-> learned[i].id, kind |-> learned[i].kind,
                                                   target |-> learned[i].target]]
                    BY <2>1, <2>4, <3>3 DEF LearnedInv, EvidenceBundle, Mapped
                <4>2. PICK i \in DOMAIN learned : learned[i] = c
                    BY DEF ToSet
                <4> QED BY <3>2, <4>1, <4>2
            <3>4. ASSUME r.kind # "known_issue" PROVE r.target \notin ToSet(allowed)
                <4>1. r.kind \in {"forbidden", "invariant"}
                    BY <3>4, BuilderAssumption
                <4>2. PICK i \in DOMAIN learned : learned[i] = c
                    BY DEF ToSet
                <4>3. r.target \in Blocked(learned)
                    BY <3>2, <4>1, <4>2 DEF Blocked
                <4> QED BY <2>9, <4>3
            <3> QED BY <2>7, <2>10, <3>2, <3>3, <3>4
        <2> QED BY <2>11, <2>12 DEF ShowsConstraintsInForce
    <1> QED BY <1>1, Invariant, PTL

\* A severe finding about a retrieved memory's commit is a hard constraint of
\* the brief unless the cap was spent on findings at least as severe, and every
\* violation of the architecture is one, however the findings were ordered and
\* whichever memories carried them (findings.py:21-52, builder.py:155-172).
THEOREM SevereShown == Spec => []SevereFindingsShown
    <1>1. IInv => SevereFindingsShown
        <2> SUFFICES ASSUME IInv, Has("hard")
                     PROVE  SevereFindingsShown
            BY DEF SevereFindingsShown
        <2>1. TypeOK /\ CallInv /\ RetrievedInv /\ LearnedInv
            BY DEF IInv
        <2>2. Has("learned")
            BY <2>1, Together
        <2>3. {"req", "memories", "governor", "files", "diffs", "structural"} \subseteq DOMAIN job
            BY <2>1, <2>2, Together
        <2>4. PICK learned, ms, policies :
                 /\ learned = job.learned /\ ms = job.memories
                 /\ policies = PoliciesFor(world.policies, job.req.scope)
            OBVIOUS
        <2>5. Constraints(learned) /\ Memories(ms)
            BY <2>1, <2>2, <2>3, <2>4, LearnedRows, ReadRows
        <2>6. Policies(policies)
            BY <2>1, <2>4, PolicyRows DEF CallInv
        <2>7. PICK hard : hard = job.hard /\ hard = HardConstraints(learned, policies, ms)
            BY <2>1, <2>2, <2>4 DEF LearnedInv
        <2>8. \A f \in ToSet(HardAdditions(ms)) : Entry("finding", f.id) \in ToSet(hard)
            BY <2>5, <2>6, <2>7, HardLayers
        <2>9. PICK shown : shown = Shown("finding")
            OBVIOUS
        <2>10. \A f \in ToSet(HardAdditions(ms)) : f.id \in shown
            <3> TAKE f \in ToSet(HardAdditions(ms))
            <3>1. PICK e : e = Entry("finding", f.id)
                OBVIOUS
            <3>2. e[1] = "finding" /\ e[2] = f.id
                BY <3>1 DEF Entry
            <3>3. e \in {x \in ToSet(job.hard) : x[1] = "finding"}
                BY <2>7, <2>8, <3>1, <3>2
            <3> QED BY <2>9, <3>2, <3>3 DEF Shown
        <2>11. ms = Remembered(world, job.req) /\ IsWorld(world)
            BY <2>1, <2>3, <2>4 DEF RetrievedInv, CallInv, Has, Faithful, Remembered
        <2>12. ASSUME NEW i \in DOMAIN ms
               PROVE  LET found == Reported(ms[i], "security") IN
                        /\ \A f \in ToSet(Reported(ms[i], "architecture")) : f.id \in shown
                        /\ \A f \in {x \in ToSet(found) : x.rank > 0} :
                             \/ f.id \in shown
                             \/ Cardinality({j \in DOMAIN found : found[j].rank >= f.rank /\ found[j].id \in shown})
                                  >= FindingCap["security"]
            <3>1. PICK m : m = ms[i]
                OBVIOUS
            <3>2. m \in ToSet(ms)
                BY <3>1 DEF ToSet
            <3>3. /\ m.findings = ExtractFindings(m.enrichment)
                  /\ \A k \in DOMAIN m.enrichment : Table(m.enrichment[k], {}, Texts \cup {"rank", "line"})
                BY <2>11, <3>2, RememberedFindings
            <3>4. PICK found, kept : found = Reported(m, "security") /\ kept = ToSet(FindingsOf(m, "security"))
                OBVIOUS
            <3>5. /\ ToSet(FindingsOf(m, "architecture")) = ToSet(Reported(m, "architecture"))
                  /\ Table(found, {}, Texts \cup {"rank", "line"})
                  /\ \A p \in DOMAIN found :
                       \/ found[p] \in kept
                       \/ /\ FindingCap["security"] \in Nat
                          /\ Cardinality({j \in DOMAIN found : found[j].rank >= found[p].rank
                                                                   /\ found[j] \in kept})
                               >= FindingCap["security"]
                BY <3>3, <3>4, CarriedFindings
            <3>6. /\ \A f \in kept : Severe(f) => f.id \in shown
                  /\ \A f \in ToSet(FindingsOf(m, "architecture")) : f.id \in shown
                BY <2>5, <2>10, <3>2, <3>4, HardFindings
            <3>7. \A j \in DOMAIN found : found[j].rank \in Int
                BY <3>5 DEF Table, ToSet
            <3>8. ASSUME NEW f \in ToSet(found), f.rank > 0
                  PROVE  \/ f.id \in shown
                         \/ Cardinality({j \in DOMAIN found : found[j].rank >= f.rank /\ found[j].id \in shown})
                              >= FindingCap["security"]
                <4>1. PICK p \in DOMAIN found : f = found[p]
                    BY DEF ToSet
                <4>2. CASE found[p] \in kept
                    BY <3>6, <3>7, <3>8, <4>1, <4>2 DEF Severe
                <4>3. CASE /\ FindingCap["security"] \in Nat
                           /\ Cardinality({j \in DOMAIN found : found[j].rank >= found[p].rank
                                                                    /\ found[j] \in kept})
                                >= FindingCap["security"]
                    <5>1. PICK K, S :
                             /\ K = {j \in DOMAIN found : found[j].rank >= f.rank /\ found[j] \in kept}
                             /\ S = {j \in DOMAIN found : found[j].rank >= f.rank /\ found[j].id \in shown}
                        OBVIOUS
                    <5>2. \A j \in K : found[j].id \in shown
                        BY <3>6, <3>7, <3>8, <4>1, <5>1 DEF Severe
                    <5>3. K \in SUBSET S
                        BY <5>1, <5>2
                    <5>4. IsFiniteSet(S)
                        <6>1. DOMAIN found = 1 .. Len(found) /\ Len(found) \in Nat
                            BY <3>5 DEF Table
                        <6>2. IsFiniteSet(1 .. Len(found))
                            BY <6>1, FS_Interval
                        <6>3. S \in SUBSET (1 .. Len(found))
                            BY <5>1, <6>1
                        <6> QED BY <6>2, <6>3, FS_Subset
                    <5>5. /\ IsFiniteSet(K) /\ Cardinality(K) <= Cardinality(S)
                        BY <5>3, <5>4, FS_Subset
                    <5>6. Cardinality(K) \in Nat /\ Cardinality(S) \in Nat
                        BY <5>4, <5>5, FS_CardinalityType
                    <5> QED BY <4>1, <4>3, <5>1, <5>5, <5>6
                <4> QED BY <3>5, <4>2, <4>3
            <3> QED BY <3>1, <3>4, <3>5, <3>6, <3>8
        <2> QED BY <2>4, <2>9, <2>12 DEF SevereFindingsShown
    <1> QED BY <1>1, Invariant, PTL

\* Whenever the call dies, a brief has at most one decision row and a returned
\* one has its own, which names what the brief retrieved and says of the
\* commits that they were read only if they were (decision_log_producer.py:24-58).
THEOREM DecidedOnce == Spec => []OneDecisionPerBrief
    <1>1. IInv => OneDecisionPerBrief
        <2> SUFFICES ASSUME IInv PROVE OneDecisionPerBrief
            OBVIOUS
        <2>1. StoredInv /\ TypeOK /\ CallInv
            BY DEF IInv
        <2>2. ASSUME NEW b \in DOMAIN briefs PROVE Cardinality(Decided(b)) <= 1
            <3>1. CASE Decided(b) = {}
                <4>1. Cardinality({}) = 0
                    BY FS_EmptySet
                <4> QED BY <3>1, <4>1
            <3>2. CASE Decided(b) # {}
                <4>1. PICK i : i \in Decided(b)
                    BY <3>2
                <4>2. \A j \in Decided(b) : j = i
                    BY <2>1, <4>1 DEF StoredInv, Decided
                <4>3. Decided(b) = {i}
                    BY <4>1, <4>2
                <4>4. Cardinality({i}) = 1
                    BY FS_Singleton
                <4> QED BY <4>3, <4>4
            <3> QED BY <3>1, <3>2
        <2>3. \A b \in answered : Decided(b) # {}
            BY <2>1 DEF StoredInv
        <2>4. Cardinality({b \in DOMAIN briefs : Decided(b) = {}} \cup answered) <= calls
            <3> DEFINE S == {b \in DOMAIN briefs : Decided(b) = {}} \cup answered
            <3>1. PICK n : n = Len(briefs)
                OBVIOUS
            <3>2. n \in Nat /\ DOMAIN briefs = 1 .. n /\ n <= calls /\ calls \in Nat
                <4>1. n \in Nat /\ DOMAIN briefs = 1 .. n
                    BY <2>1, <3>1, LenProperties DEF StoredInv
                <4> QED BY <2>1, <3>1, <4>1 DEF StoredInv, TypeOK, CallInv, IsWorld
            <3>3. S \in SUBSET (1 .. n)
                BY <2>1, <3>2 DEF StoredInv
            <3> HIDE DEF S
            <3>4. IsFiniteSet(1 .. n) /\ Cardinality(1 .. n) = IF 1 > n THEN 0 ELSE n - 1 + 1
                BY <3>2, FS_Interval
            <3>5. IsFiniteSet(S) /\ Cardinality(S) <= Cardinality(1 .. n)
                BY <3>3, <3>4, FS_Subset
            <3>6. Cardinality(S) \in Nat
                BY <3>5, FS_CardinalityType
            <3>7. Cardinality(S) <= calls
                BY <3>2, <3>4, <3>5, <3>6
            <3> QED BY <3>7 DEF S
        <2>5. ASSUME NEW i \in DOMAIN decisions
              PROVE  LET brief == briefs[decisions[i].brief]
                     IN  /\ ToSet(decisions[i].evidence)
                              = ToSet(IdsOf(brief.memories) \o IdsOf(brief.files) \o IdsOf(brief.diffs))
                         /\ "diffs" \notin decisions[i].skipped =>
                              brief.diffs = RetrieveDiffs(world, brief.req)
            <3>1. PICK b, brief, row : /\ b = decisions[i].brief /\ brief = briefs[b]
                                       /\ row = Over([id |-> b], brief)
                OBVIOUS
            <3>2. b \in DOMAIN briefs /\ decisions[i] = DecisionRow(row)
                BY <2>1, <3>1 DEF StoredInv
            <3>3. Whole(brief)
                BY <2>1, <3>1, <3>2 DEF StoredInv, Whole
            <3>4. {"signals", "governor"} \subseteq DOMAIN brief
                BY <3>3, FieldsAt DEF Whole
            <3>5. row.signals = brief.signals /\ row.governor = brief.governor
                BY <3>1, <3>4 DEF Over
            <3>6. decisions[i].evidence = IdsOf(brief.signals)
                BY <3>2, <3>5 DEF DecisionRow
            <3>7. decisions[i].skipped = brief.governor.skipped
                BY <3>2, <3>5 DEF DecisionRow
            <3>8. brief.governor.skipped = IF brief.governor.triggered THEN {"diffs", "file_signals"} ELSE {}
                <4>1. PICK governor, triggered, n :
                         /\ governor = brief.governor
                         /\ governor = [triggered |-> triggered, items |-> n,
                                        skipped |-> IF triggered THEN {"diffs", "file_signals"} ELSE {}]
                    BY <3>3 DEF Whole, Faithful, Governor
                <4> QED BY <4>1
            <3>9. "diffs" \notin decisions[i].skipped => brief.diffs = RetrieveDiffs(world, brief.req)
                BY <3>3, <3>7, <3>8 DEF Whole, Read
            <3> QED BY <3>1, <3>3, <3>6, <3>9 DEF Whole, Retrieved
        <2> QED BY <2>2, <2>3, <2>4, <2>5 DEF OneDecisionPerBrief
    <1> QED BY <1>1, Invariant, PTL

\* The structural walk finds what is near an anchor, each definition once,
\* until its budget is spent, however the definitions call each other
\* (structural.py:219-261).
THEOREM WalkComplete == Spec => []WalkFindsWhatIsNear
    <1>1. IInv => WalkFindsWhatIsNear
        <2> SUFFICES ASSUME TypeOK, CallInv, RetrievedInv, Has("walk"), job.walk = "success"
                     PROVE  WalkFindsWhatIsNear
            BY DEF IInv, WalkFindsWhatIsNear
        <2>1. /\ IsWorld(world) /\ {"req", "walk", "structural"} \subseteq DOMAIN job
              /\ job.req \in world.requests
            <3>1. {"req", "walk", "structural"} \subseteq DOMAIN job
                BY Stations, FieldsAt DEF TypeOK, CallInv, Has
            <3> QED BY <3>1 DEF CallInv, Has
        <2>2. PICK ss, found : /\ ss = Parsed(world.symbols, job.req.files)
                               /\ found = job.structural
            OBVIOUS
        <2>3. job.req.files \in Seq(ToSet(job.req.files))
            BY <2>1 DEF IsWorld
        <2>4. Definitions(ss)
            BY <2>1, <2>2, <2>3, ParsedRows
        <2>5. found = RetrieveStructural(ss)
            BY <2>1, <2>2 DEF RetrievedInv, Has
        <2>6. PICK near : near = WithinHops(ss, ToSet(Anchors(ss)), HopDepth)
            OBVIOUS
        <2>7. /\ NamesOf(found) \subseteq near
              /\ Cardinality(NamesOf(found)) = Len(found)
              /\ Tokens(found) <= WalkBudget
              /\ \/ NamesOf(found) = near
                 \/ \E n \in near \ NamesOf(found) :
                        Tokens(found) + Definition(ss, n).tokens > WalkBudget
            BY <2>4, <2>5, <2>6, WalkFinds
        <2>8. PICK used : used = Tokens(found)
            OBVIOUS
        <2>9. used = Total(job.structural, LAMBDA x : x.tokens)
            BY <2>2, <2>8 DEF Tokens, Total, FoldLeft, MapThenFoldSet
        <2> QED BY <2>2, <2>6, <2>7, <2>8, <2>9 DEF WalkFindsWhatIsNear, NamesOf
    <1> QED BY <1>1, Invariant, PTL

\* Everything that was retrieved is ranked once and ends as a hard constraint,
\* in the prompt, or in the trace of what was dropped, never in two of them,
\* whatever the reranker answers and however little the prompt has room for
\* (builder.py:534-591, reranker.py:87-120, compressor.py:80-89).
THEOREM NothingLost == Spec => []NothingGetsLost
    <1>1. IInv => NothingGetsLost
        <2> SUFFICES ASSUME IInv, Has("kept")
                     PROVE  NothingGetsLost
            BY DEF NothingGetsLost
        <2>1. TypeOK /\ CallInv /\ RetrievedInv /\ LearnedInv /\ SignalsInv /\ PlacedInv
            BY DEF IInv
        <2>2. /\ {"req", "memories", "governor", "files", "diffs", "structural"} \subseteq DOMAIN job
              /\ Has("learned") /\ Has("items") /\ Has("signals")
            BY <2>1, Stations, FieldsAt DEF TypeOK, CallInv, Has
        <2>3. PICK learned, ms, policies :
                 /\ learned = job.learned /\ ms = job.memories
                 /\ policies = PoliciesFor(world.policies, job.req.scope)
            OBVIOUS
        <2>4. Constraints(learned) /\ Memories(ms)
            BY <2>1, <2>2, <2>3, LearnedRows, ReadRows
        <2>5. Policies(policies)
            BY <2>1, <2>3, PolicyRows DEF CallInv
        <2>6. PICK hard : hard = job.hard /\ hard = HardConstraints(learned, policies, ms)
            BY <2>1, <2>2, <2>3 DEF LearnedInv
        <2>7. \A e : e \in ToSet(hard) /\ e[1] = "memory"
                       <=> \E m \in ToSet(ms) : Unbreakable(m) /\ e = Entry("memory", m.id)
            BY <2>4, <2>5, <2>6, HardLayers
        <2>8. Shown("memory") = Vows(job)
            <3>1. Shown("memory") = {e[2] : e \in {x \in ToSet(hard) : x[1] = "memory"}}
                BY <2>6 DEF Shown
            <3>2. Vows(job) = {m.id : m \in {x \in ToSet(ms) : Unbreakable(x)}}
                BY <2>3 DEF Vows
            <3>3. \A m : Entry("memory", m.id)[2] = m.id
                BY DEF Entry
            <3>4. ASSUME NEW e \in ToSet(hard), e[1] = "memory"
                  PROVE  e[2] \in {m.id : m \in {x \in ToSet(ms) : Unbreakable(x)}}
                BY <2>7, <3>3, <3>4
            <3>5. ASSUME NEW m \in ToSet(ms), Unbreakable(m)
                  PROVE  \E e \in ToSet(hard) : e[1] = "memory" /\ e[2] = m.id
                <4>1. PICK e : e = Entry("memory", m.id)
                    OBVIOUS
                <4>2. e \in ToSet(hard) /\ e[1] = "memory"
                    BY <2>7, <3>5, <4>1
                <4> QED BY <3>3, <4>1, <4>2
            <3> QED BY <3>1, <3>2, <3>4, <3>5
        <2>9. PICK signals, retrieved, structural, items, kept, dropped, vows :
                 /\ signals = job.signals /\ retrieved = ToSet(Retrieved(job))
                 /\ structural = ToSet(IdsOf(job.structural)) /\ items = ToSet(IdsOf(job.items))
                 /\ kept = ToSet(IdsOf(job.kept)) /\ dropped = ToSet(IdsOf(job.dropped))
                 /\ vows = Vows(job)
            OBVIOUS
        <2>10. /\ Once(signals, retrieved)
               /\ retrieved \cup structural \subseteq items \cup vows
               /\ items \cap vows = {}
               /\ kept \cup dropped = items /\ kept \cap dropped = {}
            BY <2>1, <2>2, <2>9 DEF PlacedInv
        <2>11. ToSet(IdsOf(signals)) = retrieved
            BY <2>1, <2>2, <2>9 DEF SignalsInv
        <2>12. IsInjective(IdsOf(signals))
            <3>1. PICK ids : ids = IdsOf(signals)
                OBVIOUS
            <3>2. DOMAIN ids = DOMAIN signals /\ \A i \in DOMAIN signals : ids[i] = signals[i].id
                BY <3>1 DEF IdsOf, Mapped
            <3>3. \A i \in DOMAIN ids : ids[i] \in retrieved
                BY <2>11, <3>1 DEF ToSet
            <3>4. \A i, j \in DOMAIN ids : ids[i] = ids[j] => i = j
                BY <2>10, <3>2, <3>3 DEF Once
            <3> QED BY <3>1, <3>4 DEF IsInjective
        <2>13. /\ retrieved \cup structural \subseteq vows \cup kept \cup dropped
               /\ (kept \cup dropped) \cap vows = {}
            BY <2>10
        <2> QED BY <2>8, <2>9, <2>10, <2>11, <2>12, <2>13 DEF NothingGetsLost, Retrieved
    <1> QED BY <1>1, Invariant, PTL

=============================================================================
