------------------------ MODULE ConstraintStore_proofs ------------------------
(***************************************************************************)
(* What holds of the constraint store for any number of processes, rows,   *)
(* tenants and crashes.  The unique index only sees to it that no two      *)
(* transactions are inserting, or have inserted, an active row with one    *)
(* identity; that a commit touches only the row its own transaction wrote  *)
(* is the other half of the inductive invariant, IInv of ConstraintStore.  *)
(***************************************************************************)
EXTENDS ConstraintStore, TLAPS

USE DEF Callers, Identities, Row, NoRow, Call, NoCall, Adding, Retiring

-----------------------------------------------------------------------------
(* Type correctness *)

LEMMA InitType == Init => TypeOK
    BY StoreAssumption DEF Init, TypeOK

LEMMA StepType == TypeOK /\ HoldInv /\ [Next]_vars => TypeOK'
    <1> SUFFICES ASSUME TypeOK, HoldInv, [Next]_vars PROVE TypeOK' OBVIOUS
    <1> USE StoreAssumption DEF TypeOK, Return
    <1>1. ASSUME NEW c \in Clients, NEW t \in Callers, NEW b \in Bodies,
                 CallAdd(c, t, b)
          PROVE  TypeOK'
        BY <1>1 DEF CallAdd
    <1>2. ASSUME NEW c \in Clients, NEW t \in Callers, NEW i \in Ids,
                 CallRetire(c, t, i)
          PROVE  TypeOK'
        BY <1>2 DEF CallRetire
    <1>3. ASSUME NEW c \in Clients, FindExisting(c) PROVE TypeOK'
        BY <1>3 DEF FindExisting, Found
    <1>4. ASSUME NEW c \in Clients, FindNothing(c) PROVE TypeOK'
        BY <1>4 DEF FindNothing
    <1>5. ASSUME NEW c \in Clients, Insert(c) PROVE TypeOK'
        BY <1>5 DEF Insert, Write
    <1>6. ASSUME NEW c \in Clients, InsertCollides(c) PROVE TypeOK'
        BY <1>6 DEF InsertCollides, Found
    <1>7. ASSUME NEW c \in Clients, CommitAdd(c) PROVE TypeOK'
        BY <1>7 DEF CommitAdd, HoldInv
    <1>8. ASSUME NEW c \in Clients, FindWinner(c) PROVE TypeOK'
        BY <1>8 DEF FindWinner, Found
    <1>9. ASSUME NEW c \in Clients, Reraise(c) PROVE TypeOK'
        BY <1>9 DEF Reraise
    <1>10. ASSUME NEW c \in Clients, Update(c) PROVE TypeOK'
        BY <1>10 DEF Update
    <1>11. ASSUME NEW c \in Clients, CommitRetire(c) PROVE TypeOK'
        BY <1>11 DEF CommitRetire, HoldInv
    <1>12. ASSUME NEW c \in Clients, Crash(c) PROVE TypeOK'
        <2>1. crashes' \in 0 .. MaxCrashes
            BY <1>12 DEF Crash
        <2>2. rows' \in [Ids -> Row]
            BY <1>12 DEF Crash
        <2>3. \A i \in Ids : rows'[i].status # "absent" => rows'[i].body \in Bodies
            BY <1>12 DEF Crash
        <2> QED BY <1>12, <2>1, <2>2, <2>3 DEF Crash
    <1>13. CASE UNCHANGED vars
        BY <1>13 DEF vars
    <1> QED BY <1>1, <1>2, <1>3, <1>4, <1>5, <1>6, <1>7, <1>8, <1>9, <1>10,
               <1>11, <1>12, <1>13 DEF Next, Step

-----------------------------------------------------------------------------
(* The inductive invariant *)

LEMMA InitIInv == Init => IInv
    <1> SUFFICES ASSUME Init PROVE IInv OBVIOUS
    <1>1. HoldInv
        BY DEF Init, HoldInv
    <1>2. UniqueIndex
        BY DEF Init, UniqueIndex
    <1>3. RivalInv
        BY StoreAssumption DEF Init, RivalInv
    <1>4. WrittenInv
        BY DEF Init, WrittenInv
    <1> QED BY <1>1, <1>2, <1>3, <1>4, InitType DEF IInv

\* A row some transaction holds is held by nobody else, so an action that
\* changes one client's place and lock leaves the others' as they were.
LEMMA StepHold == TypeOK /\ HoldInv /\ [Next]_vars => HoldInv'
    <1> SUFFICES ASSUME TypeOK, HoldInv, [Next]_vars PROVE HoldInv' OBVIOUS
    <1> USE StoreAssumption DEF TypeOK, HoldInv, Return
    <1>1. ASSUME NEW c \in Clients, NEW t \in Callers, NEW b \in Bodies,
                 CallAdd(c, t, b)
          PROVE  HoldInv'
        BY <1>1 DEF CallAdd
    <1>2. ASSUME NEW c \in Clients, NEW t \in Callers, NEW i \in Ids,
                 CallRetire(c, t, i)
          PROVE  HoldInv'
        BY <1>2 DEF CallRetire
    <1>3. ASSUME NEW c \in Clients,
                 \/ FindExisting(c) \/ FindNothing(c) \/ InsertCollides(c)
                 \/ FindWinner(c) \/ Reraise(c)
          PROVE  HoldInv'
        BY <1>3 DEF FindExisting, FindNothing, InsertCollides, FindWinner, Reraise
    <1>4. ASSUME NEW c \in Clients, Insert(c) PROVE HoldInv'
        <2>1. PICK i \in Ids : rows[i].status = "absent" /\ Write(c, i)
            BY <1>4 DEF Insert
        <2>2. \A d \in Clients : hold[d] # i
            BY <2>1
        <2> QED BY <1>4, <2>1, <2>2 DEF Insert, Write
    <1>5. ASSUME NEW c \in Clients, CommitAdd(c) PROVE HoldInv'
        BY <1>5 DEF CommitAdd
    <1>6. ASSUME NEW c \in Clients, Update(c) PROVE HoldInv'
        <2> DEFINE i == call[c].id
        <2>1. i \in Ids /\ hold[c] = None /\ UNCHANGED rows
            BY <1>6 DEF Update
        <2>2. CASE UNCHANGED hold
            BY <1>6, <2>1, <2>2 DEF Update
        <2>3. CASE Matches(i, call[c].tenant) /\ ~Locked(i)
                   /\ hold' = [hold EXCEPT ![c] = i]
            <3>1. \A d \in Clients : hold[d] # i
                BY <2>3 DEF Locked
            <3>2. rows[i].status \in {"active", "superseded"}
                BY <2>3 DEF Matches
            <3> HIDE DEF i
            <3> QED BY <1>6, <2>1, <2>3, <3>1, <3>2 DEF Update
        <2> QED BY <1>6, <2>2, <2>3 DEF Update
    <1>7. ASSUME NEW c \in Clients, CommitRetire(c) PROVE HoldInv'
        BY <1>7 DEF CommitRetire
    <1>8. ASSUME NEW c \in Clients, Crash(c) PROVE HoldInv'
        BY <1>8 DEF Crash
    <1>9. CASE UNCHANGED vars
        BY <1>9 DEF vars
    <1> QED BY <1>1, <1>2, <1>3, <1>4, <1>5, <1>6, <1>7, <1>8, <1>9
            DEF Next, Step

\* Only Insert adds to what the index counts, and its guard is the index.
LEMMA StepUnique == TypeOK /\ HoldInv /\ UniqueIndex /\ [Next]_vars => UniqueIndex'
    <1> SUFFICES ASSUME TypeOK, HoldInv, UniqueIndex, [Next]_vars PROVE UniqueIndex'
        OBVIOUS
    <1> USE StoreAssumption DEF TypeOK, UniqueIndex, RowIdentity, Identity
    <1>1. CASE UNCHANGED rows
        BY <1>1
    <1>2. ASSUME NEW c \in Clients, Insert(c) PROVE UniqueIndex'
        BY <1>2 DEF Insert, Write, IndexFree, Wanted
    <1>3. ASSUME NEW c \in Clients, CommitAdd(c) PROVE UniqueIndex'
        BY <1>3 DEF CommitAdd, HoldInv
    <1>4. ASSUME NEW c \in Clients, CommitRetire(c) PROVE UniqueIndex'
        BY <1>4 DEF CommitRetire, HoldInv
    <1>5. ASSUME NEW c \in Clients, Crash(c) PROVE UniqueIndex'
        BY <1>5 DEF Crash, HoldInv
    <1> QED BY <1>1, <1>2, <1>3, <1>4, <1>5
            DEF Next, Step, vars, CallAdd, CallRetire, FindExisting, FindNothing,
                InsertCollides, FindWinner, Reraise, Update

\* An active row somebody lost a race to leaves that status only by a retire,
\* and no row ever changes its identity.
LEMMA StepRival == IInv /\ [Next]_vars => RivalInv'
    <1> SUFFICES ASSUME IInv, [Next]_vars PROVE RivalInv' OBVIOUS
    <1> USE StoreAssumption
    <1> USE DEF IInv, TypeOK, RivalInv, RowIdentity, Identity, Wanted, Return
    <1>1. ASSUME NEW c \in Clients, NEW t \in Callers, NEW b \in Bodies,
                 CallAdd(c, t, b)
          PROVE  RivalInv'
        BY <1>1 DEF CallAdd
    <1>2. ASSUME NEW c \in Clients, NEW t \in Callers, NEW i \in Ids,
                 CallRetire(c, t, i)
          PROVE  RivalInv'
        BY <1>2 DEF CallRetire
    <1>3. ASSUME NEW c \in Clients, FindExisting(c) PROVE RivalInv'
        BY <1>3 DEF FindExisting, Found
    <1>4. ASSUME NEW c \in Clients, FindNothing(c) PROVE RivalInv'
        BY <1>4 DEF FindNothing
    <1>5. ASSUME NEW c \in Clients, Insert(c) PROVE RivalInv'
        BY <1>5 DEF Insert, Write
    <1>6. ASSUME NEW c \in Clients, InsertCollides(c) PROVE RivalInv'
        <2>1. PICK i \in Found(c) : rival' = [rival EXCEPT ![c] = i]
            BY <1>6 DEF InsertCollides
        <2>2. i \in Ids /\ rows[i].status = "active" /\ RowIdentity(i) = Wanted(c)
            BY <2>1 DEF Found
        <2>3. /\ UNCHANGED <<rows, call, result>>
              /\ pc' = [pc EXCEPT ![c] = "refind"]
              /\ pc[c] = "insert"
            BY <1>6 DEF InsertCollides
        <2>4. result[c] # "raised"
            BY <2>3
        <2> QED BY <2>1, <2>2, <2>3, <2>4
    <1>7. ASSUME NEW c \in Clients, CommitAdd(c) PROVE RivalInv'
        BY <1>7 DEF CommitAdd, HoldInv
    <1>8. ASSUME NEW c \in Clients, FindWinner(c) PROVE RivalInv'
        BY <1>8 DEF FindWinner, Found
    <1>9. ASSUME NEW c \in Clients, Reraise(c) PROVE RivalInv'
        BY <1>9 DEF Reraise, Found
    <1>10. ASSUME NEW c \in Clients, Update(c) PROVE RivalInv'
        BY <1>10 DEF Update
    <1>11. ASSUME NEW c \in Clients, CommitRetire(c) PROVE RivalInv'
        BY <1>11 DEF CommitRetire, HoldInv
    <1>12. ASSUME NEW c \in Clients, Crash(c) PROVE RivalInv'
        BY <1>12 DEF Crash, HoldInv
    <1>13. CASE UNCHANGED vars
        BY <1>13 DEF vars
    <1> QED BY <1>1, <1>2, <1>3, <1>4, <1>5, <1>6, <1>7, <1>8, <1>9, <1>10,
               <1>11, <1>12, <1>13 DEF Next, Step

\* Nobody else writes to a row that is being inserted, and the call that
\* inserts it does not change before it commits.
LEMMA StepWritten == IInv /\ [Next]_vars => WrittenInv'
    <1> SUFFICES ASSUME IInv, [Next]_vars PROVE WrittenInv' OBVIOUS
    <1> USE StoreAssumption DEF IInv, TypeOK, HoldInv, WrittenInv, Return
    <1>1. ASSUME NEW c \in Clients, NEW t \in Callers, NEW b \in Bodies,
                 CallAdd(c, t, b)
          PROVE  WrittenInv'
        BY <1>1 DEF CallAdd
    <1>2. ASSUME NEW c \in Clients, NEW t \in Callers, NEW i \in Ids,
                 CallRetire(c, t, i)
          PROVE  WrittenInv'
        BY <1>2 DEF CallRetire
    <1>3. ASSUME NEW c \in Clients,
                 \/ FindExisting(c) \/ FindNothing(c) \/ InsertCollides(c)
                 \/ FindWinner(c) \/ Reraise(c)
          PROVE  WrittenInv'
        BY <1>3 DEF FindExisting, FindNothing, InsertCollides, FindWinner, Reraise
    <1>4. ASSUME NEW c \in Clients, Insert(c) PROVE WrittenInv'
        BY <1>4 DEF Insert, Write
    <1>5. ASSUME NEW c \in Clients, CommitAdd(c) PROVE WrittenInv'
        BY <1>5 DEF CommitAdd
    <1>6. ASSUME NEW c \in Clients, Update(c) PROVE WrittenInv'
        BY <1>6 DEF Update
    <1>7. ASSUME NEW c \in Clients, CommitRetire(c) PROVE WrittenInv'
        BY <1>7 DEF CommitRetire
    <1>8. ASSUME NEW c \in Clients, Crash(c) PROVE WrittenInv'
        BY <1>8 DEF Crash
    <1>9. CASE UNCHANGED vars
        BY <1>9 DEF vars
    <1> QED BY <1>1, <1>2, <1>3, <1>4, <1>5, <1>6, <1>7, <1>8, <1>9
            DEF Next, Step

\* The inductive invariant holds of every reachable state of the store.
THEOREM Invariant == Spec => []IInv
    <1>1. IInv /\ [Next]_vars => IInv'
        BY StepType, StepHold, StepUnique, StepRival, StepWritten DEF IInv
    <1> QED BY InitIInv, <1>1, PTL DEF Spec

\* Every variable of the store keeps its type, for any number of clients.
THEOREM TypeCorrect == Spec => []TypeOK
    <1>1. IInv => TypeOK BY DEF IInv
    <1> QED BY Invariant, <1>1, PTL

\* However many processes add and retire, and whichever of them die, an
\* identity has at most one active constraint (constraint_repository.py:41-67).
THEOREM OneActive == Spec => []OneActivePerIdentity
    <1>1. IInv => OneActivePerIdentity
        BY DEF IInv, UniqueIndex, OneActivePerIdentity
    <1> QED BY Invariant, <1>1, PTL

\* An add raises only when the row it lost to has been retired by then
\* (constraint_repository.py:61-67).
THEOREM RaiseExplained == Spec => []RaisesOnlyIfRivalRetired
    <1>1. IInv => RaisesOnlyIfRivalRetired
        BY DEF IInv, RivalInv, RaisesOnlyIfRivalRetired
    <1> QED BY Invariant, <1>1, PTL

-----------------------------------------------------------------------------
(* What an add answers *)

\* A row with the identity a caller asks for is one its own for_scope shows,
\* except that "" also finds what nobody named a tenant for.
LEMMA FoundIsShown ==
    ASSUME TypeOK, NEW c \in Clients, NEW i \in Found(c), pc[c] \in Adding
    PROVE  i \in Ids /\ ShownTo(call[c].tenant, i)
    <1>1. /\ i \in Ids /\ rows[i].status = "active"
          /\ Identity(rows[i].tenant, rows[i].body) = Identity(call[c].tenant, call[c].body)
        BY DEF Found, RowIdentity, Wanted
    <1>2. \/ rows[i].tenant = call[c].tenant
          \/ rows[i].tenant \in {None, EmptyTenant} /\ call[c].tenant \in {None, EmptyTenant}
        BY <1>1, StoreAssumption DEF Identity
    <1> QED BY <1>1, <1>2 DEF ForScope, ShownTo

\* The id an add answers with names a row that is active when it is answered
\* and that the caller's own for_scope returns (constraint_repository.py:41-67,
\* 82-99), whoever retires what in between.
THEOREM AddedStands == Spec => AddedIsInForce
    <1> DEFINE Good == \A c \in Clients, t \in Callers :
          Answers(c) /\ t = call[c].tenant => \E i \in Ids : /\ i = result'[c]
                                                             /\ ShownTo(t, i)'
    <1>1. IInv /\ [Next]_vars => [Good]_vars
        <2> SUFFICES ASSUME IInv, Next, NEW c \in Clients, Answers(c),
                            NEW t \in Callers, t = call[c].tenant
                     PROVE  \E i \in Ids : i = result'[c] /\ ShownTo(t, i)'
            OBVIOUS
        <2> USE StoreAssumption
        <2>1. ASSUME FindExisting(c) \/ FindWinner(c)
              PROVE  \E i \in Ids : i = result'[c] /\ ShownTo(t, i)'
            <3>1. PICK i \in Found(c) : result' = [result EXCEPT ![c] = i]
                BY <2>1 DEF FindExisting, FindWinner, Return
            <3>2. i \in Ids /\ ShownTo(t, i)
                BY <2>1, FoundIsShown DEF IInv, FindExisting, FindWinner
            <3>3. rows' = rows
                BY <2>1 DEF FindExisting, FindWinner
            <3>4. ShownTo(t, i)'
                BY <3>2, <3>3 DEF ShownTo, ForScope
            <3> QED BY <3>1, <3>2, <3>4 DEF IInv, TypeOK
        <2>2. ASSUME CommitAdd(c)
              PROVE  \E i \in Ids : i = result'[c] /\ ShownTo(t, i)'
            <3>1. PICK i \in Ids : i = hold[c]
                BY <2>2 DEF CommitAdd, IInv, TypeOK, HoldInv
            <3>2. rows[i].tenant = t /\ rows[i] \in Row
                BY <2>2, <3>1 DEF CommitAdd, IInv, TypeOK, WrittenInv
            <3>3. /\ rows' = [rows EXCEPT ![i].status = "active"]
                  /\ result' = [result EXCEPT ![c] = i]
                BY <2>2, <3>1 DEF CommitAdd, Return
            <3>4. rows'[i].status = "active" /\ rows'[i].tenant = t /\ result'[c] = i
                BY <3>2, <3>3 DEF IInv, TypeOK
            <3> QED BY <3>4 DEF ShownTo, ForScope
        <2>3. ASSUME NEW d \in Clients,
                     \/ \E u \in Callers, b \in Bodies : CallAdd(d, u, b)
                     \/ \E u \in Callers, i \in Ids : CallRetire(d, u, i)
                     \/ FindNothing(d) \/ Insert(d) \/ InsertCollides(d)
                     \/ Reraise(d) \/ Update(d) \/ CommitRetire(d) \/ Crash(d)
              PROVE  FALSE
            <3>1. \/ result' = result
                  \/ result' = [result EXCEPT ![d] = None]
                  \/ result' = [result EXCEPT ![d] = "raised"]
                BY <2>3 DEF CallAdd, CallRetire, FindNothing, Insert, Write,
                            InsertCollides, Reraise, Update, CommitRetire, Crash, Return
            <3> QED BY <3>1 DEF Answers, IInv, TypeOK
        <2>4. ASSUME NEW d \in Clients, d # c,
                     FindExisting(d) \/ FindWinner(d) \/ CommitAdd(d)
              PROVE  FALSE
            <3>1. \E r : result' = [result EXCEPT ![d] = r]
                BY <2>4 DEF FindExisting, FindWinner, CommitAdd, Return
            <3> QED BY <2>4, <3>1 DEF Answers, IInv, TypeOK
        <2> QED BY <2>1, <2>2, <2>3, <2>4 DEF Next, Step
    <1> QED BY Invariant, <1>1, PTL DEF Spec, AddedIsInForce

-----------------------------------------------------------------------------
(* The store implements the register *)

\* What the mapped variable says: the register shows a row exactly while it is
\* active, and nothing else.
ActiveIs ==
    /\ ActiveOf \in [Identities -> Ids \cup {None}]
    /\ \A k \in Identities, i \in Ids : ActiveOf[k] = i <=> i \in ActiveWith(k)

\* One active row per identity makes the choice in ActiveOf no choice at all.
LEMMA ActiveOfRows == IInv => ActiveIs
    <1> SUFFICES ASSUME IInv PROVE ActiveIs OBVIOUS
    <1>1. ASSUME NEW k \in Identities
          PROVE  /\ ActiveWith(k) # {} => SomeOf(ActiveWith(k)) \in ActiveWith(k)
                 /\ \A i, j \in ActiveWith(k) : i = j
                 /\ ActiveWith(k) \subseteq Ids
        BY DEF SomeOf, ActiveWith, IInv, UniqueIndex
    <1>2. \A k \in Identities :
             ActiveOf[k] = IF ActiveWith(k) = {} THEN None ELSE SomeOf(ActiveWith(k))
        BY DEF ActiveOf
    <1>3. ActiveOf = [k \in Identities |-> ActiveOf[k]]
        BY DEF ActiveOf
    <1> HIDE DEF Identities
    <1> QED BY <1>1, <1>2, <1>3, StoreAssumption DEF ActiveIs

\* A step that makes no row active or superseded, and takes no row out of
\* either, is invisible in the register.
LEMMA Invisible ==
    ASSUME ActiveIs, ActiveIs',
           \A i \in Ids : /\ rows'[i].status = "active" <=> rows[i].status = "active"
                          /\ rows'[i].status = "superseded" <=> rows[i].status = "superseded"
                          /\ rows[i].status = "active" => RowIdentity(i)' = RowIdentity(i)
    PROVE  UNCHANGED <<ActiveOf, RetiredRows>>
    <1> HIDE DEF Identities
    <1>1. ASSUME NEW k \in Identities
          PROVE  ActiveWith(k)' = ActiveWith(k)
        BY DEF ActiveWith
    <1>2. ASSUME NEW k \in Identities PROVE ActiveOf'[k] = ActiveOf[k]
        BY <1>1, StoreAssumption DEF ActiveIs
    <1>3. ActiveOf' = ActiveOf
        BY <1>2 DEF ActiveIs
    <1>4. RetiredRows' = RetiredRows
        BY DEF RetiredRows
    <1> QED BY <1>3, <1>4

LEMMA InitRegister == Init => Register!Init
    <1> SUFFICES ASSUME Init PROVE Register!Init OBVIOUS
    <1>1. \A k \in Identities : ActiveWith(k) = {}
        BY DEF Init, ActiveWith
    <1>2. ActiveOf = [k \in Identities |-> None]
        BY <1>1 DEF ActiveOf
    <1>3. RetiredRows = {}
        BY DEF Init, RetiredRows
    <1> QED BY <1>2, <1>3 DEF Register!Init

\* conn.commit() of an add is the register's Add.
LEMMA CommitAddAdds ==
    ASSUME IInv, ActiveIs, ActiveIs', NEW c \in Clients, CommitAdd(c)
    PROVE  Register!Next
    <1> DEFINE i == hold[c]
               k == RowIdentity(i)
    <1>1. /\ i \in Ids /\ rows[i].status = "inserting" /\ rows[i].body \in Bodies
          /\ rows[i].tenant \in Callers
          /\ rows' = [rows EXCEPT ![i].status = "active"]
        BY StoreAssumption DEF IInv, TypeOK, HoldInv, CommitAdd
    <1>2. k \in Identities
        BY <1>1, StoreAssumption DEF RowIdentity, Identity
    <1>3. /\ \A j \in Ids : RowIdentity(j)' = RowIdentity(j)
          /\ \A j \in Ids \ {i} : rows'[j] = rows[j]
          /\ rows'[i].status = "active"
        BY <1>1 DEF RowIdentity, IInv, TypeOK
    <1> HIDE DEF i, k, Identities
    <1>4. ActiveWith(k) = {}
        BY <1>1 DEF ActiveWith, IInv, UniqueIndex, k
    <1>5. ActiveOf[k] = None
        BY <1>2, <1>4 DEF ActiveIs
    <1>6. i \notin RetiredRows /\ \A l \in Identities : ActiveOf[l] # i
        BY <1>1 DEF RetiredRows, ActiveIs, ActiveWith
    <1>7. RetiredRows' = RetiredRows
        BY <1>1, <1>3 DEF RetiredRows
    <1>8. ActiveOf'[k] = i
        BY <1>1, <1>2, <1>3 DEF ActiveIs, ActiveWith, k
    <1>9. ASSUME NEW l \in Identities, l # k PROVE ActiveOf'[l] = ActiveOf[l]
        <2>1. ActiveWith(l)' = ActiveWith(l)
            BY <1>1, <1>3, <1>9 DEF ActiveWith, k
        <2> QED BY <2>1, StoreAssumption DEF ActiveIs
    <1>10. ActiveOf' = [ActiveOf EXCEPT ![k] = i]
        BY <1>2, <1>8, <1>9 DEF ActiveIs
    <1> QED BY <1>1, <1>2, <1>5, <1>6, <1>7, <1>10 DEF Register!Next, Register!Add

\* conn.commit() of a retire is the register's Retire, or nothing at all when
\* no row matched or the row was retired before.
LEMMA CommitRetireRetires ==
    ASSUME IInv, ActiveIs, ActiveIs', NEW c \in Clients, CommitRetire(c)
    PROVE  Register!Next \/ UNCHANGED <<ActiveOf, RetiredRows>>
    <1> DEFINE i == hold[c]
    <1>1. CASE i = None
        <2>1. rows' = rows
            BY <1>1 DEF CommitRetire
        <2>2. \A j \in Ids : RowIdentity(j)' = RowIdentity(j)
            BY <2>1 DEF RowIdentity
        <2> QED BY <2>1, <2>2, Invisible
    <1>2. CASE i # None
        <2>1. /\ i \in Ids /\ rows[i].status \in {"active", "superseded"}
              /\ rows[i].body \in Bodies /\ rows[i].tenant \in Callers
              /\ rows' = [rows EXCEPT ![i].status = "superseded"]
            BY <1>2 DEF IInv, TypeOK, HoldInv, CommitRetire
        <2>2. PICK k \in Identities : k = RowIdentity(i)
            BY <2>1, StoreAssumption DEF RowIdentity, Identity
        <2>3. /\ \A j \in Ids : RowIdentity(j)' = RowIdentity(j)
              /\ \A j \in Ids \ {i} : rows'[j] = rows[j]
              /\ rows'[i].status = "superseded"
            BY <2>1 DEF RowIdentity, IInv, TypeOK
        <2> HIDE DEF i, Identities
        <2>4. CASE rows[i].status = "superseded"
            BY <2>1, <2>3, <2>4, Invisible
        <2>5. CASE rows[i].status = "active"
            <3>1. ActiveOf[k] = i
                BY <2>1, <2>2, <2>5 DEF ActiveIs, ActiveWith
            <3>2. RetiredRows' = RetiredRows \cup {i}
                BY <2>1, <2>3 DEF RetiredRows
            <3>3. ActiveWith(k)' = {}
                BY <2>1, <2>2, <2>3, <2>5 DEF ActiveWith, IInv, UniqueIndex
            <3>4. ActiveOf'[k] = None
                BY <2>2, <3>3 DEF ActiveIs
            <3>5. ASSUME NEW l \in Identities, l # k PROVE ActiveOf'[l] = ActiveOf[l]
                <4>1. ActiveWith(l)' = ActiveWith(l)
                    BY <2>1, <2>2, <2>3, <3>5 DEF ActiveWith
                <4> QED BY <4>1, StoreAssumption DEF ActiveIs
            <3>6. ActiveOf' = [ActiveOf EXCEPT ![k] = None]
                BY <2>2, <3>4, <3>5 DEF ActiveIs
            <3> QED BY <1>2, <2>1, <2>2, <3>1, <3>2, <3>6, StoreAssumption
                    DEF Register!Next, Register!Retire, i
        <2> QED BY <2>1, <2>4, <2>5
    <1> QED BY <1>1, <1>2

LEMMA StepRegister ==
    ASSUME IInv, ActiveIs, ActiveIs', [Next]_vars
    PROVE  Register!Next \/ UNCHANGED <<ActiveOf, RetiredRows>>
    <1>1. CASE UNCHANGED rows
        BY <1>1, Invisible DEF RowIdentity
    <1>2. ASSUME NEW c \in Clients, Insert(c)
          PROVE  UNCHANGED <<ActiveOf, RetiredRows>>
        BY <1>2, Invisible DEF Insert, Write, RowIdentity, IInv, TypeOK
    <1>3. ASSUME NEW c \in Clients, Crash(c)
          PROVE  UNCHANGED <<ActiveOf, RetiredRows>>
        BY <1>3, Invisible DEF Crash, RowIdentity, IInv, TypeOK, HoldInv
    <1> QED BY <1>1, <1>2, <1>3, CommitAddAdds, CommitRetireRetires
            DEF Next, Step, vars, CallAdd, CallRetire, FindExisting, FindNothing,
                InsertCollides, FindWinner, Reraise, Update

\* Seen from the committed rows, every history of the store is one of the
\* atomic register: add and retire take effect at their commit.
THEOREM StoreImplementsRegister == Spec => ImplementsRegister
    <1>1. IInv /\ IInv' /\ [Next]_vars => [Register!Next]_<<ActiveOf, RetiredRows>>
        <2>1. IInv' => ActiveIs'
            BY ActiveOfRows, PTL
        <2> QED BY <2>1, ActiveOfRows, StepRegister
    <1> QED BY Invariant, InitRegister, <1>1, PTL
            DEF Spec, ImplementsRegister, Register!Spec
=============================================================================
