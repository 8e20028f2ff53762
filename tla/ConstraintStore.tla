--------------------------- MODULE ConstraintStore ---------------------------
(***************************************************************************)
(* ConstraintRepository.add and .retire, run by several server processes   *)
(* against one PostgreSQL database                                         *)
(* (src/chips/compiler/constraint_repository.py, constraints.py and        *)
(* migration 007).  Every call has a connection of its own; each statement *)
(* is a step, at READ COMMITTED.  The partial unique index on the active   *)
(* rows is modelled by what an INSERT does when it meets it: it raises on  *)
(* a committed active row with its identity, and waits while another       *)
(* transaction is inserting or retiring one.                               *)
(***************************************************************************)
EXTENDS Naturals, FiniteSets

CONSTANTS
    Clients,        \* server processes, one call at a time each
    Ids,            \* row ids (gen_random_uuid)
    Bodies,         \* (scope pattern, kind, normalised text, canonical target)
    Tenants,        \* tenant ids a caller may name, "" among them
    EmptyTenant,    \* the tenant id ""
    None,           \* Python's None, SQL's NULL
    MaxCrashes      \* bound on the processes that die in a call

ASSUME StoreAssumption ==
    /\ IsFiniteSet(Ids) /\ IsFiniteSet(Clients)
    /\ None \notin Ids \cup Tenants \cup Bodies \cup {"raised"}
    /\ "raised" \notin Ids
    /\ EmptyTenant \in Tenants
    /\ MaxCrashes \in Nat

VARIABLES
    rows,       \* the table; an "inserting" row is seen by its writer only
    hold,       \* the row each client's open transaction has written
    pc,         \* where each client is in its call, or "idle"
    call,       \* the arguments of each client's call
    result,     \* what each client's last add came to
    crashes,    \* how many clients have died in a call
    rival       \* history: the row a client's INSERT collided with

vars == <<rows, hold, pc, call, result, crashes, rival>>

Callers == Tenants \cup {None}
Identities == Tenants \X Bodies

\* dedup_hash: None and "" fold to the same key.
Identity(t, b) == <<IF t = None THEN EmptyTenant ELSE t, b>>

Row == [status : {"absent", "inserting", "active", "superseded"},
        tenant : Callers,
        body : Bodies \cup {None}]
NoRow == [status |-> "absent", tenant |-> None, body |-> None]

Call == [tenant : Callers, body : Bodies \cup {None}, id : Ids \cup {None}]
NoCall == [tenant |-> None, body |-> None, id |-> None]

Adding == {"find", "insert", "commitAdd", "refind"}
Retiring == {"update", "commitRetire"}

TypeOK ==
    /\ rows \in [Ids -> Row]
    /\ hold \in [Clients -> Ids \cup {None}]
    /\ pc \in [Clients -> {"idle"} \cup Adding \cup Retiring]
    /\ call \in [Clients -> Call]
    /\ \A c \in Clients : /\ pc[c] \in Adding => call[c].body \in Bodies
                          /\ pc[c] \in Retiring => call[c].id \in Ids
    /\ \A i \in Ids : rows[i].status # "absent" => rows[i].body \in Bodies
    /\ result \in [Clients -> Ids \cup {None, "raised"}]
    /\ crashes \in 0 .. MaxCrashes
    /\ rival \in [Clients -> Ids \cup {None}]

-----------------------------------------------------------------------------
(* The table *)

RowIdentity(i) == Identity(rows[i].tenant, rows[i].body)
Wanted(c) == Identity(call[c].tenant, call[c].body)

\* An open transaction has written the row and locks it.
Locked(i) == \E c \in Clients : hold[c] = i

\* Mutant of Found: the query forgets status = 'active'.
FoundAnyStatus(c) == {i \in Ids : /\ rows[i].status \in {"active", "superseded"}
                                  /\ RowIdentity(i) = Wanted(c)}

\* _find_active: any committed active row with the identity, retired or not by
\* a transaction that is still open.
Found(c) == {i \in Ids : rows[i].status = "active" /\ RowIdentity(i) = Wanted(c)}

\* for_scope(scope, tenant_id), for the scope of the row.
ForScope(t) == {i \in Ids : /\ rows[i].status = "active"
                            /\ t = None \/ rows[i].tenant = t}

\* WHERE id = %s [AND tenant_id = %s]
Matches(i, t) == /\ rows[i].status \in {"active", "superseded"}
                 /\ t = None \/ rows[i].tenant = t

Return(c, r) ==
    /\ pc' = [pc EXCEPT ![c] = "idle"]
    /\ call' = [call EXCEPT ![c] = NoCall]
    /\ result' = [result EXCEPT ![c] = r]
    /\ rival' = IF r = "raised" THEN rival ELSE [rival EXCEPT ![c] = None]

-----------------------------------------------------------------------------
(* add *)

\* Bound: a row id is left for every insert under way.
IdsLeft == Cardinality({i \in Ids : rows[i].status = "absent"})
             > Cardinality({c \in Clients : pc[c] \in {"find", "insert"}})

CallAdd(c, t, b) ==
    /\ pc[c] = "idle"
    /\ IdsLeft
    /\ pc' = [pc EXCEPT ![c] = "find"]
    /\ call' = [call EXCEPT ![c] = [tenant |-> t, body |-> b, id |-> None]]
    /\ result' = [result EXCEPT ![c] = None]
    /\ rival' = [rival EXCEPT ![c] = None]
    /\ UNCHANGED <<rows, hold, crashes>>

FindExisting(c) ==
    /\ pc[c] = "find"
    /\ \E i \in Found(c) : Return(c, i)
    /\ UNCHANGED <<rows, hold, crashes>>

FindNothing(c) ==
    /\ pc[c] = "find"
    /\ Found(c) = {}
    /\ pc' = [pc EXCEPT ![c] = "insert"]
    /\ UNCHANGED <<rows, hold, call, result, crashes, rival>>

\* The row is in the table, for its writer's eyes, and the caller will commit.
Write(c, i) ==
    /\ rows' = [rows EXCEPT ![i] = [status |-> "inserting",
                                    tenant |-> call[c].tenant,
                                    body |-> call[c].body]]
    /\ hold' = [hold EXCEPT ![c] = i]
    /\ pc' = [pc EXCEPT ![c] = "commitAdd"]
    /\ UNCHANGED <<call, result, crashes, rival>>

\* The index has nothing with this identity.
IndexFree(c) == \A i \in Ids : rows[i].status \in {"inserting", "active"}
                                  => RowIdentity(i) # Wanted(c)

\* Mutants of Insert: there is no unique index; a retired row is used again.
InsertUnindexed(c) ==
    /\ pc[c] = "insert"
    /\ \E i \in Ids : rows[i].status = "absent" /\ Write(c, i)
InsertRevives(c) ==
    /\ pc[c] = "insert"
    /\ IndexFree(c)
    /\ \E i \in Ids : /\ rows[i].status \in {"absent", "superseded"}
                      /\ ~Locked(i)
                      /\ Write(c, i)

\* INSERT ... RETURNING id.
Insert(c) ==
    /\ pc[c] = "insert"
    /\ IndexFree(c)
    /\ \E i \in Ids : rows[i].status = "absent" /\ Write(c, i)

\* UniqueViolation: the index has a committed row nobody is writing.
InsertCollides(c) ==
    /\ pc[c] = "insert"
    /\ \E i \in Found(c) : ~Locked(i) /\ rival' = [rival EXCEPT ![c] = i]
    /\ pc' = [pc EXCEPT ![c] = "refind"]
    /\ UNCHANGED <<rows, hold, call, result, crashes>>

CommitAdd(c) ==
    /\ pc[c] = "commitAdd"
    /\ rows' = [rows EXCEPT ![hold[c]].status = "active"]
    /\ hold' = [hold EXCEPT ![c] = None]
    /\ Return(c, hold[c])
    /\ UNCHANGED crashes

\* After the rollback: the winner, or the violation again.
FindWinner(c) ==
    /\ pc[c] = "refind"
    /\ \E i \in Found(c) : Return(c, i)
    /\ UNCHANGED <<rows, hold, crashes>>

\* Mutant of Reraise: the violation is raised without a second look.
RaiseAtOnce(c) ==
    /\ pc[c] = "refind"
    /\ Return(c, "raised")
    /\ UNCHANGED <<rows, hold, crashes>>

Reraise(c) ==
    /\ pc[c] = "refind"
    /\ Found(c) = {}
    /\ Return(c, "raised")
    /\ UNCHANGED <<rows, hold, crashes>>

-----------------------------------------------------------------------------
(* retire *)

\* The caller names an id it was told by an earlier call.
CallRetire(c, t, i) ==
    /\ pc[c] = "idle"
    /\ rows[i].status \in {"active", "superseded"}
    /\ pc' = [pc EXCEPT ![c] = "update"]
    /\ call' = [call EXCEPT ![c] = [tenant |-> t, body |-> None, id |-> i]]
    /\ result' = [result EXCEPT ![c] = None]
    /\ rival' = [rival EXCEPT ![c] = None]
    /\ UNCHANGED <<rows, hold, crashes>>

\* UPDATE ... SET status = 'superseded': whatever the status was, and waiting
\* for the row's lock if it matches.
Update(c) ==
    /\ pc[c] = "update"
    /\ LET i == call[c].id IN
       IF Matches(i, call[c].tenant)
       THEN ~Locked(i) /\ hold' = [hold EXCEPT ![c] = i]
       ELSE UNCHANGED hold
    /\ pc' = [pc EXCEPT ![c] = "commitRetire"]
    /\ UNCHANGED <<rows, call, result, crashes, rival>>

\* Mutants of CommitRetire: a status the table does not know; no commit on a
\* connection that stays open, so the row stays locked.
CommitUnknownStatus(c) ==
    /\ pc[c] = "commitRetire"
    /\ rows' = IF hold[c] = None THEN rows
               ELSE [rows EXCEPT ![hold[c]].status = "retired"]
    /\ hold' = [hold EXCEPT ![c] = None]
    /\ Return(c, None)
    /\ UNCHANGED crashes
ForgetCommit(c) ==
    /\ pc[c] = "commitRetire"
    /\ Return(c, None)
    /\ UNCHANGED <<rows, hold, crashes>>

CommitRetire(c) ==
    /\ pc[c] = "commitRetire"
    /\ rows' = IF hold[c] = None THEN rows
               ELSE [rows EXCEPT ![hold[c]].status = "superseded"]
    /\ hold' = [hold EXCEPT ![c] = None]
    /\ Return(c, None)
    /\ UNCHANGED crashes

-----------------------------------------------------------------------------
\* The process dies, or a statement fails and the connection is closed: the
\* transaction is rolled back and the caller learns nothing.
Crash(c) ==
    /\ pc[c] # "idle"
    /\ crashes < MaxCrashes
    /\ crashes' = crashes + 1
    /\ rows' = IF pc[c] = "commitAdd" THEN [rows EXCEPT ![hold[c]] = NoRow]
               ELSE rows
    /\ hold' = [hold EXCEPT ![c] = None]
    /\ Return(c, None)

Init ==
    /\ rows = [i \in Ids |-> NoRow]
    /\ hold = [c \in Clients |-> None]
    /\ pc = [c \in Clients |-> "idle"]
    /\ call = [c \in Clients |-> NoCall]
    /\ result = [c \in Clients |-> None]
    /\ crashes = 0
    /\ rival = [c \in Clients |-> None]

\* What a call does once it is made.
Step(c) ==
    \/ FindExisting(c) \/ FindNothing(c)
    \/ Insert(c) \/ InsertCollides(c) \/ CommitAdd(c)
    \/ FindWinner(c) \/ Reraise(c)
    \/ Update(c) \/ CommitRetire(c)

Next ==
    \E c \in Clients :
        \/ \E t \in Callers, b \in Bodies : CallAdd(c, t, b)
        \/ \E t \in Callers, i \in Ids : CallRetire(c, t, i)
        \/ Step(c)
        \/ Crash(c)

Spec == Init /\ [][Next]_vars

\* A call that was made runs on unless it waits for a lock or its process
\* dies, and PostgreSQL serves those who wait for a row in turn: an UPDATE that
\* can go ahead again and again does.  Nobody is obliged to call.
FairSpec == Spec /\ \A c \in Clients : WF_vars(Step(c)) /\ SF_vars(Update(c))

-----------------------------------------------------------------------------
(* Properties *)

\* However adds and retires interleave, an identity has at most one active
\* constraint, and None and "" are one tenant (constraint_repository.py:3-5,
\* constraints.py:40, migration 007).
OneActivePerIdentity ==
    \A i, j \in Ids :
        /\ rows[i].status = "active"
        /\ rows[j].status = "active"
        /\ RowIdentity(i) = RowIdentity(j)
        => i = j

\* An add raises only if the row it lost the race to has been retired since:
\* the one case the fallback of constraint_repository.py:61-67 cannot answer.
RaisesOnlyIfRivalRetired ==
    \A c \in Clients :
        result[c] = "raised" =>
            /\ rival[c] # None
            /\ rows[rival[c]].status = "superseded"

\* The id an add returns names a row that is in force at that moment and that
\* the caller's own for_scope shows; only a caller who says "" may be given
\* the row of a caller who named no tenant (constraint_repository.py:41-67,
\* 82-99).
Answers(c) == result[c] = None /\ result'[c] \in Ids

ShownTo(t, i) == \/ i \in ForScope(t)
                 \/ t = EmptyTenant /\ rows[i].tenant = None /\ i \in ForScope(None)

AddedIsInForce ==
    [][\A c \in Clients, t \in Callers :
          Answers(c) /\ t = call[c].tenant => \E i \in Ids : /\ i = result'[c]
                                                             /\ ShownTo(t, i)']_vars

\* Every call comes to an end: no two transactions wait for each other on the
\* index and the row locks.
CallsReturn == \A c \in Clients : pc[c] # "idle" ~> pc[c] = "idle"

-----------------------------------------------------------------------------
(* The store implements the register *)

ActiveWith(k) == {i \in Ids : rows[i].status = "active" /\ RowIdentity(i) = k}

SomeOf(S) == CHOOSE i \in S : TRUE

ActiveOf == [k \in Identities |->
                IF ActiveWith(k) = {} THEN None ELSE SomeOf(ActiveWith(k))]

RetiredRows == {i \in Ids : rows[i].status = "superseded"}

Register == INSTANCE ConstraintRegister WITH active <- ActiveOf, retired <- RetiredRows

\* Seen from the committed rows, add and retire are single steps.
ImplementsRegister == Register!Spec
-----------------------------------------------------------------------------
(* The inductive invariant of ConstraintStore_proofs *)

\* A row lock belongs to one transaction that is about to commit.
HoldInv ==
    /\ \A c \in Clients :
          /\ hold[c] # None => pc[c] \in {"commitAdd", "commitRetire"}
          /\ pc[c] = "commitAdd" =>
                /\ hold[c] # None
                /\ rows[hold[c]].status = "inserting"
          /\ pc[c] = "commitRetire" /\ hold[c] # None =>
                rows[hold[c]].status \in {"active", "superseded"}
    /\ \A c, d \in Clients : hold[c] = hold[d] => c = d \/ hold[c] = None

\* What the index guards, counting the rows of open transactions.
UniqueIndex ==
    \A i, j \in Ids :
        /\ rows[i].status \in {"inserting", "active"}
        /\ rows[j].status \in {"inserting", "active"}
        /\ RowIdentity(i) = RowIdentity(j)
        => i = j

\* The row an INSERT collided with keeps its identity; only its status moves.
RivalInv ==
    \A c \in Clients :
        /\ pc[c] # "idle" => result[c] = None
        /\ pc[c] = "refind" =>
              /\ rival[c] # None
              /\ rows[rival[c]].status \in {"active", "superseded"}
              /\ RowIdentity(rival[c]) = Wanted(c)
        /\ result[c] = "raised" =>
              /\ rival[c] # None
              /\ rows[rival[c]].status = "superseded"

\* The row an open INSERT holds is the caller's own.
WrittenInv ==
    \A c \in Clients :
        pc[c] = "commitAdd" => rows[hold[c]].tenant = call[c].tenant

IInv == TypeOK /\ HoldInv /\ UniqueIndex /\ RivalInv /\ WrittenInv
=============================================================================
