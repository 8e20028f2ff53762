----------------------------- MODULE OutcomeLog -----------------------------
(***************************************************************************)
(* What BriefOutcomeRepository promises its callers: a log that grows by   *)
(* one entry at a time, holds one entry for each idempotency key of a      *)
(* brief, and answers every call with an entry of its brief and key        *)
(* (src/chips/memory/outcome_repository.py:36-45, migration 005).          *)
(***************************************************************************)
CONSTANTS
    Ids,        \* outcome ids
    Briefs, Tenants, Verdicts, Keys,    \* what an entry may say
    Keyless     \* the key of an entry without one

VARIABLES
    log,        \* the recorded entries, each with its id
    told        \* the answers: brief, key, and the entry that was named

Init == log = {} /\ told = {}

\* An entry gets an id of its own, and there is none with its key.
Record(row) ==
    /\ row \in [id : Ids, brief : Briefs, tenant : Tenants, verdict : Verdicts, key : Keys]
    /\ \A old \in log : /\ old.id # row.id
                        /\ old.brief = row.brief /\ old.key = row.key => row.key = Keyless
    /\ log' = log \cup {row}
    /\ UNCHANGED told

Tell(row) ==
    /\ row \in log
    /\ told' = told \cup {[brief |-> row.brief, key |-> row.key, row |-> row]}
    /\ UNCHANGED log

\* What is recorded is in the log afterwards.
Next == (\E row \in log' : Record(row)) \/ (\E row \in log : Tell(row))

Spec == Init /\ [][Next]_<<log, told>>

=============================================================================
