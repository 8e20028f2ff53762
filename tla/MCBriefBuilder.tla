--------------------------- MODULE MCBriefBuilder ---------------------------
(***************************************************************************)
(* Worlds for BriefBuilder.  Each slice starts from Plain and varies one   *)
(* thing: how confident the memories are, what was found in their commits, *)
(* who owns the rows, how large they are, how the code calls itself, or    *)
(* what happens around two calls.  Ids tell the kinds apart: memories from *)
(* 1, files from 11, commits from 21, definitions from 31, findings from   *)
(* 41, policy entries from 61; edits are numbers too.                      *)
(***************************************************************************)
EXTENDS BriefBuilder

CONSTANTS t, u      \* tenants

NoFindings == [security |-> <<>>, architecture |-> <<>>]
Memory(id, type, confidence, enrichment) ==
    [id |-> id, type |-> type, tenant |-> t, scope |-> "api", confidence |-> confidence,
     learned |-> 0, chars |-> 6, tokens |-> 2, enrichment |-> enrichment]
File(id) == [id |-> id, tenant |-> t, churn |-> 400, entropy |-> 200, defects |-> 1,
             recency |-> 500, chars |-> 6, tokens |-> 2]
Commit(id) == [id |-> id, tenant |-> t, touches |-> {"api"}, recency |-> 1000 - 40 * (id - 21),
               pairs |-> id % 2, chars |-> 6, tokens |-> 2]
Def(id, name, file, tokens, callees) ==
    [id |-> id, name |-> name, file |-> file, chars |-> 4 * tokens, tokens |-> tokens,
     callees |-> callees]
Finding(id, rank, line) ==
    [id |-> id, rank |-> rank, line |-> line, chars |-> 4, tokens |-> 1]
Request(scope, files, tenant) == [scope |-> scope, files |-> files, tenant |-> tenant]

Rule(kind, scope, tenant, target) ==
    [kind |-> kind, scope |-> scope, tenant |-> tenant, target |-> target]
Everywhere == Rule("forbidden", "*", t, 71)
InApi == Rule("invariant", "api", t, 72)
Issue == Rule("known_issue", "api", u, 73)
RuleSet == {Everywhere, InApi, Issue}

Caps == [security |-> 2, dead_code |-> 2]

Scored(f(_)) == [status |-> "scored", scores |-> [i \in 1 .. 60 |-> f(i)]]
AnswersByName ==
    [unavailable |-> [status |-> "unavailable", scores |-> <<>>],
     reversed |-> Scored(LAMBDA i : i),
     flat |-> Scored(LAMBDA i : 0)]

Plain ==
    [memories |-> <<Memory(1, "lesson", 600, NoFindings), Memory(2, "contract", 500, NoFindings)>>,
     files |-> <<File(11)>>,
     commits |-> <<Commit(21), Commit(22), Commit(23)>>,
     symbols |-> <<Def(31, 31, 11, 2, <<>>)>>,
     policies |-> <<[scope |-> "*", forbidden |-> <<61>>, required |-> <<71, 74>>],
                    [scope |-> "api", forbidden |-> <<>>, required |-> <<72, 73>>]>>,
     rules |-> <<InApi>>,
     requests |-> {Request("api", <<11>>, t)},
     answers |-> {"unavailable", "reversed"},
     calls |-> 1,
     events |-> 0]

\* The governor: two or three memories, each good or poor.
Confidences ==
    {[Plain EXCEPT !.memories = [i \in 1 .. n |-> Memory(i, "lesson", c[i], NoFindings)]] :
        n \in 2 .. 3, c \in [1 .. 3 -> {700, 800}]}

\* More findings than the cap lets through, in any order.
Enriched ==
    {[Plain EXCEPT !.memories =
        <<Memory(1, "lesson", 600,
                 [security |-> [i \in 1 .. 4 |-> Finding(40 + i, ranks[i], 5 - i)],
                  architecture |-> <<Finding(51, 0, 1)>>,
                  dead_code |-> <<Finding(52, 60, 1)>>]),
          Memory(2, "invariant", 500,
                 [security |-> <<Finding(44, ranks[4], 1)>>,
                  architecture |-> <<>>,
                  dead_code |-> <<Finding(52, 60, 1), Finding(53, 90, 2), Finding(54, 80, 3)>>])>>] :
        ranks \in [1 .. 4 -> 0 .. 2]}

\* One row of each kind belongs to the other tenant, or is about another part.
Owners ==
    {[Plain EXCEPT !.memories[i].tenant = a, !.memories[j].scope = "web",
                   !.files[1].tenant = b, !.commits[i].tenant = b, !.commits[j].touches = {"web"},
                   !.rules = <<Issue, InApi, Everywhere>>,
                   !.requests = {Request(s, <<11>>, x) : s \in {"api", None}, x \in {t, None}}] :
        i \in 1 .. 2, j \in 1 .. 2, a \in {t, u}, b \in {t, u}}

\* Texts that fill the prompt, and texts that no prompt takes.
Sizes ==
    {[Plain EXCEPT !.memories[1].chars = n[1], !.files[1].chars = n[2],
                   !.commits[1].chars = n[3], !.commits[2].tokens = n[4],
                   !.symbols[1].tokens = n[4], !.answers = {"unavailable", "reversed", "flat"}] :
        n \in {2, 7, 40} \X {2, 40} \X {7, 40} \X {1, 9}}

\* Ways five definitions call each other: forward and backward, directly and
\* by a detour; a definition too large to show, and a name defined twice.
Calls ==
    {[Plain EXCEPT !.symbols = <<Def(31, 31, 11, 1, c[1]), Def(35, 35, 11, 1, c[5]),
                                 Def(32, 32, 12, 1, c[2]), Def(33, 33, 12, size, c[3]),
                                 Def(34, last, 12, 2, c[4])>>,
                   !.requests = {Request("api", files, t)},
                   !.answers = {"unavailable"}] :
        c \in {<<>>, <<32>>, <<33, 32>>} \X {<<33>>, <<31, 34>>}
                \X {<<34>>, <<31>>} \X {<<>>, <<32>>} \X {<<>>, <<33>>},
        size \in {1, 4}, last \in {33, 34}, files \in {<<11, 12>>, <<12, 11>>}}

\* Two calls among sources that fail and constraints that come and go.
Busy ==
    {[Plain EXCEPT !.memories = <<Memory(1, "lesson", 600, NoFindings)>>,
                   !.files = <<>>, !.commits = <<Commit(21)>>, !.symbols = <<>>,
                   !.requests = {Request("api", <<>>, t), Request(None, <<>>, None)},
                   !.answers = {"unavailable"},
                   !.calls = 2, !.events = 2]}

AllWorlds == Confidences \cup Enriched \cup Owners \cup Sizes \cup Calls \cup Busy
=============================================================================
