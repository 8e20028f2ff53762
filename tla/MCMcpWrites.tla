---------------------------- MODULE MCMcpWrites ----------------------------
(***************************************************************************)
(* Two server processes.  Brief 1 is a tenant's, brief 2 nobody's; what is *)
(* submitted differs in one thing at a time, so that any two calls are     *)
(* about the same row, or just not.                                        *)
(***************************************************************************)
EXTENDS McpWrites

CONSTANTS a, b, t, u, k

BriefsOne == [i \in 1 .. 2 |-> [tenant |-> IF i = 1 THEN t ELSE None,
                                memories |-> <<[id |-> 7, score |-> 600]>>]]

Report(brief, verdict, key, tenant) ==
    [brief |-> brief, verdict |-> verdict, key |-> key, tenant |-> tenant]
FeedbackSet ==
    {Report(1, "accepted", k, t), Report(1, "rejected", k, None), Report(2, "accepted", k, t),
     Report(1, "ignored", None, u), Report(2, "ignored", None, u)}
RemarkSet == {[brief |-> 1, note |-> note] : note \in {None, "note"}}
FewReports == {Report(1, "accepted", k, t), Report(2, "rejected", None, None)}

Constraint(id, rule, path, symbol) ==
    [id |-> id, kind |-> "constraint", rule |-> rule, weight |-> 1000, path |-> path,
     symbol |-> symbol]
Evidence(id, kind, weight) == [id |-> id, kind |-> kind, weight |-> weight]
Bundle(id) ==
    [id |-> id,
     constraints |-> <<Constraint(11, "forbidden", 91, None), Constraint(12, "invariant", None, 92),
                       Constraint(13, "known_issue", 93, None)>>,
     evidence |-> <<Evidence(21, "memory", 600), Evidence(22, "diff", 300),
                  Evidence(23, "finding", 200), Evidence(23, "finding", 200)>>]

Hypothesis(id, cited, paths, symbols, declared) ==
    [id |-> id, cited |-> cited, paths |-> paths, symbols |-> symbols, declared |-> declared]
Plain == Hypothesis(31, <<21, 22>>, {90}, {}, {})
Padded == Hypothesis(32, <<21, 99, 21, 22, 21>>, {90, 93}, {}, {98})
Again == Hypothesis(32, <<23, 13, 23>>, {}, {}, {})
Breaking == Hypothesis(33, <<11, 21, 22>>, {91}, {92}, {11})

Submission(brief, hypotheses, rejected) ==
    [bundle |-> Bundle(brief), hypotheses |-> hypotheses, rejected |-> rejected,
     tenant |-> BriefsOne[brief].tenant]
SubmissionSet ==
    {Submission(1, <<Plain, Padded, Breaking>>, <<33, 32, 97>>),
     Submission(1, <<Breaking, Padded, Again>>, <<32>>),
     Submission(2, <<Breaking>>, <<33>>)}

ResolutionSet ==
    {[status |-> "promoted", promoted |-> 51], [status |-> "dismissed", promoted |-> None],
     [status |-> "accepted", promoted |-> None]}
=============================================================================
