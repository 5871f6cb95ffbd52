----------------------------- MODULE MCBackfill -----------------------------
(***************************************************************************)
(* Two revisions of one node and one of another; a relation that becomes   *)
(* an edge and one that becomes a motif.                                   *)
(***************************************************************************)
EXTENDS Backfill

A(rev) == [node |-> "a", rev |-> rev]
B == [node |-> "b", rev |-> 1]

MCSources == <<"research_node", "relation">>
MCScan == [research_node |-> <<"a1", "a2", "b1">>, relation |-> <<"r1", "r2">>]
MCDescribes == [a1 |-> A(1), a2 |-> A(2), b1 |-> B]
MCJoins == [r1 |-> [source |-> B, target |-> A(2), direct |-> TRUE],
            r2 |-> [source |-> A(1), target |-> B, direct |-> FALSE]]

\* All rows are there; the edge would be another author's than its target; or one
\* node and its motif are missing and a relation is deleted.
MCInitially ==
    {[a1 |-> "plain", a2 |-> "plain", b1 |-> "plain", r1 |-> relation, r2 |-> "plain"] :
        relation \in {"plain", "disowned"}}
    \union
    {[a1 |-> "plain", a2 |-> "plain", b1 |-> "absent", r1 |-> "deleted", r2 |-> "absent"]}

=============================================================================
