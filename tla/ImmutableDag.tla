---------------------------- MODULE ImmutableDag ----------------------------
(***************************************************************************)
(* What the research graph promises to everyone who cites a revision: a    *)
(* graph that only ever grows, by one vertex at a time, and whose vertex   *)
(* arrives together with all the arcs that will ever enter it.             *)
(***************************************************************************)
CONSTANT Vertex

VARIABLES verts, \* the vertices published so far
          arcs   \* pairs <<source, target>> of published vertices

vars == <<verts, arcs>>

Init ==
    /\ verts \subseteq Vertex
    /\ arcs = {}

\* A new vertex enters with arcs from vertices that are already there.
Publish(v) ==
    /\ v \notin verts
    /\ verts' = verts \union {v}
    /\ \E sources \in SUBSET verts : arcs' = arcs \union (sources \X {v})

Next == \E v \in Vertex : Publish(v)

Spec == Init /\ [][Next]_vars

-----------------------------------------------------------------------------
ArcsArePublished == arcs \subseteq verts \X verts

\* No cycle: every non-empty set of vertices has a member that no arc enters
\* from inside the set (the members of a cycle would be a counterexample).
Acyclic ==
    \A S \in SUBSET verts :
        S # {} => \E v \in S : \A a \in arcs : ~ (a[1] \in S /\ a[2] = v)

=============================================================================
