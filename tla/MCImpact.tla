------------------------------ MODULE MCImpact ------------------------------
(***************************************************************************)
(* Three Claims: c depends on b and b on the challenged a, while a on c    *)
(* would close a cycle and one relation of another type looks as if it     *)
(* did.  Dependencies are created, ended and replaced while the jobs run.  *)
(***************************************************************************)
EXTENDS Impact, TLC

CONSTANTS a, b, c

Edge(from, to, type) == [source |-> from, target |-> to, type |-> type]

MCRelations ==
    {Edge(b, a, "depends_on"), Edge(c, b, "depends_on"), Edge(a, c, "depends_on"),
     Edge(c, a, "supports")}

Creations == {[end |-> {}, make |-> {r}] : r \in MCRelations}
Endings == {[end |-> {r}, make |-> {}] : r \in {d \in MCRelations : d.type = "depends_on"}}
Replacements ==
    {[end |-> {Edge(b, a, "depends_on")}, make |-> {Edge(a, c, "depends_on")}]}

ClaimRequests == Creations \union Endings \union Replacements

InFlight == Txns \ InPhase("idle")

\* Bound: once the Challenge is ruled upon, no command starts beside another;
\* those that were in flight go on beside each other and beside the jobs.
MCNext ==
    /\ ImpactNext
    /\ ruling = "open" \/ InFlight' \subseteq InFlight \/ InFlight = {}

MCSpec == ImpactInit /\ [][MCNext]_<<vars, impactVars>>

Symmetry == Permutations(Txns)

=============================================================================
