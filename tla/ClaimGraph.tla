------------------------------ MODULE ClaimGraph ------------------------------
(***************************************************************************)
(* The bounded graph upstream or downstream of one Claim.  The reader asks *)
(* for the relations of one level at a time and walks over what it got,    *)
(* so that each level is of another moment; Claim relations are created    *)
(* and ended meanwhile, each at once (DependencyGraph has their commands). *)
(***************************************************************************)
EXTENDS Naturals, FiniteSets

CONSTANTS
    Claims,
    Root,      \* the Claim whose graph is read
    Links,     \* the relations that may exist
    MaxDepth,
    MaxNodes,  \* what one graph holds at most, the root not counted
    MaxEdges

ASSUME RootIsAClaim == Root \in Claims
ASSUME ClaimsAreFinite == IsFiniteSet(Claims)
ASSUME LinksJoinClaims == Links \subseteq [source : Claims, target : Claims, type : STRING]
ASSUME LinksHaveNoLoops == \A l \in Links : l.source # l.target
ASSUME GraphBoundsAreNatural == MaxDepth \in Nat \ {0} /\ MaxNodes \in Nat /\ MaxEdges \in Nat

VARIABLES
    link,     \* the row of each relation: absent, active or ended
    graph,    \* the reader's request in hand, or its last
    standing  \* history: the relations active since the request began

graphVars == <<link, graph, standing>>

Upstream == "upstream"
Downstream == "downstream"

\* found: the depth of each Claim reached; level: the Claims whose relations
\* are asked for; next: those of the level after it; pending: the relations
\* that were returned and not yet walked over.
NoGraph == [step |-> "idle", direction |-> Upstream, depth |-> 0,
            found |-> [c \in {Root} |-> 0], level |-> {Root}, next |-> {},
            pending |-> {}, edges |-> {}, truncated |-> FALSE]

GraphInit ==
    /\ link = [l \in Links |-> "absent"]
    /\ graph = NoGraph
    /\ standing = {}

ActiveLinks == {l \in Links : link[l] = "active"}

\* The Claims that a search along these edges visits.
SearchedFrom(edges, claim) ==
    LET searched[n \in 0 .. Cardinality(Claims)] ==
          IF n = 0 THEN {claim}
          ELSE searched[n - 1] \union
                 {e.target : e \in {d \in edges : d.source \in searched[n - 1]}}
    IN  searched[Cardinality(Claims)]

HasGraphPath(edges, from, target) == target \in SearchedFrom(edges, from)

-----------------------------------------------------------------------------
(* Relations come and go *)

\* An ended row is never active again.  Commands that overlap may close a cycle
\* of dependencies, and the reader cannot rely on there being none.
Relate(l) ==
    /\ link[l] = "absent"
    /\ link' = [link EXCEPT ![l] = "active"]
    /\ UNCHANGED <<graph, standing>>

Unrelate(l) ==
    /\ link[l] = "active"
    /\ link' = [link EXCEPT ![l] = "ended"]
    /\ standing' = standing \ {l}
    /\ UNCHANGED graph

-----------------------------------------------------------------------------
(* claimGraph *)

\* Relations whose target is the source's prerequisite, origin or prior
\* context; of the others the source is the context.
TargetIsUpstream == {"depends_on", "reproduces", "extends", "supersedes",
                     "derived_from", "uses_method", "uses_dataset", "implements"}

\* Where a relation leads from and to, in a direction of reading.
TraversalEndpoints(l, direction) ==
    IF (l.type \in TargetIsUpstream) = (direction = Upstream)
    THEN [from |-> l.source, to |-> l.target]
    ELSE [from |-> l.target, to |-> l.source]

Ask(direction) ==
    /\ graph.step \in {"idle", "done"}
    /\ graph' = [NoGraph EXCEPT !.step = "asking", !.direction = direction]
    /\ standing' = ActiveLinks
    /\ UNCHANGED link

\* The active relations of the Claims on this level.
Incident == {l \in ActiveLinks : {l.source, l.target} \intersect graph.level # {}}

\* Fault: the query is for as many rows as a graph may hold, so that a page
\* is never known to be cut.
PageAtTheLimit(page) == FALSE

\* The query is for one row more than a graph may hold: a page with that many
\* is cut, and the graph is known to be incomplete.
CutPage(page) == Cardinality(page) > MaxEdges

QueryLevel ==
    /\ graph.step = "asking"
    /\ \E page \in SUBSET Incident :
          /\ \/ page = Incident /\ Cardinality(Incident) <= MaxEdges
             \/ Cardinality(page) = MaxEdges /\ Cardinality(Incident) > MaxEdges
          /\ graph' = [graph EXCEPT
                !.step = "walking",
                !.truncated = @ \/ CutPage(Incident),
                !.pending = {l \in page :
                    TraversalEndpoints(l, graph.direction).from \in graph.level}]
    /\ UNCHANGED <<link, standing>>

\* The edge would close a cycle among those already in the graph.
Closes(l) == HasGraphPath(graph.edges, l.target, l.source)

Reached(c) == c \in DOMAIN graph.found

OverBudget(l) ==
    \/ Cardinality(graph.edges) >= MaxEdges
    \/ /\ ~ Reached(TraversalEndpoints(l, graph.direction).to)
       /\ Cardinality(DOMAIN graph.found \ {Root}) >= MaxNodes

\* The relations of a level are walked over in some order: one that closes a
\* cycle is passed over, one beyond the budget ends the graph.
PassOver(l) ==
    /\ graph.step = "walking" /\ l \in graph.pending
    /\ Closes(l)
    /\ graph' = [graph EXCEPT !.pending = @ \ {l}]
    /\ UNCHANGED <<link, standing>>

GiveUp(l) ==
    /\ graph.step = "walking" /\ l \in graph.pending
    /\ ~ Closes(l) /\ OverBudget(l)
    /\ graph' = [graph EXCEPT !.step = "done", !.truncated = TRUE, !.pending = {}]
    /\ UNCHANGED <<link, standing>>

TakeEdge(l) ==
    LET to == TraversalEndpoints(l, graph.direction).to
    IN  /\ graph.step = "walking" /\ l \in graph.pending
        /\ ~ Closes(l) /\ ~ OverBudget(l)
        /\ graph' = [graph EXCEPT
              !.pending = @ \ {l},
              !.edges = @ \union {l},
              !.next = IF Reached(to) THEN @ ELSE @ \union {to},
              !.found = [c \in DOMAIN @ \union {to} |->
                           IF Reached(c) THEN graph.found[c] ELSE graph.depth + 1]]
        /\ UNCHANGED <<link, standing>>

\* The next level is asked for, unless it is empty or as deep as was asked.
EndLevel ==
    /\ graph.step = "walking" /\ graph.pending = {}
    /\ graph' = [graph EXCEPT
          !.step = IF graph.next = {} \/ graph.depth + 1 = MaxDepth THEN "done" ELSE "asking",
          !.depth = @ + 1, !.level = graph.next, !.next = {}]
    /\ UNCHANGED <<link, standing>>

GraphNext ==
    \/ \E l \in Links : Relate(l) \/ Unrelate(l) \/ PassOver(l) \/ GiveUp(l) \/ TakeEdge(l)
    \/ \E direction \in {Upstream, Downstream} : Ask(direction)
    \/ QueryLevel \/ EndLevel

GraphSpec == GraphInit /\ [][GraphNext]_graphVars

-----------------------------------------------------------------------------
\* The Claims at most n relations away from the root.
Within(links, direction, n) ==
    LET within[i \in 0 .. n] ==
          IF i = 0 THEN {Root}
          ELSE within[i - 1] \union
                 {TraversalEndpoints(l, direction).to :
                    l \in {k \in links : TraversalEndpoints(k, direction).from \in within[i - 1]}}
    IN  within[n]

\* A graph that is not marked truncated has every Claim that the relations
\* which stood while it was read lead to, no deeper than they lead: neither an
\* edge passed over nor a change between two levels hides a Claim.
GraphIsComplete ==
    graph.step = "done" /\ ~ graph.truncated =>
        \A n \in 1 .. MaxDepth :
            \A c \in Within(standing, graph.direction, n) :
                Reached(c) /\ graph.found[c] <= n

=============================================================================
