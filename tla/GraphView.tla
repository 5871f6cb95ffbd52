------------------------------ MODULE GraphView ------------------------------
(***************************************************************************)
(* The graph on the page of a Claim.  The page reads it upstream,          *)
(* downstream or, with two requests, both; it merges what it got, finds    *)
(* the side and the distance of each Claim anew from the relations, and    *)
(* draws what its filters let through.  A view that is called complete may *)
(* name its Claims roots and leaves.                                       *)
(*                                                                         *)
(* Of two requests one follows the other here, in either order; what was   *)
(* shown before a choice is forgotten at once.                             *)
(***************************************************************************)
EXTENDS ClaimGraph

VARIABLES
    page, \* the direction chosen, the requests due, and the graphs got
    stood \* history: the relations active throughout each of those reads

viewVars == <<link, graph, standing, page, stood>>

Both == "both"
DirectionsOf(choice) == IF choice = Both THEN {Upstream, Downstream} ELSE {choice}

NoPage == [choice |-> "none", asked |-> "none", read |-> << >>]

ViewInit == GraphInit /\ page = NoPage /\ stood = Links

\* A choice abandons the requests of the one before it.
Choose(choice) ==
    /\ page' = [NoPage EXCEPT !.choice = choice]
    /\ graph' = NoGraph /\ standing' = {} /\ stood' = Links
    /\ UNCHANGED link

Arrived == page.choice # "none" /\ DOMAIN page.read = DirectionsOf(page.choice)

RequestGraph(direction) ==
    /\ page.choice # "none" /\ page.asked = "none"
    /\ direction \in DirectionsOf(page.choice) \ DOMAIN page.read
    /\ Ask(direction)
    /\ page' = [page EXCEPT !.asked = direction]
    /\ UNCHANGED stood

Receive ==
    /\ page.asked # "none" /\ graph.step = "done"
    /\ page' = [page EXCEPT
          !.asked = "none",
          !.read = [d \in DOMAIN @ \union {page.asked} |->
                      IF d # page.asked THEN page.read[d]
                      ELSE [found |-> graph.found, edges |-> graph.edges,
                            truncated |-> graph.truncated]]]
    /\ stood' = stood \intersect standing
    /\ graph' = NoGraph /\ standing' = {}
    /\ UNCHANGED link

\* What goes on between a request and its answer.
Serve ==
    /\ \/ \E l \in Links : PassOver(l) \/ GiveUp(l) \/ TakeEdge(l)
       \/ QueryLevel \/ EndLevel
    /\ UNCHANGED <<page, stood>>

Change ==
    /\ \E l \in Links : Relate(l) \/ Unrelate(l)
    /\ UNCHANGED <<page, stood>>

ViewNext ==
    \/ \E choice \in {Both, Upstream, Downstream} : Choose(choice)
    \/ \E direction \in {Upstream, Downstream} : RequestGraph(direction)
    \/ Receive \/ Serve \/ Change

ViewSpec == ViewInit /\ [][ViewNext]_viewVars

-----------------------------------------------------------------------------
(* What is drawn *)

ReadEdges == UNION {page.read[d].edges : d \in DOMAIN page.read}
Truncated == \E d \in DOMAIN page.read : page.read[d].truncated

ReadNodes == UNION {DOMAIN page.read[d].found : d \in DOMAIN page.read}

\* Fault: the relations of both directions are merged by their ends alone.
MergedByEnds ==
    {e \in ReadEdges : e = CHOOSE f \in ReadEdges : f.source = e.source /\ f.target = e.target}

\* A relation that both directions returned is drawn once, and one is drawn
\* only between nodes.
Merged == {e \in ReadEdges : {e.source, e.target} \subseteq ReadNodes}

\* Steps along the relations, and against them.
Hops(direction) ==
    {IF direction = Downstream THEN <<e.source, e.target>> ELSE <<e.target, e.source>> : e \in Merged}

Distance(direction, claim) ==
    LET hops == Hops(direction)
        reached[n \in 0 .. Cardinality(Claims)] ==
          IF n = 0 THEN {Root}
          ELSE reached[n - 1] \union {h[2] : h \in {g \in hops : g[1] \in reached[n - 1]}}
        after == {n \in 0 .. Cardinality(Claims) : claim \in reached[n]}
    IN  IF after = {} THEN Cardinality(Claims)
        ELSE CHOOSE n \in after : \A m \in after : n <= m

Connected(direction, claim) == Distance(direction, claim) < Cardinality(Claims)

\* A Claim that no path of relations joins to the root keeps the side and the
\* depth with which it was read; of two reads the downstream one counts.
LastReadOf(claim) ==
    IF Downstream \in DOMAIN page.read /\ claim \in DOMAIN page.read[Downstream].found
    THEN Downstream ELSE Upstream

SideOf(claim) ==
    CASE Connected(Upstream, claim)
           /\ Distance(Upstream, claim) <= Distance(Downstream, claim) -> Upstream
      [] ~ Connected(Upstream, claim) /\ ~ Connected(Downstream, claim) -> LastReadOf(claim)
      [] OTHER -> Downstream

DistanceOf(claim) ==
    IF Connected(SideOf(claim), claim) THEN Distance(SideOf(claim), claim)
    ELSE page.read[LastReadOf(claim)].found[claim]

\* The root is always kept; among are the Claims whose state is not filtered.
Kept(side, depth, among) ==
    {c \in ReadNodes : c = Root \/ /\ c \in among
                                   /\ DistanceOf(c) <= depth
                                   /\ side \in {Both, SideOf(c)}}

KeptEdges(kept) == {e \in Merged : {e.source, e.target} \subseteq kept}

\* Fault: a filter leaves the completeness of a view as it was.
CompleteBeforeFilters(kept) == ~ Truncated

Complete(kept) == ~ Truncated /\ kept = ReadNodes /\ KeptEdges(kept) = Merged

Views == {Kept(side, depth, among) :
            side \in {Both, Upstream, Downstream}, depth \in 1 .. MaxDepth,
            among \in {Claims, {Root}}}

-----------------------------------------------------------------------------
\* Every relation that was read is drawn as it is stored, and no other: two of
\* different types between the same Claims stay two, and none hangs in the air.
EveryRelationIsDrawn == Arrived => Merged = ReadEdges

\* The relations that a read in these directions starts from.
AtTheRoot(links) ==
    {l \in links : \E d \in DirectionsOf(page.choice) : TraversalEndpoints(l, d).from = Root}

\* A view that is called complete has every relation of the root that stood
\* while it was read, but those that would close a cycle in the drawing.
CompleteViewsAreWhole ==
    Arrived =>
        \A kept \in Views : Complete(kept) =>
            \A l \in AtTheRoot(stood) :
                l \in KeptEdges(kept) \/ HasGraphPath(Merged, l.target, l.source)

\* docs/design/01-design-foundations.md: the upstream view answers "what does
\* this conclusion rest on": it shows the Claims that were read upstream.
SidesAreThoseRead ==
    Arrived /\ page.choice # Both => Kept(page.choice, MaxDepth, Claims) = ReadNodes

=============================================================================
