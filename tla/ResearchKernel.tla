--------------------------- MODULE ResearchKernel ---------------------------
(***************************************************************************)
(* The write path of the research graph: the typed-node commands (Answer,  *)
(* Rebuttal, Evaluation, Dataset, Tool) running as concurrent database     *)
(* transactions over research_nodes, research_node_revisions,              *)
(* research_edges and research_events, with the constraints and triggers   *)
(* that guard those tables.                                                *)
(*                                                                         *)
(* A command awaits the database several times and the external signer     *)
(* once, so other commands commit in between: one action per await.  The   *)
(* inserts and the commit are one action, because unique indexes make a    *)
(* second inserter of a key wait for the first and then fail; every read   *)
(* sees the latest committed rows (READ COMMITTED).                        *)
(***************************************************************************)
EXTENDS Naturals, FiniteSets, EdgeRegistry

CONSTANTS
    Txns,        \* command invocations that may be in flight together
    Actors,      \* people who sign
    NodeIds,     \* stable node ids
    Commands,    \* the commands that may be submitted
    NoCommand,   \* what an idle invocation holds
    SeedRank,    \* revisions already in the graph: [Ref -> commit rank]
    SeedAuthor,  \* who wrote them
    FirstRank,   \* the sequence's next value at the start
    MaxRank,     \* bound: commit ranks handed out stay below it
    MaxRevision, \* bound: revision numbers
    Retirable,   \* bound: the nodes that may be retired
    Dismissable  \* bound: the actors who may lose their membership

Ref == [kind : NodeKind, id : NodeIds, revision : 1 .. MaxRevision]

-----------------------------------------------------------------------------
(* Commands *)

\* The relation a command always carries (the subject) and the one it may
\* carry any number of times (the basis).  Dataset and Tool have no basis.
Motif ==
    [answer     |-> [subject |-> "answers", from |-> {"question"},
                     basis |-> "derived_from", basisFrom |-> NodeKind],
     rebuttal   |-> [subject |-> "rebuts", from |-> ReasoningSubjects,
                     basis |-> "grounds_rebuttal", basisFrom |-> EvaluationBases],
     evaluation |-> [subject |-> "evaluates", from |-> {"claim"},
                     basis |-> "evaluation_basis", basisFrom |-> EvaluationBases],
     dataset    |-> [subject |-> "materializes_dataset", from |-> {"artifact"},
                     basis |-> "none", basisFrom |-> {}],
     tool       |-> [subject |-> "packages_tool", from |-> {"artifact"},
                     basis |-> "none", basisFrom |-> {}]]

TypedKind == DOMAIN Motif

Command ==
    [actor : Actors, kind : TypedKind, id : NodeIds,
     revision : 1 .. MaxRevision,
     subjects : SUBSET Ref,   \* one reference; none for an unpackaged tool
     bases : SUBSET Ref]

\* The checks a command makes on its own arguments before any transaction.
WellFormed(c) ==
    /\ c \in Command
    /\ \E s \in Ref : c.subjects = {s} \/ (c.kind = "tool" /\ c.subjects = {})
    /\ \A s \in c.subjects : s.kind \in Motif[c.kind].from
    /\ \A s \in c.bases : s.kind \in Motif[c.kind].basisFrom
    /\ c.kind = "evaluation" => c.bases # {}
    /\ c.kind = "answer" => c.subjects \intersect c.bases = {}

ASSUME CommandsAreWellFormed == \A c \in Commands : WellFormed(c)
ASSUME NoCommandIsNone == NoCommand \notin Commands
ASSUME BoundsAreNatural == FirstRank \in Nat /\ MaxRank \in Nat /\ MaxRevision \in Nat
ASSUME SeedsAreRanked ==
    /\ SeedAuthor \in Actors
    /\ SeedRank \in [DOMAIN SeedRank -> 1 .. FirstRank - 1]
    /\ \A r \in DOMAIN SeedRank :
         r \in Ref /\ r.revision = 1 /\ r.kind \notin TypedKind
    /\ \A r, s \in DOMAIN SeedRank : SeedRank[r] = SeedRank[s] \/ r.id = s.id => r = s

Target(c) == [kind |-> c.kind, id |-> c.id, revision |-> c.revision]
PreviousRef(c) == [Target(c) EXCEPT !.revision = c.revision - 1]

\* The incoming edges a command asks for, the supersedes edge included.
IncomingPlans(c) ==
    {[type |-> Motif[c.kind].subject, source |-> s] : s \in c.subjects}
      \union {[type |-> Motif[c.kind].basis, source |-> s] : s \in c.bases}
      \union (IF c.revision = 1 THEN {}
              ELSE {[type |-> "supersedes", source |-> PreviousRef(c)]})

-----------------------------------------------------------------------------
(* State *)

VARIABLES
    nodes,        \* research_nodes: kind and retirement of each stable id
    revisions,    \* research_node_revisions
    edges,        \* research_edges
    events,       \* research_events: what each signed event binds
    seq,          \* research_commit_rank_seq: the next value
    contributors, \* actors whose project membership may author
    txn           \* progress of each command invocation

graph == <<nodes, revisions, edges, events>>
vars == <<nodes, revisions, edges, events, seq, contributors, txn>>

\* An event id is a fresh UUIDv7; the commit rank that the event's payload
\* binds is just as unique, and stands for it.
NodeRow == [kind : NodeKind \union {"none"}, retired : BOOLEAN]
RevisionRow == [ref : Ref, rank : Nat, event : Nat, author : Actors]
EdgeRow == [type : EdgeType, source : Ref, target : Ref,
            sourceRank : Nat, targetRank : Nat,
            event : Nat, author : Actors]
Plan == [type : EdgeType, source : Ref]
Event == [id : Nat, target : Ref, incoming : SUBSET Plan]
Resolved == [type : EdgeType, source : Ref, rank : Nat]
Txn == [phase : {"idle", "checked", "ranked", "resolved", "signed"},
        cmd : Commands \union {NoCommand},
        rank : Nat,
        resolved : SUBSET Resolved]

Idle == [phase |-> "idle", cmd |-> NoCommand, rank |-> 0, resolved |-> {}]

TypeOK ==
    /\ nodes \in [NodeIds -> NodeRow]
    /\ revisions \subseteq RevisionRow
    /\ edges \subseteq EdgeRow
    /\ events \subseteq Event
    /\ seq \in Nat
    /\ contributors \subseteq Actors
    /\ txn \in [Txns -> Txn]

Init ==
    /\ nodes = [n \in NodeIds |->
                  [kind |-> IF \E r \in DOMAIN SeedRank : r.id = n
                            THEN (CHOOSE r \in DOMAIN SeedRank : r.id = n).kind
                            ELSE "none",
                   retired |-> FALSE]]
    /\ revisions = {[ref |-> r, rank |-> SeedRank[r], event |-> SeedRank[r],
                     author |-> SeedAuthor] : r \in DOMAIN SeedRank}
    /\ edges = {}
    /\ events = {[id |-> SeedRank[r], target |-> r, incoming |-> {}] :
                   r \in DOMAIN SeedRank}
    /\ seq = FirstRank
    /\ contributors = Actors
    /\ txn = [t \in Txns |-> Idle]

Committed == {row.ref : row \in revisions}

-----------------------------------------------------------------------------
(* One typed-node command *)

\* The role is resolved before the transaction starts; inside it the command
\* reads the target revision, the stable node and the previous revision.  A
\* check that fails throws, and nothing has changed.
Begin(t, c) ==
    /\ txn[t].phase = "idle"
    /\ c.actor \in contributors
    /\ Target(c) \notin Committed
    /\ IF c.revision = 1
       THEN nodes[c.id].kind # c.kind
       ELSE /\ nodes[c.id].kind = c.kind
            /\ ~ nodes[c.id].retired
            /\ PreviousRef(c) \in Committed
    /\ txn' = [txn EXCEPT ![t] = [phase |-> "checked", cmd |-> c, rank |-> 0,
                                   resolved |-> {}]]
    /\ UNCHANGED <<graph, seq, contributors>>

\* nextval is not transactional: a rank is consumed even if the command fails.
AllocateRank(t) ==
    /\ txn[t].phase = "checked"
    /\ seq < MaxRank
    /\ txn' = [txn EXCEPT ![t].phase = "ranked", ![t].rank = seq]
    /\ seq' = seq + 1
    /\ UNCHANGED <<graph, contributors>>

\* Fault: a source may be committed at a rank above the target's.
ResolveWithoutRanks(t) ==
    LET c == txn[t].cmd
        found == UNION {{[type |-> p.type, source |-> p.source, rank |-> row.rank] :
                            row \in {r \in revisions : r.ref = p.source}} :
                          p \in IncomingPlans(c)}
    IN  /\ txn[t].phase = "ranked"
        /\ \A p \in IncomingPlans(c) : p.source \in Committed
        /\ txn' = [txn EXCEPT ![t].phase = "resolved", ![t].resolved = found]
        /\ UNCHANGED <<graph, seq, contributors>>

\* Every source must exist, be admitted by the protocol registry and carry a
\* rank below the target's, before anybody is asked to sign.
ResolveSources(t) ==
    LET c == txn[t].cmd
        found == UNION {{[type |-> p.type, source |-> p.source, rank |-> row.rank] :
                            row \in {r \in revisions : r.ref = p.source}} :
                          p \in IncomingPlans(c)}
    IN  /\ txn[t].phase = "ranked"
        /\ \A p \in IncomingPlans(c) :
             /\ p.source # Target(c)
             /\ ProtocolAdmits(p.type, p.source.kind, c.kind)
             /\ \E row \in revisions : row.ref = p.source /\ row.rank < txn[t].rank
        /\ txn' = [txn EXCEPT ![t].phase = "resolved", ![t].resolved = found]
        /\ UNCHANGED <<graph, seq, contributors>>

\* The event factory returns an event that binds target, rank and sources.
Sign(t) ==
    /\ txn[t].phase = "resolved"
    /\ txn' = [txn EXCEPT ![t].phase = "signed"]
    /\ UNCHANGED <<graph, seq, contributors>>

NewRevision(t) ==
    [ref |-> Target(txn[t].cmd), rank |-> txn[t].rank, event |-> txn[t].rank,
     author |-> txn[t].cmd.actor]

NewEdges(t) ==
    {[type |-> p.type, source |-> p.source, target |-> Target(txn[t].cmd),
      sourceRank |-> p.rank, targetRank |-> txn[t].rank,
      event |-> txn[t].rank, author |-> txn[t].cmd.actor] :
        p \in txn[t].resolved}

NewEvent(t) ==
    [id |-> txn[t].rank, target |-> Target(txn[t].cmd),
     incoming |-> {[type |-> p.type, source |-> p.source] : p \in txn[t].resolved}]

-----------------------------------------------------------------------------
(* What the database enforces on the inserts *)

\* research_edges_forward_rank, the foreign keys to both revisions with their
\* ranks, research_edges_unique, and enforce_research_edge_registry: endpoint
\* kinds, target's own event and author, and an author who still is a member.
EdgeInsertable(e, rows) ==
    /\ e.sourceRank < e.targetRank
    /\ \E s \in rows : s.ref = e.source /\ s.rank = e.sourceRank
    /\ \E r \in rows : /\ r.ref = e.target /\ r.rank = e.targetRank
                       /\ r.event = e.event /\ r.author = e.author
    /\ DatabaseAdmits(e.type, e.source.kind, e.target.kind)
    /\ e.author \in contributors
    /\ ~ \E old \in edges : /\ old.type = e.type
                            /\ old.source = e.source /\ old.target = e.target

ExactlyOne(S) == \E x \in S : S = {x}

\* validate_research_revision_lineage_edge, deferred to the commit.
LineageHolds(row, all) ==
    LET lineage == {e \in all : /\ e.type = "supersedes" /\ e.target = row.ref
                               /\ e.source = [row.ref EXCEPT !.revision = @ - 1]
                               /\ e.event = row.event}
    IN  IF row.ref.revision = 1 THEN lineage = {} ELSE ExactlyOne(lineage)

\* validate_typed_research_motif, deferred to the commit: one subject edge
\* (for an Evaluation, a Dataset and a Tool, from the subject its typed row
\* names) and, for an Evaluation, an edge for each of at least one basis.
MotifHolds(c, all) ==
    LET into == {e \in all : e.target = Target(c)}
        subject == {e \in into :
                      /\ e.type = Motif[c.kind].subject
                      /\ c.kind \in {"answer", "rebuttal"} \/ e.source \in c.subjects}
    IN  /\ c.subjects # {} => ExactlyOne(subject)
        /\ c.kind = "evaluation" =>
             /\ c.bases # {}
             /\ \A b \in c.bases : \E e \in into :
                   e.type = "evaluation_basis" /\ e.source = b

\* Fault: the inserts are upserts, and nothing is checked at the commit.
UpsertCommit(t) ==
    LET c == txn[t].cmd
    IN  /\ txn[t].phase = "signed"
        /\ nodes' = [nodes EXCEPT ![c.id].kind = c.kind]
        /\ events' = events \union {NewEvent(t)}
        /\ revisions' = revisions \union {NewRevision(t)}
        /\ edges' = edges \union NewEdges(t)
        /\ txn' = [txn EXCEPT ![t] = Idle]
        /\ UNCHANGED <<seq, contributors>>

\* The event, the node of a first revision, the revision and its edges, all or
\* nothing.  The primary keys are those of research_events, research_nodes
\* (the id alone, whatever its kind) and research_node_revisions.
Commit(t) ==
    LET c == txn[t].cmd
        row == NewRevision(t)
    IN  /\ txn[t].phase = "signed"
        /\ \A ev \in events : ev.id # NewEvent(t).id
        /\ IF c.revision = 1
           THEN /\ nodes[c.id].kind = "none"
                /\ nodes' = [nodes EXCEPT ![c.id] = [kind |-> c.kind, retired |-> FALSE]]
           ELSE /\ nodes[c.id].kind = c.kind
                /\ PreviousRef(c) \in Committed
                /\ UNCHANGED nodes
        /\ \A old \in revisions : old.ref # row.ref /\ old.rank # row.rank
        /\ \A e \in NewEdges(t) : EdgeInsertable(e, revisions \union {row})
        /\ LineageHolds(row, edges \union NewEdges(t))
        /\ MotifHolds(c, edges \union NewEdges(t))
        /\ events' = events \union {NewEvent(t)}
        /\ revisions' = revisions \union {row}
        /\ edges' = edges \union NewEdges(t)
        /\ txn' = [txn EXCEPT ![t] = Idle]
        /\ UNCHANGED <<seq, contributors>>

\* A check that fails, a signer that refuses, a constraint, a lost connection
\* or a crash: the transaction leaves nothing but the rank it consumed.
Rollback(t) ==
    /\ txn[t].phase # "idle"
    /\ txn' = [txn EXCEPT ![t] = Idle]
    /\ UNCHANGED <<graph, seq, contributors>>

-----------------------------------------------------------------------------
(* Around the commands *)

\* Fault: retirement removes what it retires.
RetireByDeletion(n) ==
    /\ n \in Retirable
    /\ nodes[n].kind # "none"
    /\ nodes' = [nodes EXCEPT ![n].retired = TRUE]
    /\ revisions' = {row \in revisions : row.ref.id # n}
    /\ UNCHANGED <<edges, events, seq, contributors, txn>>

\* protect_research_node_identity: retired_at may be set, once.
Retire(n) ==
    /\ n \in Retirable
    /\ nodes[n].kind # "none"
    /\ ~ nodes[n].retired
    /\ nodes' = [nodes EXCEPT ![n].retired = TRUE]
    /\ UNCHANGED <<revisions, edges, events, seq, contributors, txn>>

\* Project membership changes while commands are in flight.
Dismiss(a) ==
    /\ a \in Dismissable \intersect contributors
    /\ contributors' = contributors \ {a}
    /\ UNCHANGED <<graph, seq, txn>>

Next ==
    \/ \E t \in Txns, c \in Commands : Begin(t, c)
    \/ \E t \in Txns : AllocateRank(t) \/ ResolveSources(t) \/ Sign(t)
                        \/ Commit(t) \/ Rollback(t)
    \/ \E n \in NodeIds : Retire(n)
    \/ \E a \in Actors : Dismiss(a)

Spec == Init /\ [][Next]_vars

-----------------------------------------------------------------------------
(* Correctness *)

\* The tables seen as a bare graph: this is what the readers of the kernel
\* rely on, and what the commands below must implement step by step.
Dag == INSTANCE ImmutableDag WITH
          Vertex <- Ref,
          verts <- Committed,
          arcs <- {<<e.source, e.target>> : e \in edges}

\* Whatever commands interleave, the stored graph only grows by whole
\* revisions: no command rewrites a revision, and none adds an edge into a
\* revision that was already there (createTypedResearchNode, the append-only
\* triggers).
ImplementsDag == Dag!Spec

\* The stored revisions and edges never form a cycle, though every command
\* picked its sources before it knew who else was about to commit
\* (materializeIncomingEdges, research_edges_forward_rank).
Acyclic == Dag!Acyclic

\* The edges stored into a revision are exactly those its signed event binds,
\* for as long as the graph lives: nothing signed is missing and nothing
\* unsigned was added (assertEventBindsPayload, enforce_research_edge_registry).
SignedEdgesAreStoredEdges ==
    \A row \in revisions : \E ev \in events :
        /\ ev.id = row.event
        /\ ev.target = row.ref
        /\ ev.incoming = {[type |-> e.type, source |-> e.source] :
                             e \in {x \in edges : x.target = row.ref}}

\* The revisions of a node form one chain: each has its predecessor, entered
\* by exactly one supersedes edge and ranked after it, so two authors who
\* revise the same node at once can never fork it
\* (normalizeResearchRevisionLineage, validate_research_revision_lineage_edge).
LineageIsAChain ==
    \A row \in revisions :
        LET into == {e \in edges : e.target = row.ref /\ e.type = "supersedes"}
        IN  IF row.ref.revision = 1 THEN into = {}
            ELSE \E previous \in revisions :
                   /\ previous.ref = [row.ref EXCEPT !.revision = @ - 1]
                   /\ previous.rank < row.rank
                   /\ \E e \in into : into = {e} /\ e.source = previous.ref

\* An id names one kind of node for ever: two commands that create the same
\* id as different kinds cannot both succeed (research_nodes primary key; the
\* command itself looks the node up by kind and id).
OneKindPerId ==
    \A row \in revisions : nodes[row.ref.id].kind = row.ref.kind

\* A command that waits for its signer signs sources that are still stored
\* with the ranks it resolved, all below its own (the comment "Resolve and
\* validate every source before asking the signer").
SignedSourcesAreStored ==
    \A t \in Txns : \A p \in txn[t].resolved :
        /\ p.rank < txn[t].rank
        /\ \E row \in revisions : row.ref = p.source /\ row.rank = p.rank

\* Nobody is asked to sign an edge that the database's registry then refuses:
\* what a waiting command has resolved by the protocol's registry, the trigger
\* admits (assertResearchEdge, enforce_research_edge_registry).
SignedEdgesAreAdmitted ==
    \A t \in Txns : \A p \in txn[t].resolved :
        DatabaseAdmits(p.type, p.source.kind, txn[t].cmd.kind)

\* Every typed revision is complete: one subject edge of its kind (an
\* unpackaged Tool has none) and, for an Evaluation, at least one basis
\* (validate_typed_research_motif).
MotifsAreComplete ==
    \A row \in {r \in revisions : r.ref.kind \in TypedKind} :
        LET k == row.ref.kind
            into == {e \in edges : e.target = row.ref}
            subject == {e \in into : e.type = Motif[k].subject}
        IN  /\ ExactlyOne(subject) \/ (k = "tool" /\ subject = {})
            /\ k = "evaluation" => \E e \in into : e.type = "evaluation_basis"

-----------------------------------------------------------------------------
(* The inductive invariant behind the properties above *)

\* research_node_revisions: its primary key and its unique rank.
KeysAreUnique ==
    \A r1, r2 \in revisions : r1.ref = r2.ref \/ r1.rank = r2.rank => r1 = r2

\* The foreign keys of research_edges.
EdgesJoinRevisions ==
    \A e \in edges : e.source \in Committed /\ e.target \in Committed

\* What an invocation holds between two awaits: its command, and from
\* ResolveSources on one resolved source for each relation it asked for.
InFlight ==
    \A t \in Txns :
        /\ txn[t].phase # "idle" => txn[t].cmd \in Commands
        /\ txn[t].phase \in {"resolved", "signed"} =>
             {[type |-> p.type, source |-> p.source] : p \in txn[t].resolved}
               = IncomingPlans(txn[t].cmd)
        /\ txn[t].phase \notin {"resolved", "signed"} => txn[t].resolved = {}

\* Nothing that was read, signed or stored is ever contradicted by what other
\* commands commit: the invariant that every step preserves.
IInv ==
    /\ TypeOK
    /\ KeysAreUnique
    /\ EdgesJoinRevisions
    /\ InFlight
    /\ SignedSourcesAreStored
    /\ OneKindPerId
    /\ SignedEdgesAreStoredEdges
    /\ LineageIsAChain
    /\ MotifsAreComplete

=============================================================================
