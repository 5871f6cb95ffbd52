------------------------------ MODULE Backfill ------------------------------
(***************************************************************************)
(* The migration of one project's legacy tables into the research graph.   *)
(* Runners page the tables into a staging table, keep a checkpoint, audit   *)
(* what they staged, fix a plan and apply it in one transaction.  Runners   *)
(* overlap, stop at any point and start again; the legacy tables change     *)
(* between runs, and dual writes register nodes beside them.                *)
(*                                                                         *)
(* A row's payload is its Content.  A checksum stands for the rows it was  *)
(* computed from: equal contents, equal checksums.                         *)
(***************************************************************************)
EXTENDS Naturals, Sequences, FiniteSets, SequencesExt

CONSTANTS
    Runners,
    Sources,    \* the legacy sources, in the order in which they are scanned
    Scan,       \* of each source: its rows, in the order of their keys
    Describes,  \* of each row of research_node: the node and revision it describes
    Joins,      \* of each relation row: the revisions it joins, and whether as an edge
    Initially,  \* contents of the legacy tables at the start
    PageSize,
    MaxChanges, \* bound: changes of the legacy tables
    MaxCrashes  \* bound: runs that stop half-way

ASSUME PagesAreFilled == PageSize \in Nat \ {0}
ASSUME BoundsAreNatural == MaxChanges \in Nat /\ MaxCrashes \in Nat

VARIABLES
    legacy,     \* the content of each legacy row
    checkpoint, \* the stored checkpoint: at most one
    staging,    \* the staged content of each row
    rank,       \* of each registered revision (or migrated motif): its commit rank
    edges,      \* the formal edges, each with the row it stands for
    records,    \* the crosswalk: what became of each row
    run,        \* what each runner is doing, in [Runners -> Run]
    changes,
    crashes

stored == <<staging, checkpoint>>
kernel == <<rank, edges, records>>
world == <<legacy, changes>>
vars == <<stored, kernel, run, world, crashes>>

NodeRows == DOMAIN Describes
RelationRows == DOMAIN Joins
Rows == NodeRows \union RelationRows
Refs == {Describes[n] : n \in NodeRows} \union
        UNION {{Joins[x].source, Joins[x].target} : x \in RelationRows}

Firsts == {ref \in Refs : ref.rev = 1}

\* The node that is made of a motif row; its id is derived from the row's key.
Motif(x) == [node |-> x, rev |-> 1]
Vertices == Refs \union {Motif(x) : x \in RelationRows}

\* A row is absent, fit to be mapped, changed since, deleted (a relation keeps
\* its row), without a provable revision, event or author, or of an author,
\* event or project that is found to be another when the plan is applied.
Content == {"absent", "plain", "edited", "deleted", "unanchored", "disowned"}
Mappable == {"plain", "edited", "disowned"}
Status == {"none", "mapped", "archived", "quarantined"}
Contents == [Rows -> Content]
Nothing == [x \in Rows |-> "absent"]
RowsOf(source) == ToSet(Scan[source])

ASSUME TablesAreContents == Initially \subseteq Contents
ASSUME GraphIsFinite == IsFiniteSet(Vertices)
ASSUME RowsAreScanned ==
    /\ Sources \in Seq(DOMAIN Scan) /\ \A s \in DOMAIN Scan : Scan[s] \in Seq(Rows)
    /\ Rows = UNION {RowsOf(s) : s \in ToSet(Sources)}
ASSUME RevisionsAreCounted ==
    \A ref \in Refs : ref.rev \in Nat \ {0} /\ ref = [node |-> ref.node, rev |-> ref.rev]
ASSUME MotifsAreNew == \A x \in RelationRows : Motif(x) \notin Refs

Plan == [staged : Contents, status : [Rows -> Status],
         missing : [RelationRows -> SUBSET Refs], registers : SUBSET Refs]

-----------------------------------------------------------------------------
(* The audit: what a plan says of what was staged *)

Previous(ref) == [ref EXCEPT !.rev = @ - 1]

Candidates(staged) ==
    {Describes[n] : n \in {m \in NodeRows : staged[m] \in Mappable}}

\* The candidates whose lineage is contiguous down to revision 1 or to a
\* revision the graph knows.
Accepted(staged, known) ==
    {ref \in Candidates(staged) : \E k \in 1..ref.rev :
        /\ k = 1 \/ [ref EXCEPT !.rev = k - 1] \in known
        /\ \A j \in k..ref.rev : [ref EXCEPT !.rev = j] \in Candidates(staged)}

Live(staged) == {x \in RelationRows : staged[x] \in Mappable}
Arcs(rows) == {<<Joins[x].source, Joins[x].target>> : x \in {y \in rows : Joins[y].direct}}

Reachable(from, arcs) ==
    LET within[n \in 0..Cardinality(Refs)] ==
            IF n = 0 THEN {from}
            ELSE LET near == within[n - 1]
                 IN  near \union {arc[2] : arc \in {a \in arcs : a[1] \in near}}
    IN  within[Cardinality(Refs)]

\* A direct relation whose target leads back to its source: a self-loop, or a
\* member of a strongly connected component.
Cyclic(staged) ==
    {x \in Live(staged) :
        Joins[x].direct /\ Joins[x].source \in Reachable(Joins[x].target, Arcs(Live(staged)))}

\* What becomes of each row: what cannot be mapped without inventing an
\* identity, a revision or a provenance is quarantined.
BuiltPlan(staged, known) ==
    LET accepted == Accepted(staged, known)
        cyclic == Cyclic(staged)
        missing == [x \in RelationRows |->
                       IF x \in Live(staged)
                       THEN {Joins[x].source, Joins[x].target} \ (known \union accepted)
                       ELSE {}]
        status(x) ==
            CASE staged[x] = "absent" -> "none"
              [] staged[x] = "unanchored" -> "quarantined"
              [] staged[x] = "deleted" -> "archived"
              [] x \in NodeRows /\ Describes[x] \notin accepted -> "quarantined"
              [] x \in RelationRows /\ (x \in cyclic \/ missing[x] # {}) -> "quarantined"
              [] OTHER -> "mapped"
    IN  [staged |-> staged, status |-> [x \in Rows |-> status(x)],
         missing |-> missing, registers |-> accepted]

\* The orders in which the plan's nodes may be registered: a revision after
\* its previous one, the target of an edge after its source.
RegistrationOrders(plan) ==
    LET arcs == Arcs({x \in RelationRows : plan.status[x] = "mapped"})
        before(a, b) == a # b /\ (a = Previous(b) \/ <<a, b>> \in arcs)
    IN  {q \in SetToSeqs(plan.registers) :
            \A i, j \in DOMAIN q : before(q[i], q[j]) => i < j}

\* Each row that is quarantined has a blocking finding.
Blocked(plan) == \E x \in Rows : plan.status[x] = "quarantined"

-----------------------------------------------------------------------------
(* The checkpoint and the runners *)

InitialCheckpoint ==
    [phase |-> "scanning", cursor |-> [s \in ToSet(Sources) |-> 0], done |-> {},
     parity |-> [s \in ToSet(Sources) |-> {}], plan |-> {}]

Checkpoint ==
    [phase : {"scanning", "applying", "blocked", "complete"},
     cursor : [ToSet(Sources) -> Nat], done : SUBSET ToSet(Sources),
     parity : [ToSet(Sources) -> SUBSET Contents], plan : SUBSET Plan]

Failure == {"no", "source", "parity", "plan", "cycle", "provenance", "rank", "refused"}

\* At rest a runner keeps nothing but the reason why its last run failed.
Idle(failure) ==
    [at |-> "idle", failure |-> failure, snapshot |-> Nothing, checkpoint |-> InitialCheckpoint,
     seen |-> Nothing, known |-> {}, listed |-> Nothing, plan |-> {}]

Step == {"idle", "ensure", "scan", "store", "audit", "mark", "apply"}

Run == [at : Step, failure : Failure, snapshot : Contents, checkpoint : Checkpoint,
        seen : Contents, known : SUBSET Refs, listed : Contents, plan : SUBSET Plan]

Init ==
    /\ legacy \in Initially
    /\ checkpoint = {} /\ staging = Nothing
    /\ rank = [v \in Vertices |-> 0]
    /\ edges = {}
    /\ records = [x \in Rows |-> [content |-> "absent", status |-> "none"]]
    /\ run = [r \in Runners |-> Idle("no")]
    /\ changes = 0 /\ crashes = 0

Registered == {ref \in Refs : rank[ref] # 0}
Phase == IF checkpoint = {} THEN "scanning" ELSE (CHOOSE c \in checkpoint : TRUE).phase
StoredPlan == UNION {c.plan : c \in checkpoint}

\* What a runner reads of its own tables outside a transaction that writes: they
\* are read in the snapshot that was exported when the run began.
StagedSeenBy(r) == run[r].seen
KnownTo(r) == run[r].known

Fail(r, failure) == run' = [run EXCEPT ![r] = Idle(failure)]

\* A complete checkpoint matches no update; a plan, once stored, is never changed.
Updatable(c) == Phase = "complete" \/ StoredPlan \subseteq c.plan
Update(c) == checkpoint' = IF Phase = "complete" THEN checkpoint ELSE {c}

\* A transaction of r stores c; r goes on with its own copy, and at step at.
StoreAndGoOn(r, c, at) ==
    IF Updatable(c)
    THEN Update(c) /\ run' = [run EXCEPT ![r].checkpoint = c, ![r].at = at]
    ELSE Fail(r, "refused") /\ UNCHANGED checkpoint

Begin(r) ==
    /\ run[r].at = "idle" /\ Phase # "complete"
    /\ run' = [run EXCEPT ![r] = [Idle("no") EXCEPT
                  !.at = IF checkpoint = {} THEN "ensure" ELSE "scan",
                  !.snapshot = legacy,
                  !.checkpoint = IF checkpoint = {} THEN InitialCheckpoint
                                 ELSE CHOOSE c \in checkpoint : TRUE,
                  !.seen = staging, !.known = Registered]]
    /\ UNCHANGED <<stored, kernel, world, crashes>>

\* Another runner may have inserted the checkpoint in the meantime.
Ensure(r) ==
    /\ run[r].at = "ensure"
    /\ checkpoint' = IF checkpoint = {} THEN {InitialCheckpoint} ELSE checkpoint
    /\ run' = [run EXCEPT ![r].at = "scan", ![r].checkpoint = CHOOSE c \in checkpoint' : TRUE]
    /\ UNCHANGED <<staging, kernel, world, crashes>>

Settled(c, s) == s \in c.done /\ c.parity[s] # {}
Unsettled(c) == {i \in DOMAIN Sources : ~Settled(c, Sources[i])}

\* The sources are taken in their order.
Current(c) == Sources[CHOOSE i \in Unsettled(c) : \A j \in Unsettled(c) : i <= j]

\* The rows of the run's snapshot that follow the cursor, and the first of them.
After(r, s) ==
    {i \in DOMAIN Scan[s] :
        i > run[r].checkpoint.cursor[s] /\ run[r].snapshot[Scan[s][i]] # "absent"}
Page(rest) == {i \in rest : Cardinality({j \in rest : j <= i}) <= PageSize}

\* One page of source s: its rows are staged and the checkpoint advances in
\* one transaction.  A row that is staged with another content ends the run.
StagePage(r) ==
    /\ run[r].at = "scan" /\ Unsettled(run[r].checkpoint) # {}
    /\ \E s \in {Current(run[r].checkpoint)} : \E rest \in {After(r, s)} : \E page \in {Page(rest)} :
       LET c == run[r].checkpoint
           rows == {Scan[s][i] : i \in page}
           more == page # rest
           last == CHOOSE i \in page : \A j \in page : j <= i
           next == [c EXCEPT !.cursor[s] = IF more THEN last ELSE 0,
                             !.done = IF more THEN @ ELSE @ \union {s}]
       IN  /\ s \notin c.done
           /\ IF \E x \in rows : staging[x] \notin {"absent", run[r].snapshot[x]}
              THEN Fail(r, "source") /\ UNCHANGED stored
              ELSE /\ StoreAndGoOn(r, next, "scan")
                   /\ staging' = IF Updatable(next)
                                 THEN [x \in Rows |-> IF x \in rows THEN run[r].snapshot[x]
                                                      ELSE staging[x]]
                                 ELSE staging
    /\ UNCHANGED <<kernel, world, crashes>>

Restricted(contents, s) ==
    [x \in Rows |-> IF x \in RowsOf(s) THEN contents[x] ELSE "absent"]

\* The staged rows of a source that is scanned to its end, in this run or in
\* one that stopped before it stored their parity.
ListSource(r) ==
    /\ run[r].at = "scan" /\ Unsettled(run[r].checkpoint) # {}
    /\ LET s == Current(run[r].checkpoint)
       IN  /\ s \in run[r].checkpoint.done
           /\ run' = [run EXCEPT ![r].at = "store", ![r].listed = Restricted(StagedSeenBy(r), s)]
    /\ UNCHANGED <<stored, kernel, world, crashes>>

StoreParity(r) ==
    /\ run[r].at = "store"
    /\ LET c == run[r].checkpoint
           s == Current(c)
       IN  StoreAndGoOn(r, [c EXCEPT !.parity[s] = {run[r].listed}], "scan")
    /\ UNCHANGED <<staging, kernel, world, crashes>>

\* Fault: what earlier runs staged is not compared with the tables of this run.
RescanNothing(r) ==
    /\ run[r].at = "scan" /\ Unsettled(run[r].checkpoint) = {}
    /\ run' = [run EXCEPT ![r].at = "audit", ![r].listed = StagedSeenBy(r)]
    /\ UNCHANGED <<stored, kernel, world, crashes>>

\* All that is staged is read and compared with the tables as the run's
\* snapshot has them.
Rescan(r) ==
    /\ run[r].at = "scan" /\ Unsettled(run[r].checkpoint) = {}
    /\ IF StagedSeenBy(r) = run[r].snapshot
       THEN run' = [run EXCEPT ![r].at = "audit", ![r].listed = StagedSeenBy(r)]
       ELSE Fail(r, "source")
    /\ UNCHANGED <<stored, kernel, world, crashes>>

Audit(r) ==
    /\ run[r].at = "audit"
    /\ \E plan \in {BuiltPlan(run[r].listed, KnownTo(r))} :
       LET c == run[r].checkpoint
       IN  CASE RegistrationOrders(plan) = {} -> Fail(r, "cycle")
             [] \E s \in ToSet(Sources) : c.parity[s] # {Restricted(plan.staged, s)} ->
                    Fail(r, "parity")
             [] c.plan \notin {{}, {plan}} -> Fail(r, "plan")
             [] OTHER -> run' = [run EXCEPT ![r].at = "mark", ![r].plan = {plan}]
    /\ UNCHANGED <<stored, kernel, world, crashes>>

MarkApplying(r) ==
    /\ run[r].at = "mark"
    /\ StoreAndGoOn(r, [run[r].checkpoint EXCEPT !.phase = "applying", !.plan = run[r].plan],
                    "apply")
    /\ UNCHANGED <<staging, kernel, world, crashes>>

\* The rows of a plan that no record stands for yet.
Unrecorded(plan) ==
    {x \in Rows : plan.status[x] # "none" /\ records[x].status = "none"}
Recorded(plan) ==
    {x \in Rows : plan.status[x] # "none" /\ records[x].status # "none"}

\* Fault: whatever is recorded already is taken as it is.
NeverContradicted(plan) == FALSE

\* A row recorded with another content than the plan's.
Contradicted(plan) == \E x \in Recorded(plan) : records[x].content # plan.staged[x]

\* A row that has to be materialized and whose event is not stored, is another
\* actor's, or whose edge has its target in another project or by another author.
Disowned(plan) ==
    \E x \in Unrecorded(plan) : plan.status[x] = "mapped" /\ plan.staged[x] = "disowned"

NewMotifs(plan) ==
    {Motif(x) : x \in {y \in Unrecorded(plan) \intersect RelationRows :
                           plan.status[y] = "mapped" /\ ~Joins[y].direct}}

Top == CHOOSE n \in {rank[v] : v \in DOMAIN rank} :
          \A v \in DOMAIN rank : rank[v] <= n

\* Nodes are registered in the given order, each with the next commit rank;
\* the nodes of motifs follow them.
RanksAfter(plan, order) ==
    [v \in Vertices |->
        CASE rank[v] # 0 -> rank[v]
          [] rank[v] = 0 /\ v \in plan.registers -> Top + (CHOOSE i \in DOMAIN order : order[i] = v)
          [] rank[v] = 0 /\ v \in NewMotifs(plan) -> Top + Len(order) + 1
          [] OTHER -> 0]

\* A revision supersedes the previous one; a direct relation becomes one edge;
\* a motif is a node with an edge from each of the two revisions.
EdgesOf(x) ==
    CASE x \in NodeRows ->
            {[row |-> x, source |-> Previous(v), target |-> v] : v \in {Describes[x]} \ Firsts}
      [] x \in RelationRows /\ Joins[x].direct ->
            {[row |-> x, source |-> Joins[x].source, target |-> Joins[x].target]}
      [] x \in RelationRows /\ ~Joins[x].direct ->
            {[row |-> x, source |-> v, target |-> Motif(x)] : v \in {Joins[x].source, Joins[x].target}}

NewEdges(plan) ==
    UNION {EdgesOf(x) : x \in {y \in Unrecorded(plan) : plan.status[y] = "mapped"}}

Recordings(plan) ==
    [x \in Rows |-> IF x \in Unrecorded(plan)
                    THEN [content |-> plan.staged[x], status |-> plan.status[x]]
                    ELSE records[x]]

\* What stops the transaction, whichever of its rows comes first.
Obstacles(plan, ranks) ==
    {f \in {"source", "provenance", "rank"} :
        CASE f = "source" -> Contradicted(plan)
          [] f = "provenance" -> Disowned(plan)
          [] f = "rank" -> \E e \in NewEdges(plan) : ranks[e.source] >= ranks[e.target]}

\* The whole plan is applied in one transaction, or none of it.
Apply(r) ==
    /\ run[r].at = "apply"
    /\ \E plan \in run[r].plan : \E order \in RegistrationOrders(plan) :
       \E ranks \in {RanksAfter(plan, order)} :
          LET final == [run[r].checkpoint EXCEPT
                           !.phase = IF Blocked(plan) THEN "blocked" ELSE "complete"]
              failures == IF Obstacles(plan, ranks) = {} /\ ~Updatable(final) THEN {"refused"}
                          ELSE Obstacles(plan, ranks)
          IN  IF failures # {}
              THEN (\E f \in failures : Fail(r, f)) /\ UNCHANGED <<checkpoint, kernel>>
              ELSE /\ rank' = ranks
                   /\ edges' = edges \union NewEdges(plan)
                   /\ records' = Recordings(plan)
                   /\ Update(final)
                   /\ run' = [run EXCEPT ![r] = Idle("no")]
    /\ UNCHANGED <<staging, world, crashes>>

\* A run stops: what it committed stays, its snapshot is gone.
Stop(r) ==
    /\ run[r].at # "idle" /\ crashes < MaxCrashes
    /\ crashes' = crashes + 1
    /\ run' = [run EXCEPT ![r] = Idle("no")]
    /\ UNCHANGED <<stored, kernel, world>>

-----------------------------------------------------------------------------
(* What happens beside the migration *)

Change(x, content) ==
    /\ changes < MaxChanges
    /\ changes' = changes + 1
    /\ legacy' = [legacy EXCEPT ![x] = content]

\* A legacy command writes legacy tables only; who relates two revisions need
\* not be the author of either.
LegacyWrite(x) ==
    /\ \/ legacy[x] = "absent" /\ Change(x, "plain")
       \/ x \in RelationRows /\ legacy[x] = "absent" /\ Change(x, "disowned")
       \/ x \in NodeRows /\ legacy[x] = "plain" /\ \E c \in {"edited", "unanchored"} : Change(x, c)
       \/ x \in RelationRows /\ legacy[x] = "plain" /\ \E c \in {"deleted", "unanchored"} : Change(x, c)
    /\ UNCHANGED <<stored, kernel, run, crashes>>

\* A dual write stores a revision or a motif in the legacy tables and in the
\* graph.  Its record is bound to the signed event, not to the legacy row.
DualWrite(x) ==
    /\ legacy[x] = "absent" /\ records[x].status = "none"
    /\ \/ /\ x \in NodeRows
          /\ Describes[x].rev = 1 \/ Previous(Describes[x]) \in Registered
          /\ rank' = [rank EXCEPT ![Describes[x]] = Top + 1]
       \/ /\ x \in RelationRows /\ ~Joins[x].direct
          /\ {Joins[x].source, Joins[x].target} \subseteq Registered
          /\ rank' = [rank EXCEPT ![Motif(x)] = Top + 1]
    /\ edges' = edges \union EdgesOf(x)
    /\ records' = [records EXCEPT ![x] = [content |-> "event", status |-> "mapped"]]
    /\ Change(x, "plain")
    /\ UNCHANGED <<stored, run, crashes>>

Work(r) == Begin(r) \/ Ensure(r) \/ StagePage(r) \/ ListSource(r) \/ StoreParity(r)
           \/ Rescan(r) \/ Audit(r) \/ MarkApplying(r) \/ Apply(r)

Next ==
    \/ \E r \in Runners : Work(r) \/ Stop(r)
    \/ \E x \in Rows : LegacyWrite(x) \/ DualWrite(x)

Spec == Init /\ [][Next]_vars

-----------------------------------------------------------------------------

\* A migration that is complete has done what its plan says: each row is
\* recorded with the content that was audited, and a mapped row is in the graph
\* (assertResearchGraphCutoverReady is asked once, then the checkpoint is trusted).
CompleteIsWhole ==
    Phase = "complete" => \A plan \in StoredPlan : \A x \in Rows :
        /\ records[x].status = plan.status[x] \/ plan.status[x] = "none"
        /\ plan.status[x] # "none" => records[x].content = plan.staged[x]
        /\ plan.status[x] = "mapped" =>
               EdgesOf(x) \subseteq edges /\ (x \in NodeRows => Describes[x] \in Registered)

\* Rows staged by several runs, at different times, become complete only as
\* the tables stood in one snapshot: the one of the run that completes.
CompletesOneSnapshot ==
    [][Phase # "complete" /\ (checkpoint' # {} /\ (CHOOSE c \in checkpoint' : TRUE).phase = "complete")
        => \E r \in Runners : /\ run[r].at = "apply" /\ run'[r].at = "idle"
                              /\ \A c \in checkpoint' : \A p \in c.plan : p.staged = run[r].snapshot]_vars

\* What the runner's README says of its checkpoints would have it that no run
\* finds a changed source while none has changed.  A run that reads its own
\* staging in the snapshot of its beginning does.
UnchangedSourcesDoNotConflict ==
    changes = 0 => \A r \in Runners : run[r].failure \notin {"source", "parity", "plan"}

=============================================================================
