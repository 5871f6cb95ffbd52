# EviMesh in TLA+

EviMesh is an open research network: people and agents publish questions,
answers, claims, evidence and evaluations as immutable, signed revisions in a
typed, acyclic graph, take leases on tasks, run and verify work, and publish
"frontiers", snapshots that are mirrored to public places. The modules here
model the parts of it where concurrency, failure and ordering decide whether
the stored history can be trusted. Every definition is translated from the
source; `PROJECT.json` maps each one to the lines it stands for.

## 1. The system

A JavaScript monorepo over PostgreSQL.

| component | code | state | operations |
|---|---|---|---|
| research edge registry | `packages/protocol/src/research-graph.mjs`, `packages/database/drizzle/0082_*.sql` | none (two copies of one table) | is an edge of this type allowed between these kinds |
| typed research nodes | `packages/domain/src/typed-research-node-command.mjs`, `drizzle/0080_*.sql` | nodes, revisions, edges, events, the commit-rank sequence | create or revise an Answer, Rebuttal, Evaluation, Dataset, Tool |
| frontier mirror outbox | `apps/worker/src`, `packages/frontier-bundle/src/mirror.mjs`, `github-release.mjs` | `event_outbox`, `mirror_receipts`, GitHub releases | append with outbox, claim, mirror, acknowledge, reschedule, dead-letter, requeue |
| event log and what is built on it | `research-event-service.mjs`, `research-event-replay.mjs`, `packages/merkle`, `merkle-checkpoint.mjs`, `research-event-proof.mjs` | events, checkpoints, witnesses | append, page, replay, checkpoint, prove |
| frontier publication, bundles | `frontier-*-command.mjs`, `packages/frontier-bundle` | snapshots, members, publications | create, add a member, publish, export, verify, import |
| neighbourhood reader | `apps/api-edge/src/supabase-read-repository.mjs`, `research-graph-query.mjs` | the client's cursor | one page of a neighbourhood at a watermark |
| graph of a Claim | `supabase-read-repository.mjs` (`claimGraph`), `apps/web/lib/research-neighborhood.mjs`, `apps/web/app/claims/[claimId]/page.js` | the page's answers | read level by level, merge, filter, call complete |
| claim relations, task dependencies | `claim-relation-command.mjs`, `task-command.mjs`, `packages/protocol/src/dependency-graph.mjs`, `drizzle/0067_*.sql` | `claim_relations`, `task_dependencies` | create, end, replace, add |
| challenges and their impact | `challenge-command.mjs`, `challenge-impact-worker.mjs`, `dependency-taint-worker.mjs`, `reverification-task-worker.mjs` | challenges, claim states, tasks | submit, transition, walk, taint, create tasks |
| task leases | `task-command.mjs` | `task_leases` | acquire, renew, release, sweep |
| tasks and attempts, claims, questions, projects | `task-command.mjs`, `claim-command.mjs`, `question-command.mjs`, `project-command.mjs`, the `*-state.mjs` tables | immutable revisions with an ETag, rows, trace events | create, revise under If-Match, transition, trace |
| context bundles | the four `*-context-compiler.mjs` | stored bundles | compile from a Task revision and a snapshot |
| evidence, artifacts, runs, verification, policies | `evidence-command.mjs`, `artifact-command.mjs`, `run-command.mjs`, `verification-*.mjs`, `policy-evaluation-*.mjs`, `verification-policy-engine.mjs` | rows that are never changed, receipts, evaluations, merge proposals | submit, list, evaluate, mark ready |
| graph migration | `research-graph-backfill-runner.mjs`, `research-graph-backfill-repository.mjs` | checkpoint, staged rows, crosswalk | scan, audit, plan, apply, resume |
| HTTP edge and rollout | `apps/api-edge/src`, `research-graph-rollout.mjs` | nonces, buckets, device codes, tokens, keys, modes | one request |
| private signals | `apps/api-edge/src/interaction-query.mjs`, `apps/web/lib/interactions.mjs` | actors, identities, signals; what a tab shows | load, toggle, self-provision |
| other clients, schemas, recommender | `apps/mcp`, `packages/cli`, `packages/sdk-ts`, ... | none of their own | presentation, projections |

How they interact. A request reaches the HTTP edge, which authenticates it and
runs a domain command inside `repository.withTransaction`. A command reads,
checks with the protocol package's pure functions, **awaits an event factory**
(the person's signer), and inserts; the database repeats some checks in
triggers. Events that others must hear of are stored with an outbox job, which
the worker's passes, started by a schedule, a queue or a request, deliver. The
worker's other jobs (checkpoints, impact, taint, re-verification, evaluation)
read in several statements what commands go on changing. Readers page through
what is committed, by separate requests to the database's HTTP interface.

What is hard, and where a test would hardly reach: what was read before an
await is used after it; checks that exist in the command and not in the
database, or in both in two languages; sequences, times and ids that are drawn
long before the commit, in orders of their own; passes and runs that overlap,
crash, or lose an answer after its effect; a lease that expires while somebody
renews it; a deployment or a revocation between two awaits of a request; two
inserts that are two requests. `PROJECT.json` lists these hazards at their
lines.

What makes each modelled part correct: the graph is append-only and acyclic
and holds exactly what was signed (kernel); a job is mirrored before it is
acknowledged, by one pass at a time, and ends (outbox); what is proved, replayed,
paged or imported is what was stored (log); a client that has read all pages has
read everything that was there when it began, and a graph that is shown hides
nothing it was to show (readers); a dependency graph has no cycle, its history is
kept, and a Challenge reaches what depends on its target (relations, impact); a
task has one holder (leases); a history moves only as the protocol's tables
allow, and no edit overwrites one that its author has not seen (life cycles); a
context withholds what its mode withholds (contexts); a proposal is ready only
when the receipts say so (verification); a migration completes as one snapshot
stood (migration); a signature is good for one write, a revoked credential for
none, and both projections move together (edge); a tab shows what is stored
(signals).

## 2. The modules

`EdgeRegistry` holds both copies of the closed edge registry, each translated
from its own source, and `RegistriesAgree`, which says that they are one.

`ImmutableDag` is the abstract specification: a graph that grows by whole
vertices, each arriving with all the arcs that will ever enter it.

`ResearchKernel` (extends `EdgeRegistry`) is the write path. `Begin`,
`AllocateRank`, `ResolveSources`, `Sign`, `Commit` are the awaits of
`createTypedResearchNode`, one action each, so that other commands commit in
between; `Rollback` is any failure. The inserts and the commit are one action:
a second inserter of a unique key waits for the first and then fails.
`EdgeInsertable`, `LineageHolds` and `MotifHolds` are what constraints and
deferred triggers enforce. `Retire` and `Dismiss` are the other writers of
rows a command reads. The event id is a fresh UUID bound to the commit rank,
so the rank stands for it; `Event.incoming` is what the event's payload binds.
`ImplementsDag` instantiates `ImmutableDag` with the stored references and
edges as refinement mapping.

`MirrorOutbox` has one action for each call a worker pass makes: the atomic
claim, export, release, asset, receipt, acknowledgement, and the caught error
that reschedules or dead-letters (`Settle`). Every call may fail, and those
with an effect may take it and lose the answer. `Abandon` is the death of the
pass, by a crash or by one of the errors that nothing catches. Time is in
ticks and a pass stamps what it writes with its own start, as the code does.

`Delivery` is the abstract specification of the outbox, in which there are no passes,
no claims, no time and nothing to lose: a job is accepted, its bundle mirrored, a receipt
stored, the job delivered, or the try failed, and an ended job is left alone.
`ImplementsDelivery` instantiates it with the outbox's rows, assets and receipts: an open
job is a pending or a processing one (`Outcome`). A claim, a skip, a repeated upload or
the death of a pass do not show.

`Chronicle` is the log of events. A transaction has three moments, its start
(`created_at`), the making of its event's id, and its commit, in orders that need
not agree; the log is read in the order of the first, checkpoints are found by
the second, and what a reader sees depends on the third. On it: checkpoints with
their Merkle trees (a hash is the tuple of what it hashes; root, inclusion path
and its verification are recursive functions), witnesses, the route that proves
an event, pages, replay into a state of Claims, snapshots numbered and linked one
after another, their members and publication, the export of a bundle as the
separate reads it is, its verification, and imports that look for conflicts
first and insert later, two at a time. A script says which commands run, so that
each question has the few commands it needs.

`GraphCursor` has the write transactions, whose `created_at` (start), commit
rank and commit come in any order, and one reader: `Scan` reads the edges,
`ReturnPage` and `RejectStale` read the watermark in a later statement and
return the page or 409. It models depth 1 from one root; the offset
arithmetic (`Reach`, `PageEnd`) is the code's, ceiling included.

`ClaimGraph` is the other reader: the relations of one level at a time, with the
budget of nodes and edges, the mark `truncated`, and the edges that are passed over
because they would close a cycle. `GraphView` (extends it) is the page that asks
for one direction or both, merges what it got by the keys the page gives relations,
finds sides and distances anew, filters, and calls the result complete or not.

`DependencyGraph` serves Claim relations and Task dependencies: `Trigger` says
whether the table has the acyclicity trigger (Claims do, Tasks do not). `Check`
is what the command reads and decides before the signer answers, `EndRow`,
`InsertRow`, `Commit` the statements after it. Transactions see committed rows
and their own writes. `Impact` (extends it, and composes with it) is what an
upheld Challenge sets off while relations go on changing: the walk over the
dependents, one read per Claim; the taint, one read and one write per Claim; the
re-verification Tasks, one list and one creation per Claim. A job that throws or
dies begins again.

`TaskLease` has one action for what each command reads and decides
(`Acquire`, `Renew`, `Release`, `Expire`) and one for what it writes when its
event is signed (`StoreLease`, `StoreRenewal`, `StoreDeletion`).

`Lifecycle` is the life of Projects, Claims, Tasks and Challenges (chains of
revisions) and of Questions and Attempts (rows). `Arrive` is the request with
its If-Match and the caller's read of the current revision; then each command
is the action of its name, which takes the transaction's read, its checks and
what it decides, up to the signer; `StoreRevision`, `StoreRow` and `StoreTrace`
are the inserts and updates after it, of all commands of that shape. `Rechecked`
and `Prechecked` keep apart the commands that compare If-Match with what the
transaction reads from those (Tasks) that compare it with what the caller read
before. The guard of `StoreRevision` is the primary key of the revision tables;
`StoreRow` has none, its update names the row by id alone. No command changes
a Project's state, so `project-state.mjs` has no transition here, and the first
revision of a Question is never followed by another, so its row is all there is.

`ContextBundles` are the four compilers: each reads the members of a snapshot and
then what relates them, while members and relations change, refuses what the
members it read do not pin, and withholds what its mode withholds, for the blind
mode by the positions that the caller gave.

`Verification` goes from an Artifact to a merge proposal. Commands store rows that
never change, each after the rows its foreign keys name (`Needs`); receipts judge a
Claim revision by a Run, duplicates are marked by what the submission listed before
its event was signed; the evaluation job counts receipts and findings in several
reads, the policy engine (`Decision`) decides, and a proposal becomes ready by the
evaluation that is recorded.

`Backfill` migrates a project's legacy tables into the kernel: a runner pages the
sources in snapshots of its own, stages rows and stores its checkpoint page by page,
compares what it staged with what it reads, audits, fixes a plan and applies it in
one transaction. Runners overlap, stop at any call (`Stop`) and resume from the
checkpoint; `LegacyWrite` and `DualWrite` change both sides meanwhile. `Exported`
says whether the runner's own tables are read in the snapshot exported at the
start, as `withConsistentSnapshot` has it.

`EdgeRequests` is the Worker: each request keeps the modes of the deployment that
received it and goes through the bearer credential, the limiter, the route's
checks, the signature's verification (key, then nonce) and the mutation, one step
for each await. Tokens and keys are revoked, windows end, answers of the nonce
store are lost and deployments change between the steps. Its routes are the
legacy and typed writes with dual writes and shadow reads, the device login, and
the credentials' own.

`Interactions` is a visitor's private signals in several tabs: the load, the
toggle that is shown before it is stored, the restoring load after a failure, and
the provisioning of an actor by two inserts that are two requests.

Some runs check several modules that share no variable, with no property over two
of them: `MCEvents` (`Chronicle`, `MirrorOutbox`), `MCGraphReaders` (`GraphCursor`,
`GraphView`), `MCTaskWork` (`TaskLease`, `ContextBundles`, `Verification`) and
`MCEdgeRequests` (`EdgeRequests`, `Interactions`). Interleaving them would show
nothing about either, so in each behaviour one of them leaves its initial state and
the states are those of one after another. Where modules interact (`Impact` with
`DependencyGraph`, `GraphView` with `ClaimGraph`, the outbox's passes with what they
deliver, the migration with the dual writes) they share their state.

In each module, operators introduced by a comment "Fault:" are not part of the
specification: each is a definition with a plausible bug in it, with which the
properties are tested (a property that survives every bug says nothing).

`MC*` modules and `.cfg` files give the constants values. `*Proofs` modules
hold the theorems.

### Isolation

The repository adapters take `withTransaction` from outside; the source does
not name an isolation level. The models take PostgreSQL's default, READ
COMMITTED: each statement sees what is committed when it starts. Where a
property holds only if commands do not overlap, the passing run says so:

- `MaxOpen = 1` (`TaskLease`) describes an adapter that serialises lease
  commands; with two open commands two actors hold one Task.
- `MaxPending = 1` (`DependencyGraph`) lets commands overlap, but one insert
  at a time wait for its commit; with two, the trigger does not see the other's.
- `RowsAreLocked` (`Lifecycle`) says whether the adapter locks a Question or an
  Attempt that a transaction reads to change it. Chains of revisions need no
  lock: their primary key decides.
- `RunIsLocked` (`Verification`) says whether it locks the Run whose receipts a
  submission lists. Only `ReadyIsEarned` needs it.

The database's HTTP interface (PostgREST) is outside the source and is modelled
as the edge uses it: each call is a transaction; a POST with
`resolution=ignore-duplicates` and no `on_conflict` passes over a duplicate of the
primary key and is refused for one of another unique key.

## 3. The runs

| run | question | bounds |
|---|---|---|
| `research_kernel` | Do concurrent commands keep the graph a growing DAG that holds what was signed? Eight commands compete for one id (as two kinds), for one second revision (two authors), and cite each other, which puts a cycle, a fork and a dangling source one step away | 2 invocations, 2 actors, 4 ids, 4 commit ranks to draw, revisions up to 2 |
| `event_publication` | Is what is proved, replayed, paged, exported and imported what was stored, though events become visible out of order? Do overlapping, crashing passes with lost answers keep jobs apart, count attempts exactly, show only what one careful delivery would, and finish? | six scripts of up to 6 commands, 1 checkpoint, 1 event on a page, 1 export, 2 imports; 2 passes, 2 frontier jobs and 1 other, 2 attempts, claims of 2 |
| `graph_readers` | Does a chain of pages deliver what was there when it began, and end? Does a Claim's graph hide nothing that stood while it was read, and is only a whole view called complete? | 4 writers, 2 open at once, 2 edges on a page; 3 Claims, 4 relations of three types with a cycle and a parallel pair, depth 2, budgets of 2 |
| `claim_relations` | Do command checks, trigger and primary key keep Claims acyclic and history final? Does a Challenge reach each Claim that depended on its target throughout, and give each one Task? | 3 Claims, 4 relations with a cycle of 3, all creations and endings, 2 replacements; 2 commands, 1 pending insert; 1 job that may die anywhere, 2 Tasks per Claim to have room for one too many |
| `task_work` | One lease command at a time: exclusive leases that their holders keep? Do contexts withhold what they are to? Do receipts and findings that arrive while they are counted make ready only what the policy allows? | 3 actors, 6 instants, leases of 2 ticks; 2 members, 2 relations, 2 trace events; 3 receipts by 2 actors for 2 revisions and 1 Run, one with a finding, 2 commands, 1 job, 1 evaluation |
| `lifecycle` | Do overlapping requests keep histories legal and edits seen? | one object of each kind, 2 of them created, 2 requests, 5 revisions in all, 1 trace |
| `backfill` | Do runs that overlap, stop, resume and meet writers complete only one audited snapshot, and settle if nothing changes? | 2 runners, 3 revisions of 2 nodes, 2 relations (an edge, a motif), 2 rows on a page, 1 change, 1 crash |
| `edge_requests` | Is a signature used once, nothing revoked honoured, no window exceeded, and both projections moved together, whatever happens between the awaits? Do a visitor's tabs show what is stored? | ten scripts of up to 4 requests, 2 in flight, 3 deployments, 1 lost answer, 1 revocation, windows and codes of 1 tick; 2 tabs, 1 signal, 3 calls, 2 toggles, 1 failure |
| `bundle_restored` | Can a bundle that verifies be imported into an empty instance? No: see findings | 8 commands stored in order, 1 export, 1 import |
| `backfill_parity` | Do unchanged sources never conflict, with everything read in the run's snapshot? No | as `backfill` |
| `upstream_view` | Does the page show on a side what was read on that side? No | as `graph_readers` |
| `self_provision` | Is provisioning idempotent? No | as `edge_requests`, the tabs only |

Why the bounds are enough. Each property is violated, if at all, by two
commands and what they cite, or by a command between two statements of one job:
two invocations give every pairwise interleaving, and ids are shared by several
kinds and authors so that each pair of commands that can conflict is there. Two
frontier jobs are needed for a pass that dies with a second job still in hand,
two attempts for "not the last" and "the last". Four edges at two on a page give
a first, a middle and a last page and a commit before, between and after them.
Three Claims give the shortest cycle that no single command sees as such, and a
walk of two levels. In the log, four commands are enough for the first's start to
lie before, its id within and its commit after a checkpoint; two imports are
enough to meet on every row. A migration of two pages per source has a
checkpoint inside a source and one between two; one change is enough to make two
snapshots differ. Of the edge's requests two at a time reach every pair of
awaits; the scripts pair those that share a nonce, a token, a key, a bucket or a
device code. Three deployments are the three modes of the rollout in their order.
Three actors and six ticks allow a lease to be acquired, renewed, run out and be
followed by another's. Two requests on one object reach every pair of commands
that decide on the same revision, and five revisions take it through every state
of its table; two objects are what an Attempt and a Challenge need, besides the
Task or the Claim they are for.

`CHECK_DEADLOCK FALSE` in every configuration: bounded sequences, clocks and
ids run out, and a client or an outbox without work really is at rest.

Fairness. `MirrorOutbox!OutboxFairness`: passes are started again and again (the
worker has a cron schedule besides queue and request), a pass that lives takes
its next step, time passes. Nothing forces a publication, a call to succeed or
a crash. `FrontierJobsSettle` holds because failures are counted, and excludes
the jobs of a pass that died: no code takes them up again. `GraphCursor`
(`WF_vars(Read)`): a request that was made is answered and a client that has a
next cursor uses it. `Backfill!FairSpec`: a runner goes on with its run, and runs
are started again until the migration is complete or blocked, as its operator
would; nothing is fair to crashes and changes. No other run needs fairness.

## 4. Findings

- `bundle_restored`: the row of a snapshot refers to the snapshot before it, which
  no bundle holds; so only the first Frontier of a project can be imported into an
  empty instance, though every one verifies.
- `backfill_parity`: under `withConsistentSnapshot` the runner's own staging is read
  in the snapshot of the run's start, too, where what it staged since is not. The
  parity that is stored is that of nothing, and the comparison before the audit
  reports a change of the sources. `backfill` checks the runner with `Exported =
  FALSE`, its own tables read as they are.
- `upstream_view`: the page finds sides anew and walks upstream against the arrows,
  while the API walks along them; asked for upstream alone, the page drops what it
  got.
- `self_provision`: the actor and its identity are two requests. If the second is
  lost, later calls find no identity, are refused the actor and fail.

Other disagreements met on the way are hazards of `PROJECT.json` with a note, in
place of runs of their own:

- Retirement of a node is checked before the signer is awaited and by no
  constraint after it; a node retired in between gets its revision.
- Nothing ever claims a `processing` job, so those of a pass that died stay there,
  of any type, while a comment promises that they are not lost.
- The reader's watermark is a maximum; a transaction that drew a lower rank and
  commits later leaves it unchanged and shifts the offsets, so an edge is
  delivered twice.
- `addTaskDependency` reads the dependencies, waits for its event and inserts;
  nothing is locked and nothing checks again, so that two together close a cycle.
- Duplicates of a Claim relation are looked for among the active ones, the primary
  key holds the ended ones too; a relation that was ended can never be created again.
- `reviseTask` and `transitionTask` compare If-Match with the ETag that was read
  before the transaction, and take the number of the next revision from what they
  read in it; a revision stored in between is followed by an edit whose author has
  not seen it. The Claim, Project and Challenge commands compare again.

## 5. What is proved

The TLAPS proofs hold for every value of the constants under the named
assumptions, and for any number of clients, requests, jobs, runners and rows. The
assumptions say only what the code gives: calls are well formed (`CommandsAreWellFormed`,
`RequestsAreSingle`, `ScriptsAssumption`, `EnvelopesAssumption`, `CodesAssumption`,
`RowsAreKnown`, `SubmissionsAreKnown`, `NoneIsNoSubmission`), names of different kinds
differ (`NoCommandIsNone`, `KindsAreDisjoint`, `NoObjectIsNone`, `ActorsAssumption`,
`KeysAssumption`, `InitialRowsAssumption`, `NobodyIsNoCall`, `JobsAreKinded`), tables and
relations are finite and typed (`NodesAreFinite`, `ClaimsAreFinite`, `RelationsJoinNodes`,
`LinksJoinClaims`, `LinksHaveNoLoops`, `TablesAreContents`, `GraphIsFinite`,
`InvocationsAreFinite`, `SeedsAreRanked`), revisions are numbered
(`RevisionsAreNumbered`), what a script gives as stored could have been stored in that
order (`ScriptsAreHistories`), a policy asks for something
(`PoliciesRequireSomething`), and limits, durations and pages are numbers of the range
that the code checks (`LimitsAreUsable`, `LimitsAssumption`, `DurationsArePositive`,
`OptionsAreValid`, `PagesAreFilled`). A migration's sources list its rows
(`RowsAreScanned`), its references have revisions counted from 1 (`RevisionsAreCounted`),
and a motif's name is no reference (`MotifsAreNew`). Six theorems have a hypothesis
besides, each a condition the runs make too and section 2 explains: one lease command at
a time (`MaxOpen = 1`), the trigger with one pending insert (`Trigger`, `MaxPending = 1`),
one job of a Challenge's impact, `RowsAreLocked`, `RunIsLocked`, and a migration whose
runner reads its own tables (`~Exported`).

Of the properties the passing runs check, every state invariant is a theorem, and so are
all action properties.

- `ResearchKernelProofs`: `RegistriesAreOne` (both registries admit the same edges, for
  every type, source and target); `DagIsAcyclic` (a graph that grows by whole vertices
  has no cycle: the newest vertex of any set of vertices is entered from outside only);
  `KernelImplementsDag` (each step publishes one revision with its edges, or stutters);
  `GraphIsAcyclic`, from the two; and `KernelInvariant`, from which the safety properties
  follow one by one. `SignedEdgesAdmitted` joins it to the registries: a source is
  resolved by the protocol's copy, an Answer may ask for a basis of any kind, and only
  their equality makes the trigger admit what somebody was asked to sign.
- `LifecycleProofs`: `LifecycleTypes`, `HistoriesStayLegal`, `RowsFollow` and
  `EditsFollowWhatWasSeen`, for any number of objects and of overlapping requests;
  `RowsStayLegal` and `TracesPrecedeSubmission` under `RowsAreLocked`.
- `EventProofs`, on `Chronicle` and `MirrorOutbox`: `FrontiersStayContiguous`,
  `PagesDeliverTheOld`, `ReplaysAreFaithful`, `RootsTellTheirLeaves`,
  `VerifiedIsCommitted`, `ProofsOfLeavesVerify`, `ServedProofsAlwaysVerify`,
  `ImportsAreAlwaysWhole` (see below). And of the outbox `JobsHaveOneHolder`,
  `AcknowledgedIsMirrored` and `AttemptsPayForReceipts`, from the inductive
  `OutboxInvariant`: each row that is in a pass's hands is in nobody else's
  (`HoldersAreSole`) and changes by its holder only (`HeldAreProcessing`), the calls made
  so far have left their effects (`CallsHaveEffects`), and before this attempt stores its
  receipt each receipt is paid for (`ReceiptsAreCounted`). The types need the counting,
  too: that attempts stay within their bound is not true of a step by itself. With the
  same invariant, `OutboxImplementsDelivery`: each call of a pass is a step of `Delivery`
  or does not show, as the pass that makes it is the one holder of an open job
  (`DeliveryStep`); and `EndedJobsAreLeftAlone`, a property of the abstract specification
  that the outbox has by refinement (`EndedIsLeft`).
- `ClaimGraphProofs`, on `DependencyGraph`, `Impact`, `ClaimGraph` and `GraphView`:
  `HistoryIsKept`, `DependenciesStayAcyclic`, `WalksFindWhatStood`, `ImpactIsMarkedOnce`,
  `UntruncatedGraphsAreComplete`, `ReadRelationsAreDrawn`, `CompleteViewsShowTheRoot`
  (see below).
- `GraphCursorProofs`: `ChainsDeliverTheOld`, from `DueStaysAhead`. An edge that was
  stored when the chain began, and is not yet delivered, is due; the place of a due edge
  in what a query counts never decreases, as rows are added and none is removed, so no
  page boundary jumps over it (`DueIsAhead`); in a scan not yet reached it is in what that
  scan will count (`ScansReachDue`); and the chain ends where nothing is due
  (`NothingIsDue`).
- `TaskWorkProofs`, on `TaskLease`, `ContextBundles` and `Verification`:
  `DeletedNeverReturns` (however many commands are in flight, a lease that ended does not
  come back); with `MaxOpen = 1`, `OneHolderAtATime` and `HoldersAreLeftAlone`: what a
  command was decided on (`Reserved`) is still true when it writes, as an active lease
  only ever runs out by itself. `FixedInputsAlwaysCompile` and `WithheldIsNeverRead`, from
  `JobsReadInOrder`: the snapshot and its relations only grow, and what a job reads later
  it reads for the members that it read first (`CitesMembers`, `HidesTheSeen`).
  `EveryVoiceIsHeard` and `FindingsAreHeard`, from `ReceiptsAreCounted`: the first receipt
  of an actor for a Run is in the table before another can name it, and an evaluation
  counts its findings among the receipts it counted. `ReadyProposalsAreEarned` under
  `RunIsLocked`, where no two submissions take each other for absent.
- `EdgeRequestsProofs`, on `EdgeRequests` and `Interactions`: `SignaturesWorkOnce`, from
  `SignatureInv`: a request past the nonce store has its nonce there, and no two such
  requests share one, as the second to arrive finds it; a request gets to a write only
  past that store, or without an envelope, or on a route that looks at none.
  `NothingRevokedIsStored`, from `RevocationInv`: what a request knew of revocations when
  it was received stays true (`RevokedStay`), so a check passed at a later await shows
  that the token or the key was good at the start, and what was passed is carried on from
  phase to phase (`ActingAreGood`, `SignedAreGood`). `WindowsAreHeld`, from `WindowInv`: a
  bucket's counter is what its window has admitted (`CountsAreHonest`), and a new window
  of the bucket ends after every one that admitted somebody (`WindowsAreCurrent`), so no
  two share an end. `ProjectionsAreMovedTogether`: the write mode is that of the
  deployment that received the request (`RequestsAreFormed`), and routes of custody store
  nothing of either projection. `TabsShowTheStored`, from `TabInv`: a tab with two calls
  open knows it (`CallsDoNotOverlap`), so the one call that is open will leave it with
  what is stored (`CallsFit`).
- `BackfillProofs`: `CompleteMigrationsAreWhole` and `MigrationsCompleteOneSnapshot`, from
  `MigrationsAreOfOnePlan`: a runner's copy of the checkpoint is not ahead of the stored
  one (`CopiesAreNotAhead`), what was passed in hand was recorded as planned, and until
  the migration is complete no record differs from the plan (`RecordsAreOfThePlan`). After
  it is complete, a run that overlaps the completing one may still record rows that are
  newer than the plan, so there the invariant speaks only of the rows planned
  (`CompleteIsAsPlanned`). `UnchangedSourcesAreAccepted`, from `QuietInv` (see below).

Relations, walks and graphs. A search over relations is a recursive function over rounds
`0 .. n`, so what it computes is proved by induction over the interval (`UpTo`, by the
least number that fails), and that `n` rounds are enough by the pigeonhole principle
(`SearchesEnd`: a round that adds nothing is the last, and each other adds a node).

- `DependenciesStayAcyclic`. Acyclicity by itself gives no step, as it speaks of paths.
  `AcyclicInv` says that the active dependencies have an order of the nodes, a number for
  each with every dependency going up (`Ordered`), and that a pending insert closes
  nothing (`PendingClosesNothing`: its source cannot be reached from its target). An
  insert then keeps the order by moving up all that its target reaches. That the second
  holds at the commit is what the trigger is for, with one pending insert: with two, the
  trigger of either does not see the other (section 2).
- `WalksFindWhatStood`. The job walks level by level, and each level is read in its own
  transaction while relations come and go. `WalkInv` says that whatever was reached in an
  earlier level has had its dependents of the time taken in, hence those that depended on
  it all the time. `ImpactIsMarkedOnce` (`PhasesAreDone`) says of each phase of the job what
  those before it have left; `JobsLeaveRelations` proves that the jobs beside the
  commands implement `DependencyGraph!Spec`, so every theorem about relations holds
  beside them.
- `UntruncatedGraphsAreComplete`. `GraphInv` relates a read in progress to the relations
  that stood since it began: what a level found lies at that depth (`LevelsAreDepths`), and
  every standing relation from a level that was followed leads to a found Claim, unless
  the read is marked truncated (`LevelsAreFollowed`, `RootIsFollowed`). An edge passed over
  for the node budget is what sets the mark, and this is where the proof needs it.
- `ViewedGraphsAreComplete`, `ReadRelationsAreDrawn`, `CompleteViewsShowTheRoot`. `ViewInv`
  adds to `GraphInv` that each answer the page keeps was such a read, with the depth that
  was asked (`ReadsAreOrdered`) and, if not truncated, whole at the root (`ReadsAreWhole`).

The log. `LogInv` says that a transaction that has begun has a start of its own, so the
log's order is that of the starts and ids never decide it (`StartsOrder`), and that what
`Ordered` lists is each of its rows once, in that order (`OrderedSorts`). Rows only join the
log, possibly in the middle of it.

- `FrontiersStayContiguous`, from `ChainInv`. A creation reads the latest number outside
  the index that will decide, so the invariant says what an admitted snapshot still knows
  when it is inserted: its number is at most one more than what is stored
  (`SnapshotsInHand`), and of two inserted rows neither conflicts with the other
  (`InsertedAreAlone`). The index refuses every number that is stored, which leaves one.
- `PagesDeliverTheOld`, from `PageInv`. What was stored when the client began is behind the
  cursor and delivered, or ahead of it; the next page is the first of what is ahead, so it
  repeats nothing, and when it is not full nothing is left. An event that commits behind
  the cursor is missed, and was not stored when the client began.
- `ReplaysAreFaithful`. After `n` events the projection holds, for each Claim among them,
  its last revision in the log's order, or is a refusal; and as a refusal is never
  taken back, one that is not has seen each Claim's revisions increase. It needs no
  invariant but `LogInv`.
- Merkle trees. `RootsTellTheirLeaves`: of two trees with one root the levels have the same
  nodes from the top down, and end together, because a leaf is never a node; so both have
  the same leaves. No more is true, as the last node of an odd level is paired with itself:
  a list and the list with its last leaf twice can have one root. A range of the log has no
  event twice and is in the log's order, so there equal roots do mean equal ranges
  (`SameRootSameRange`). `VerifiedIsCommitted` is soundness: whatever path and index a proof
  names, if it verifies, its leaf is among the leaves. `ProofsOfLeavesVerify` is
  completeness: index and level are halved in step, and a node without a sibling is its
  own (`SiblingClimbs`).
- `ServedProofsAlwaysVerify`, from `CheckpointsKeepTheirRoots` (`MerkleInv`: a checkpoint's
  root is that of the range that was signed). The route recomputes the tree of the range as
  it is now and compares roots; if they are equal, the range is the one that was signed,
  and so the position is. `WitnessesAgree` is the same for a third party that computes the
  root itself: what it signs is what the checkpoint was made of.
- `ImportsAreAlwaysWhole`, from `ExportsAreHonest` (`ImportInv`). An export reads in many
  statements, and all it has read stays true, as members and events are only added, so a
  document in a bundle is what is stored at the source (`HonestStays`). A copy that
  lost a file is no longer what its manifest lists, so what is verified is a whole
  bundle (`CopiesAreWhole`); a bundle that verifies has for each event a proof against a
  checkpoint in it, so the event is in that checkpoint's range (`ProvedEventsAreCovered`, by
  `VerifiedIsCommitted`). An import adds one bundle in one transaction (`ImportIsWhole`).

The migration while its sources do not change. `UnchangedSourcesAreAccepted` says that a
run, wherever it stopped and whatever ran beside it, finds no source, parity or plan that
differs. Staged rows are then those of the tables (`StagedAsItStands`), and staging only
grows, so what an older copy of the checkpoint says stays true (`Stands`, `StagedStays`): a
source that is done is staged in full, one that is not up to its cursor. A page is the
first of what follows the cursor, so nothing is jumped over (`PageIsFirst`), and a rescan
or a parity finds what was staged. The plan is the harder half: an audit reads the graph
it writes to. `RegisteredAsAccepted` says that what is registered is what the plan accepts
anyway, as nothing but its rows registers anything, hence an audit made half way through
an apply accepts the same rows as the first one (`AcceptedIsFixed`, `PlanIsFixed`).

The inductive invariant `IInv` of the kernel, which `research_kernel` also checks
as an invariant of its run. That edges match what was signed
is a fact about `Commit`, but `Commit` writes what was resolved two awaits
earlier. So the invariant says what an invocation carries across its awaits:
`InFlight` (from `ResolveSources` on it holds exactly one resolved source for
each relation asked for, in the sense of type and reference) and
`SignedSourcesAreStored` (those are still stored, at the ranks resolved, below
its own). `KeysAreUnique` turns "a row with this reference" into "the row", and
`EdgesJoinRevisions` shows that a revision just committed has no edge into it
yet, so that the edges into it are the new ones. `LineageIsAChain`,
`MotifsAreComplete`, `OneKindPerId` and `SignedEdgesAreStoredEdges` are then
preserved by each action.

The inductive invariant of `Lifecycle`. What a request decided, it decided on a
revision that may not be the last when it stores. Since revisions are only
appended, the revision it follows is still there, with the state it had: so
`IInv` says of each waiting request (`RequestOK`) that its state keeps or moves
the state of revision `revision - 1`, and, for a command that rechecks, that this
is the one its author has seen. The primary key makes `StoreRevision` append
exactly there. For rows nothing of the kind holds, as they are overwritten;
`RowLocks` adds what a lock gives: no two requests have one row in hand, so
what was read there is true until it is stored.

Only model-checked: liveness under fairness (`FrontierJobsSettle`, `ReaderFinishes`,
`MigrationSettles`), which the prover does not treat. `UnchangedSourcesDoNotConflict` is
proved for a runner that reads its own tables; with `Exported` it is false (section 4).

## 6. Not modelled, and why

Within the modelled parts: signatures and hashes (an event that binds its
payload is a record that contains it), deeper levels of the kernel's neighbourhood,
its filters and row visibility; its 4000-row ceiling is modelled but not reached;
several projects (there is one, so `source_allowed` always holds), artifacts of
typed payloads beyond the references the motif triggers look at, and the bytes of
bundles. The events that lease, relation and life-cycle commands store in the same
transaction are left out: they are all or nothing with the rows. So are the
content of a revision and contribution statements.

Operations left out of a component, with what they are:

- events: the hash chains per object and per actor: no caller in the source asks
  for them, so nothing decides when their heads are read;
- Challenges: `frontier-task-suggestion-worker.mjs`, the same check before the same
  creation as the re-verification Tasks, for frontiers;
- Evidence and Artifacts: upload sessions, malware scan and chunk manifests are
  calls to an external store and keep no state between requests; a location whose
  check has not passed is refused in `Verification`;
- verification: the wall-clock challenge window and the table of `risk-policy.mjs`;
- migration: the registration of Challenges, dry runs, and one of the audit's
  findings (an input of a Run that is also its output), which blocks a migration as
  the ones that are modelled do;
- the edge: the idempotency middleware is wired to no route; session tokens are
  taken as verified by the identity provider; other routes read or write one row
  by the steps that are modelled;
- keys: the rotation of the platform's keyring computes a new value from an old one
  and keeps no state;
- membership: its changes are a dismissal only; contribution edges.

Whole components: cryptography and canonical forms (pure functions, taken as
injective), and schemas, the recommender's training and the deployment scripts,
which have no state of their own to go wrong in the sense of this project. Of the
clients, the pages other than the two modelled, the command line and the MCP
server present the edge's answers.

## 7. The plan

Modelled in this order: kernel and registries, outbox, readers, relations, leases,
life cycles; then migration, log and bundles, the edge, verification, contexts,
impact, the Claim's page and the tabs. What is left of the models is listed above
with its reason; first among it the hash chains of events, once something appends to
them, and the idempotency records, once a route uses them.

Proofs left: the refinement of a page chain by one atomic read, for pages of the log and
of the neighbourhood alike.

The number of runs stays at a dozen: new passing runs take the place of
counterexamples that say the same as another or are told as well by a hazard.
