----------------------------- MODULE Chronicle -----------------------------
(***************************************************************************)
(* The log of research events and what is built on it: Merkle checkpoints  *)
(* and inclusion proofs, pages and replays of the log, the chain of        *)
(* Frontier snapshots, and the Frontier bundle that one instance exports   *)
(* and another imports.                                                    *)
(*                                                                         *)
(* An event is stored by a transaction.  Its created_at is the time at     *)
(* which the transaction began, its id is made later, by the event         *)
(* factory, and it becomes visible later still, at the commit: three       *)
(* orders that need not agree.  The log is read in the order of            *)
(* (created_at, event_id), and checkpoints are looked up by event_id.      *)
(*                                                                         *)
(* A script says which commands are stored at the beginning and which run  *)
(* concurrently; an event is named by the place of its command in the      *)
(* script.  One project; hashes are injective.                             *)
(***************************************************************************)
EXTENDS Integers, SequencesExt

CONSTANTS
    Scripts,        \* records [given, commands, observer]: the first `given`
                    \* commands are stored in order before the run begins
    Attached,       \* evidence and receipts of each claim revision
    MaxCheckpoints, \* bound: checkpoints published
    MaxExports,     \* bound: bundles exported
    PageLimit,      \* events on one page of the list
    Importers       \* imports into the other instance

\* What is stored at the beginning could have been stored in its order: a
\* snapshot has the next number and a ready proposal, a member its revision.
ASSUME ScriptsAreHistories ==
    \A s \in Scripts :
        /\ s.commands \in Seq(ToSet(s.commands))
        /\ s.given \in 0 .. Len(s.commands)
        /\ \A w \in 1 .. s.given :
              LET earlier(kind) == {v \in 1 .. w - 1 : s.commands[v].kind = kind}
              IN /\ s.commands[w].kind = "snapshot" =>
                       /\ s.commands[w].sequence = Cardinality(earlier("snapshot")) + 1
                       /\ \E v \in earlier("proposal") :
                             /\ s.commands[v].status = "ready"
                             /\ s.commands[v].proposal = s.commands[w].proposal
                 /\ s.commands[w].kind = "member" =>
                       \E v \in earlier("claim") :
                          /\ s.commands[v].claim = s.commands[w].claim
                          /\ s.commands[v].revision = s.commands[w].revision
ASSUME RevisionsAreNumbered ==
    \A s \in Scripts : \A c \in ToSet(s.commands) : c.kind = "claim" => c.revision \in Nat
ASSUME LimitsAssumption ==
    /\ MaxCheckpoints \in Nat
    /\ MaxExports \in Nat
    /\ PageLimit \in Nat \ {0}

VARIABLES
    script,
    clock,       \* database time: starts and event ids
    writer,      \* the transaction of each command
    checkpoints, \* merkle_checkpoints: first, last, root; and the range that
                 \* was signed, for the properties
    exporter,    \* the export in progress
    bundles,     \* the exported bundles
    importer,    \* what each import has prechecked
    target,      \* the tables of the instance that imports
    witnessed,   \* witness_receipts: checkpoints that a third party signed
    reader       \* a client that pages through the log

source == <<clock, writer, checkpoints>>
vars == <<script, source, exporter, bundles, importer, target, witnessed, reader>>

None == 0
Writers == 1 .. Len(script.commands)
Command(w) == script.commands[w]

----------------------------------------------------------------------------
(* Commands *)

Claim(c, r, parents) ==
    [kind |-> "claim", claim |-> c, revision |-> r, parents |-> parents]
Proposal(p, c, r, met, role) ==
    [kind |-> "proposal", proposal |-> p, claim |-> c, revision |-> r,
     status |-> IF met THEN "ready" ELSE "blocked", role |-> role, parents |-> {}]
Snapshot(s, n, p, role) ==
    [kind |-> "snapshot", snapshot |-> s, sequence |-> n, proposal |-> p,
     role |-> role, parents |-> {}]
Member(s, c, r, role) ==
    [kind |-> "member", snapshot |-> s, claim |-> c, revision |-> r,
     role |-> role, parents |-> {}]
Publication(s, role) ==
    [kind |-> "publication", snapshot |-> s, role |-> role, parents |-> {}]

Stored == {w \in Writers : writer[w].phase = "stored"}
Of(kind) == {w \in Stored : Command(w).kind = kind}
Revisions == {<<Command(w).claim, Command(w).revision>> : w \in Of("claim")}
Ready == {Command(w).proposal :
             w \in {v \in Of("proposal") : Command(v).status = "ready"}}
Snapshots == {Command(w).snapshot : w \in Of("snapshot")}
Sequences == {Command(w).sequence : w \in Of("snapshot")}
Latest == IF Sequences = {} THEN 0
          ELSE CHOOSE n \in Sequences : \A m \in Sequences : m <= n
Members(s) == {<<Command(w).claim, Command(w).revision>> :
                  w \in {v \in Of("member") : Command(v).snapshot = s}}
Published(s) == \E w \in Of("publication") : Command(w).snapshot = s

NeedsMaintainer(c) == c.kind \in {"proposal", "snapshot", "member", "publication"}
MayRun(c) == NeedsMaintainer(c) => c.role \in {"maintainer", "owner"}

\* What a command checks in its transaction before it awaits the factory.
SnapshotFollows(c) ==
    /\ c.proposal \in Ready
    /\ c.sequence = Latest + 1
ClaimFollows(c) == c.revision > 1 => <<c.claim, c.revision - 1>> \in Revisions
MemberExists(c) ==
    /\ c.snapshot \in Snapshots
    /\ <<c.claim, c.revision>> \in Revisions
Admissible(c) ==
    /\ c.kind = "claim" => ClaimFollows(c)
    /\ c.kind = "proposal" => <<c.claim, c.revision>> \in Revisions
    /\ c.kind = "snapshot" => SnapshotFollows(c)
    /\ c.kind = "member" => MemberExists(c)
    /\ c.kind = "publication" => c.snapshot \in Snapshots

\* Rows that one table cannot hold together.
SameSnapshot(c, d) == c.snapshot = d.snapshot \/ c.sequence = d.sequence
SameMember(c, d) == <<c.snapshot, c.claim, c.revision>> = <<d.snapshot, d.claim, d.revision>>
\* Fault: a snapshot is unique by its id alone.
KeyedById(c, d) ==
    /\ c.kind = d.kind
    /\ c.kind = "claim" => <<c.claim, c.revision>> = <<d.claim, d.revision>>
    /\ c.kind = "proposal" => c.proposal = d.proposal
    /\ c.kind = "snapshot" => c.snapshot = d.snapshot
    /\ c.kind = "member" => SameMember(c, d)
    /\ c.kind # "publication"
Conflict(c, d) ==
    /\ c.kind = d.kind
    /\ c.kind = "claim" => <<c.claim, c.revision>> = <<d.claim, d.revision>>
    /\ c.kind = "proposal" => c.proposal = d.proposal
    /\ c.kind = "snapshot" => SameSnapshot(c, d)
    /\ c.kind = "member" => SameMember(c, d)
    /\ c.kind # "publication"

\* The triggers and the checks of appendNormalizedResearchEvent.
ParentsStored(c) == c.parents \subseteq Stored
Insertable(c) ==
    /\ \A v \in Stored : ~Conflict(c, Command(v))
    /\ c.kind = "member" => ~Published(c.snapshot)
    /\ ParentsStored(c)

----------------------------------------------------------------------------
(* Transactions *)

Begin(w) ==
    /\ writer[w].phase = "new"
    /\ writer' = [writer EXCEPT ![w] =
                     IF MayRun(Command(w))
                     THEN [@ EXCEPT !.phase = "open", !.start = clock]
                     ELSE [@ EXCEPT !.phase = "refused"]]
    /\ clock' = clock + 1
    /\ UNCHANGED <<script, checkpoints, exporter, bundles, importer, target, witnessed, reader>>

MakeEvent(w) ==
    /\ writer[w].phase = "open"
    /\ writer' = [writer EXCEPT ![w] =
                     IF Admissible(Command(w))
                     THEN [@ EXCEPT !.phase = "made", !.id = clock]
                     ELSE [@ EXCEPT !.phase = "refused"]]
    /\ clock' = clock + 1
    /\ UNCHANGED <<script, checkpoints, exporter, bundles, importer, target, witnessed, reader>>

\* A unique index makes an insert wait for a conflicting row that is not
\* committed yet.
Insert(w) ==
    /\ writer[w].phase = "made"
    /\ \A v \in Writers : writer[v].phase = "inserted" => ~Conflict(Command(w), Command(v))
    /\ writer' = [writer EXCEPT ![w].phase =
                     IF Insertable(Command(w)) THEN "inserted" ELSE "refused"]
    /\ UNCHANGED <<script, clock, checkpoints, exporter, bundles, importer, target, witnessed, reader>>

Commit(w) ==
    /\ writer[w].phase = "inserted"
    /\ writer' = [writer EXCEPT ![w].phase = "stored"]
    /\ UNCHANGED <<script, clock, checkpoints, exporter, bundles, importer, target, witnessed, reader>>

Abort(w) ==
    /\ writer[w].phase = "inserted"
    /\ writer' = [writer EXCEPT ![w].phase = "refused"]
    /\ UNCHANGED <<script, clock, checkpoints, exporter, bundles, importer, target, witnessed, reader>>

----------------------------------------------------------------------------
(* The log *)

Before(v, w) ==
    \/ writer[v].start < writer[w].start
    \/ writer[v].start = writer[w].start /\ writer[v].id < writer[w].id
PlaceIn(rows, w) == Cardinality({v \in rows : Before(v, w)}) + 1
Ordered(rows) == [i \in 1 .. Cardinality(rows) |-> CHOOSE w \in rows : PlaceIn(rows, w) = i]
Place(w) == PlaceIn(Stored, w)
Log == Ordered(Stored)
EventRange(first, last) ==
    IF {first, last} \subseteq Stored
    THEN SubSeq(Log, Place(first), Place(last))
    ELSE << >>

\* A projection of the log: the last revision of each claim, or a refusal.
Refused == [refused |-> TRUE]
\* Fault: a revision that does not increase replaces the later one.
ApplyAnyway(projection, w) ==
    LET c == Command(w)
    IN IF c.kind # "claim" THEN projection
       ELSE [d \in DOMAIN projection \cup {c.claim} |->
                IF d = c.claim THEN c.revision ELSE projection[d]]
ApplySnapshot(projection, w) ==
    LET c == Command(w)
    IN IF c.kind # "claim" \/ projection = Refused THEN projection
       ELSE IF c.claim \in DOMAIN projection /\ c.revision <= projection[c.claim]
       THEN Refused
       ELSE [d \in DOMAIN projection \cup {c.claim} |->
                IF d = c.claim THEN c.revision ELSE projection[d]]
Replay(events) ==
    LET after[n \in 0 .. Len(events)] ==
            IF n = 0 THEN << >> ELSE ApplySnapshot(after[n - 1], events[n])
    IN after[Len(events)]

\* A client that pages through the log; key 0 is no cursor.
Key(w) == <<writer[w].start, writer[w].id>>
\* Fault: the cursor compares the ids alone.
AfterById(w, cursor) == writer[w].id > cursor[2]
After(w, cursor) ==
    \/ writer[w].start > cursor[1]
    \/ writer[w].start = cursor[1] /\ writer[w].id > cursor[2]
Matching(cursor) == Ordered({w \in Stored : cursor = <<0, 0>> \/ After(w, cursor)})
Limited(rows, n) == SubSeq(rows, 1, Min({n, Len(rows)}))
Paginate(rows) ==
    [items |-> Limited(rows, PageLimit), more |-> Len(rows) > PageLimit]

ListEvents ==
    /\ script.observer = "pages"
    /\ reader.step # "done"
    /\ \E page \in {Paginate(Limited(Matching(reader.cursor), PageLimit + 1))} :
          reader' = [step |-> IF page.more THEN "paging" ELSE "done",
                     cursor |-> IF page.items = << >> THEN reader.cursor
                                ELSE Key(Last(page.items)),
                     old |-> IF reader.step = "idle" THEN Stored ELSE reader.old,
                     delivered |-> reader.delivered \o page.items]
    /\ UNCHANGED <<script, source, exporter, bundles, importer, target, witnessed>>

----------------------------------------------------------------------------
(* Merkle trees; a node is the pair of its children, a leaf a 1-tuple *)

Leaf(w) == <<w>>
HashNode(left, right) == <<left, right>>
NextLevel(level) ==
    [i \in 1 .. (Len(level) + 1) \div 2 |->
        HashNode(level[2 * i - 1], level[IF 2 * i <= Len(level) THEN 2 * i ELSE 2 * i - 1])]
Levels(leaves) ==
    LET levels[d \in 1 .. Len(leaves)] ==
            IF d = 1 THEN leaves
            ELSE IF Len(levels[d - 1]) = 1 THEN levels[d - 1] ELSE NextLevel(levels[d - 1])
        height == CHOOSE d \in 1 .. Len(leaves) :
                     Len(levels[d]) = 1 /\ \A c \in 1 .. d - 1 : Len(levels[c]) > 1
    IN [d \in 1 .. height |-> levels[d]]
Root(leaves) == Last(Levels(leaves))[1]

\* leaf indexes count from 0, as in the code
Sibling(level, index) ==
    LET other == IF index % 2 = 0 THEN index + 1 ELSE index - 1
        at == IF other < Len(level) THEN other ELSE index
    IN [position |-> IF at < index THEN "left" ELSE "right", hash |-> level[at + 1]]
InclusionProof(leaves, index) ==
    LET levels == Levels(leaves)
        IndexAt[d \in 1 .. Len(levels)] == IF d = 1 THEN index ELSE IndexAt[d - 1] \div 2
    IN [index |-> index, leaf |-> leaves[index + 1], root |-> Last(levels)[1],
        path |-> [d \in 1 .. Len(levels) - 1 |-> Sibling(levels[d], IndexAt[d])]]

Climb(at, step) ==
    LET expected == IF at.index % 2 = 0 THEN "right" ELSE "left"
    IN [ok |-> at.ok /\ step.position = expected,
        index |-> at.index \div 2,
        hash |-> IF expected = "left" THEN HashNode(step.hash, at.hash)
                 ELSE HashNode(at.hash, step.hash)]
VerifyProof(proof) ==
    LET at[n \in 0 .. Len(proof.path)] ==
            IF n = 0 THEN [ok |-> TRUE, index |-> proof.index, hash |-> proof.leaf]
            ELSE Climb(at[n - 1], proof.path[n])
        top == at[Len(proof.path)]
    IN top.ok /\ top.index = 0 /\ top.hash = proof.root

Leaves(events) == [i \in DOMAIN events |-> Leaf(events[i])]

\* The worker reads a range and publishes its signed root.
CreateCheckpoint(first, last) ==
    /\ Cardinality(checkpoints) < MaxCheckpoints
    /\ \E range \in {EventRange(first, last)} :
          /\ range # << >>
          /\ checkpoints' = checkpoints \cup
                {[first |-> first, last |-> last, root |-> Root(Leaves(range)),
                  range |-> range]}
    /\ UNCHANGED <<script, clock, writer, exporter, bundles, importer, target, witnessed, reader>>

\* A third party exports the range of a checkpoint and signs the root that it
\* computes; the receipt is stored if it is the checkpoint's.
ExportedRange(k) ==
    LET range == EventRange(k.first, k.last)
    IN IF range # << >> /\ range[1] = k.first /\ Last(range) = k.last THEN range ELSE << >>
ImportWitness(k) ==
    /\ script.observer = "witness"
    /\ ExportedRange(k) # << >>
    /\ Root(Leaves(ExportedRange(k))) = k.root \* else WITNESS_ROOT_MISMATCH
    /\ witnessed' = witnessed \cup {k}
    /\ UNCHANGED <<script, source, exporter, bundles, importer, target, reader>>

\* getMerkleCheckpointForEvent compares event ids, and answers the newest match;
\* any of them is allowed here.
Covering(w) ==
    {k \in checkpoints : /\ writer[k.first].id <= writer[w].id
                         /\ writer[w].id <= writer[k.last].id}

\* The answer of the proof route; a checkpoint whose range has changed, or
\* does not contain the event, is answered with an error.
NoProof == [index |-> -1]
IndexIn(range, w) == CHOOSE i \in DOMAIN range : range[i] = w
\* Fault: the root is not compared with the checkpoint's.
ProofFromRange(w, k) ==
    LET range == EventRange(k.first, k.last)
    IN IF w \notin ToSet(range) THEN NoProof
       ELSE InclusionProof(Leaves(range), IndexIn(range, w) - 1)
ServedProof(w, k) ==
    LET range == EventRange(k.first, k.last)
        proof == InclusionProof(Leaves(range), IndexIn(range, w) - 1)
    IN IF w \in ToSet(range) /\ proof.root = k.root THEN proof ELSE NoProof

----------------------------------------------------------------------------
(* Export of a Frontier, a sequence of reads that no transaction joins *)

\* Files of a bundle: what a path stands for, and its content.
Frontier == <<"frontier">>
Events == <<"events">>
ClaimPath(c) == <<"claim", c>>
AttachedPath(a) == <<"attached", a>>
CheckpointPath(k) == <<"checkpoint", k>>
ProofPath(w) == <<"proof", w>>
Role(path) == path[1]

\* listResearchEvents({objectId}): the events whose payload names the claim.
About(c) ==
    {w \in Stored : /\ Command(w).kind \in {"claim", "proposal", "member"}
                    /\ Command(w).claim = c}

\* One document is kept for each claim: of two revisions of one claim, the
\* last that is listed.
ClaimDocuments(members) ==
    {f \in [{m[1] : m \in members} -> {m[2] : m \in members}] :
        \A c \in DOMAIN f : <<c, f[c]>> \in members}
AttachedTo(members) == UNION {Attached[m] : m \in members}
LinksOf(a, members) == {m \in members : a \in Attached[m]}

Documents(snapshot, members, claims, events) ==
    [path \in {Frontier, Events} \cup {ClaimPath(c) : c \in DOMAIN claims}
                                \cup {AttachedPath(a) : a \in AttachedTo(members)} |->
        CASE Role(path) = "frontier" -> [snapshot |-> snapshot, members |-> members]
          [] Role(path) = "events" -> events
          [] Role(path) = "claim" -> claims[path[2]]
          [] Role(path) = "attached" -> LinksOf(path[2], members)]

NoExport == [step |-> "idle"]

OpenExport(s) ==
    /\ script.observer = "export"
    /\ exporter.step = "idle"
    /\ Cardinality(bundles) < MaxExports
    /\ s \in Snapshots
    /\ Members(s) # {} \* else FRONTIER_EMPTY
    /\ exporter' = [step |-> "members", snapshot |-> s, members |-> Members(s)]
    /\ UNCHANGED <<script, source, bundles, importer, target, witnessed, reader>>

ReadEvents ==
    /\ exporter.step = "members"
    /\ \E claims \in ClaimDocuments(exporter.members) :
       \E events \in {UNION {About(m[1]) : m \in exporter.members}} :
          exporter' =
             [step |-> "proofs", left |-> events,
              files |-> Documents(exporter.snapshot, exporter.members, claims, events)]
    /\ UNCHANGED <<script, source, bundles, importer, target, witnessed, reader>>

ExportedProof(w, k) == ServedProof(w, k)
ProofFiles(w, k) ==
    LET proof == ExportedProof(w, k)
    IN [path \in {CheckpointPath(k)} \cup (IF proof = NoProof THEN {} ELSE {ProofPath(w)}) |->
          IF Role(path) = "checkpoint" THEN k ELSE [checkpoint |-> k, proof |-> proof]]
\* A file that has been written is not written again.
Adding(files, more) ==
    [path \in DOMAIN files \cup DOMAIN more |->
        IF path \in DOMAIN files THEN files[path] ELSE more[path]]

ExportProof(w) ==
    /\ exporter.step = "proofs"
    /\ w \in exporter.left
    /\ \E files \in IF Covering(w) = {} THEN {<< >>}
                    ELSE {ProofFiles(w, k) : k \in Covering(w)} :
          exporter' = [exporter EXCEPT !.left = @ \ {w}, !.files = Adding(@, files)]
    /\ UNCHANGED <<script, source, bundles, importer, target, witnessed, reader>>

\* The manifest lists every file of the bundle.
FinishExport ==
    /\ exporter.step = "proofs"
    /\ exporter.left = {}
    /\ bundles' = bundles \cup {[files |-> exporter.files, listed |-> DOMAIN exporter.files]}
    /\ exporter' = NoExport
    /\ UNCHANGED <<script, source, importer, target, witnessed, reader>>

\* A copy of the bundle may arrive without one of its files.
Copies(bundle) ==
    {bundle} \cup
    {[bundle EXCEPT !.files = Restrict(@, DOMAIN @ \ {lost})] :
        lost \in DOMAIN bundle.files}

----------------------------------------------------------------------------
(* Offline verification and import *)

Has(files, path) == path \in DOMAIN files
PathsOf(files, role) == {path \in DOMAIN files : Role(path) = role}

ManifestHolds(bundle) == bundle.listed = DOMAIN bundle.files

ClaimsMatch(files) ==
    LET members == files[Frontier].members
    IN /\ \A path \in PathsOf(files, "claim") : <<path[2], files[path]>> \in members
       /\ \A m \in members : Has(files, ClaimPath(m[1]))

ProofHolds(files, path) ==
    LET claimed == files[path]
    IN /\ VerifyProof(claimed.proof)
       /\ Has(files, CheckpointPath(claimed.checkpoint))
       /\ claimed.proof.root = claimed.checkpoint.root
       /\ path[2] \in files[Events]
       /\ claimed.proof.leaf = Leaf(path[2])
\* Fault: an event without a proof is not missed.
ProofsHold(files) == \A path \in PathsOf(files, "proof") : ProofHolds(files, path)
EventsAreProved(files) ==
    /\ \A path \in PathsOf(files, "proof") : ProofHolds(files, path)
    /\ \A w \in files[Events] : Has(files, ProofPath(w))

Verified(bundle) ==
    /\ ManifestHolds(bundle)
    /\ ClaimsMatch(bundle.files)
    /\ EventsAreProved(bundle.files)

ClaimRows(files) == {<<path[2], files[path]>> : path \in PathsOf(files, "claim")}
AttachedRows(files) == {path[2] : path \in PathsOf(files, "attached")}
CheckpointRows(files) == {path[2] : path \in PathsOf(files, "checkpoint")}

\* What the precheck looks up in the target, without writing anything.
Conflicts(files) ==
    \/ files[Frontier].snapshot \in target.snapshots
    \/ ClaimRows(files) \cap target.revisions # {}
    \/ AttachedRows(files) \cap target.attached # {}

Precheck(i) ==
    /\ importer[i].step = "idle"
    /\ \E b \in bundles : \E copy \in Copies(b) :
          importer' = [importer EXCEPT ![i] =
             IF Verified(copy) /\ ~Conflicts(copy.files)
             THEN [step |-> "ready", files |-> copy.files]
             ELSE [step |-> "refused"]]
    /\ UNCHANGED <<script, source, exporter, bundles, target, witnessed, reader>>

SequenceOf(s) == Command(CHOOSE w \in Of("snapshot") : Command(w).snapshot = s).sequence
PriorSnapshots(s) ==
    {Command(w).snapshot : w \in {v \in Of("snapshot") :
                                     Command(v).sequence = SequenceOf(s) - 1}}

\* The primary keys of the target: rows that the import would insert again.
RowsAreNew(files) ==
    /\ ~target.project
    /\ ~Conflicts(files)
    /\ {r[1] : r \in ClaimRows(files)} \cap {r[1] : r \in target.revisions} = {}
    /\ files[Events] \cap target.events = {}
    /\ CheckpointRows(files) \cap target.checkpoints = {}

\* The foreign keys of the target.
ReferencesResolve(files) ==
    LET events == target.events \cup files[Events]
        revisions == target.revisions \cup ClaimRows(files)
    IN /\ files[Frontier].members \subseteq revisions
       /\ \A path \in PathsOf(files, "attached") : files[path] \subseteq revisions
       /\ \A w \in files[Events] : Command(w).parents \subseteq events
       /\ \A k \in CheckpointRows(files) : {k.first, k.last} \subseteq events
       /\ PriorSnapshots(files[Frontier].snapshot) \subseteq target.snapshots

Restored(files) ==
    [project |-> TRUE,
     snapshots |-> target.snapshots \cup {files[Frontier].snapshot},
     members |-> target.members \cup ({files[Frontier].snapshot} \X files[Frontier].members),
     revisions |-> target.revisions \cup ClaimRows(files),
     attached |-> target.attached \cup AttachedRows(files),
     events |-> target.events \cup files[Events],
     checkpoints |-> target.checkpoints \cup CheckpointRows(files)]

\* One transaction: everything or nothing.
Import(i) ==
    /\ importer[i].step = "ready"
    /\ IF RowsAreNew(importer[i].files) /\ ReferencesResolve(importer[i].files)
       THEN /\ target' = Restored(importer[i].files)
            /\ importer' = [importer EXCEPT ![i] = [step |-> "imported"]]
       ELSE /\ importer' = [importer EXCEPT ![i] = [step |-> "failed"]]
            /\ UNCHANGED target
    /\ UNCHANGED <<script, source, exporter, bundles, witnessed, reader>>

----------------------------------------------------------------------------
EmptyInstance ==
    [project |-> FALSE, snapshots |-> {}, members |-> {}, revisions |-> {},
     attached |-> {}, events |-> {}, checkpoints |-> {}]

Init ==
    /\ script \in Scripts
    /\ clock = 2 * script.given + 1
    /\ writer = [w \in Writers |->
                    IF w <= script.given
                    THEN [phase |-> "stored", start |-> 2 * w - 1, id |-> 2 * w]
                    ELSE [phase |-> "new", start |-> None, id |-> None]]
    /\ checkpoints = {}
    /\ exporter = NoExport
    /\ bundles = {}
    /\ importer = [i \in Importers |-> [step |-> "idle"]]
    /\ target = EmptyInstance
    /\ witnessed = {}
    /\ reader = [step |-> "idle", cursor |-> <<0, 0>>, old |-> {}, delivered |-> << >>]

Next ==
    \/ \E w \in Writers :
          Begin(w) \/ MakeEvent(w) \/ Insert(w) \/ Commit(w) \/ Abort(w) \/ ExportProof(w)
    \/ \E v, w \in Stored : CreateCheckpoint(v, w)
    \/ \E k \in checkpoints : ImportWitness(k)
    \/ ListEvents
    \/ \E s \in Snapshots : OpenExport(s)
    \/ ReadEvents
    \/ FinishExport
    \/ \E i \in Importers : Precheck(i) \/ Import(i)

Spec == Init /\ [][Next]_vars

----------------------------------------------------------------------------
(* Properties *)

\* Whatever was committed into its range since, a proof that the API serves
\* verifies against the root that was signed, and says where the event stood
\* in the range that was signed (getResearchEventInclusionProof and
\* verifyMerkleInclusionProof).
ServedProofsVerify ==
    \A w \in Stored : \A k \in Covering(w) :
        LET proof == ServedProof(w, k)
        IN proof # NoProof =>
              /\ VerifyProof(proof)
              /\ proof.root = k.root
              /\ k.range[proof.index + 1] = w

\* A replay of the log is refused or ends with the current revision of every
\* claim (replayCoreProjections): an event whose transaction began early and
\* committed late never hides the revision after it.
ReplayIsFaithful ==
    LET projection == Replay(Log)
    IN projection # Refused =>
          \A r \in Revisions :
              /\ r[1] \in DOMAIN projection
              /\ <<r[1], projection[r[1]]>> \in Revisions
              /\ r[2] <= projection[r[1]]

\* A client that follows the cursors of listResearchEvents gets no event
\* twice, and in the end every event that was stored when it began.
PagesDeliver ==
    /\ IsInjective(reader.delivered)
    /\ reader.step = "done" => reader.old \subseteq ToSet(reader.delivered)

\* However creations overlap, the snapshots of the project are numbered from
\* one without a gap or a fork, each created for a proposal that was ready
\* (assertFrontierChain; frontier_snapshots_project_sequence_idx).
FrontiersAreContiguous ==
    /\ Sequences = 1 .. Cardinality(Of("snapshot"))
    /\ \A w \in Of("snapshot") : Command(w).proposal \in Ready

\* A Frontier in the other instance is whole: its members are members at the
\* source, their revisions, what is attached to them and the events of those
\* revisions were imported with them, and every imported event stands in the
\* range of an imported checkpoint.
ImportsAreWhole ==
    /\ \A m \in target.members :
          /\ m[2] \in Members(m[1])
          /\ m[2] \in target.revisions
          /\ Attached[m[2]] \subseteq target.attached
          /\ \E w \in target.events :
                /\ Command(w).kind = "claim"
                /\ <<Command(w).claim, Command(w).revision>> = m[2]
    /\ \A s \in target.snapshots : \E m \in target.members : m[1] = s
    /\ \A w \in target.events : \E k \in target.checkpoints : w \in ToSet(k.range)

\* importer.mjs: "Import a verified bundle into an empty (or compatible)
\* instance": a bundle that verifies does not fail in an empty instance.
VerifiedBundlesAreRestored ==
    target = EmptyInstance => \A i \in Importers : importer[i].step # "failed"
=============================================================================
