---------------------------- MODULE Verification ----------------------------
(***************************************************************************)
(* From an Artifact to a merge proposal.  Commands store Artifacts, their  *)
(* locations, context bundles, Runs, Evidence and its links, contracts and *)
(* policies as rows that are never changed; VerificationReceipts judge a   *)
(* Claim revision by a Run; a worker counts the receipts of a Claim        *)
(* against a policy, in several reads, and its evaluation decides whether  *)
(* a merge proposal is ready.                                              *)
(*                                                                         *)
(* A command checks, waits for its event to be signed, and writes its rows *)
(* and the event in one transaction; what it read may be older by then.    *)
(***************************************************************************)
EXTENDS Naturals, FiniteSets

CONSTANTS
    Rows,        \* everything but receipts that commands may store
    Seeds,       \* the rows there at the start, Claim revisions among them: one of these sets
    Kind,        \* the kind of each row
    Needs,       \* the rows to which the foreign keys of a row refer
    Outputs,     \* the Artifact revisions that a Run gives as its outputs
    Submissions, \* the receipts that may be submitted, with their findings
    Claims,
    Policies,    \* each with the requirements it sets
    Modes,       \* the context modes each contract allows
    Txns, Jobs,
    None,
    MaxEvaluations \* bound: evaluations that are recorded

Finding == [id : STRING, severity : {"critical", "major", "warning", "note"}]

Submission ==
    [id : STRING, actor : STRING, run : Rows, claim : Claims, revision : Rows,
     contract : Rows, outcome : {"supports", "refutes", "qualifies", "inconclusive"},
     mode : STRING, findings : SUBSET Finding]

Requirement ==
    {"successful_reproductions", "blind_reproductions", "distinct_implementations",
     "blocking_findings"}

ASSUME RowsAreKnown ==
    /\ \A seed \in Seeds : seed \subseteq Rows
    /\ Kind \in [Rows -> STRING]
    /\ Needs \in [Rows -> SUBSET Rows]
    /\ Outputs \in [Rows -> SUBSET Rows]
    /\ \A r \in Rows : \A a \in Outputs[r] : a \in Needs[r] /\ Kind[a] = "artifact"
ASSUME SubmissionsAreKnown ==
    /\ Submissions \subseteq Submission
    /\ \A q, p \in Submissions : q.id = p.id => q = p
    /\ \A q \in Submissions : q.contract \in DOMAIN Modes
ASSUME PoliciesRequireSomething ==
    \A p \in DOMAIN Policies :
        /\ p \in Rows
        /\ DOMAIN Policies[p] \subseteq Requirement /\ DOMAIN Policies[p] # {}
        /\ \A key \in DOMAIN Policies[p] : Policies[p][key] \in Nat
ASSUME NoneIsNoSubmission == None \notin Submissions /\ \A q \in Submissions : q.id # None
ASSUME EvaluationsAreBounded == MaxEvaluations \in Nat

VARIABLES
    stored,      \* the rows
    verified,    \* the Artifact revisions whose content was found to have its hash
    receipts,    \* submissions, each with the receipt it duplicates, if any
    findings,    \* rows of their own, each of a receipt
    txn,         \* the commands in flight
    job,         \* the evaluations in progress
    evaluations, \* those recorded
    proposals

vars == <<stored, verified, receipts, findings, txn, job, evaluations, proposals>>

\* beside: kept for the properties; whether another receipt of the actor for the
\* Run was stored since the command listed them.
Idle == [phase |-> "idle", row |-> None, submission |-> None, duplicateOf |-> None,
         beside |-> FALSE]

NoJob == [phase |-> "idle", claim |-> None, policy |-> None,
          counted |-> {}, unread |-> {}, heard |-> {}]

Init ==
    /\ stored \in Seeds
    /\ verified = {}
    /\ receipts = {}
    /\ findings = {}
    /\ txn = [t \in Txns |-> Idle]
    /\ job = [j \in Jobs |-> NoJob]
    /\ evaluations = {}
    /\ proposals = {}

-----------------------------------------------------------------------------
(* Rows *)

Artifacts == {r \in Rows : Kind[r] = "artifact"}

\* The bytes are read back and hashed; who asks for it is outside the commands.
Verify(a) ==
    /\ a \in (Artifacts \intersect stored) \ verified
    /\ verified' = verified \union {a}
    /\ UNCHANGED <<stored, receipts, findings, txn, job, evaluations, proposals>>

\* The command has passed its checks, the row is a new one, and it asks for its event to be signed.
Sign(t, r) ==
    /\ txn[t] = Idle
    /\ txn' = [txn EXCEPT ![t].phase = "signing", ![t].row = r]
    /\ UNCHANGED <<stored, verified, receipts, findings, job, evaluations, proposals>>

\* The rows of these kinds to which the new one refers are there.
Found(r, kinds) == \A n \in Needs[r] : Kind[n] \in kinds => n \in stored

\* These four look nothing up: their events are signed before the transaction.
CreateArtifact(t, r) == Kind[r] = "artifact" /\ Sign(t, r)
CreateEvidence(t, r) == Kind[r] = "evidence" /\ Sign(t, r)
CreateVerificationContract(t, r) == Kind[r] = "contract" /\ Sign(t, r)
CreateVerificationPolicy(t, r) == Kind[r] = "policy" /\ Sign(t, r)

AppendArtifactLocation(t, r) ==
    Kind[r] = "location" /\ Found(r, {"artifact"}) /\ Sign(t, r)

SubmitExternalArtifactLocation(t, r) ==
    Kind[r] = "external_location" /\ Found(r, {"artifact"}) /\ Sign(t, r)

CreateContextBundle(t, r) ==
    Kind[r] = "context_bundle" /\ Found(r, {"task_revision", "snapshot"}) /\ Sign(t, r)

\* The Task and the bundle of a Run are left to its foreign keys.
CreateRun(t, r) ==
    Kind[r] = "run" /\ Found(r, {"artifact"}) /\ Outputs[r] \subseteq verified /\ Sign(t, r)

LinkEvidenceClaim(t, r) ==
    Kind[r] = "link" /\ Found(r, {"evidence", "claim_revision"}) /\ Sign(t, r)

CheckRow(t, r) ==
    \/ CreateArtifact(t, r) \/ AppendArtifactLocation(t, r)
    \/ SubmitExternalArtifactLocation(t, r)
    \/ CreateContextBundle(t, r) \/ CreateRun(t, r)
    \/ CreateEvidence(t, r) \/ LinkEvidenceClaim(t, r)
    \/ CreateVerificationContract(t, r) \/ CreateVerificationPolicy(t, r)

\* The primary key and the foreign keys decide at the insert.
StoreRow(t) ==
    LET r == txn[t].row
    IN  /\ txn[t].phase = "signing" /\ r # None
        /\ r \notin stored /\ Needs[r] \subseteq stored
        /\ stored' = stored \union {r}
        /\ txn' = [txn EXCEPT ![t] = Idle]
        /\ UNCHANGED <<verified, receipts, findings, job, evaluations, proposals>>

\* A refused signature, a refused insert, a crash.
Abort(t) ==
    /\ txn[t] # Idle
    /\ txn' = [txn EXCEPT ![t] = Idle]
    /\ UNCHANGED <<stored, verified, receipts, findings, job, evaluations, proposals>>

-----------------------------------------------------------------------------
(* submitVerification *)

\* Fault: another actor's receipt for the same Run makes a duplicate.
DuplicatesOfRun(q) == {r.id : r \in {s \in receipts : s.run = q.run}}

SameVoice(q, p) == q.actor = p.actor /\ q.run = p.run

\* Whatever Claim they are for.
DuplicatesOf(q) == {r.id : r \in {s \in receipts : SameVoice(s, q)}}

\* The list of earlier receipts is read, without a lock, before the signer is
\* awaited; its first is the one that is named, whichever comes first.
CheckReceipt(t, q) ==
    /\ txn[t] = Idle
    /\ q.run \in stored /\ q.revision \in stored /\ q.contract \in stored
    /\ q.mode \in Modes[q.contract]
    /\ \E d \in IF DuplicatesOf(q) = {} THEN {None} ELSE DuplicatesOf(q) :
          txn' = [txn EXCEPT ![t] = [phase |-> "signing", row |-> None, submission |-> q,
                                     duplicateOf |-> d, beside |-> FALSE]]
    /\ UNCHANGED <<stored, verified, receipts, findings, job, evaluations, proposals>>

\* findings: those it was submitted with, in what rows they are stored.
Receipt(q, d, beside) ==
    [id |-> q.id, actor |-> q.actor, run |-> q.run, claim |-> q.claim,
     outcome |-> q.outcome, mode |-> q.mode, findings |-> q.findings,
     duplicateOf |-> d, beside |-> beside]

FindingsWith(q) ==
    {[receipt |-> q.id, id |-> f.id, severity |-> f.severity] : f \in q.findings}

\* The command ends; the others that have listed the receipts of its actor for
\* its Run have not seen this one.
Submitted(t) ==
    txn' = [u \in Txns |->
        IF u = t THEN Idle
        ELSE IF txn[u].submission # None /\ SameVoice(txn[u].submission, txn[t].submission)
        THEN [txn[u] EXCEPT !.beside = TRUE]
        ELSE txn[u]]

\* Fault: the findings are left to a transaction of their own, which fails.
StoreReceiptAlone(t) ==
    LET q == txn[t].submission
    IN  /\ txn[t].phase = "signing" /\ q # None
        /\ q.id \notin {r.id : r \in receipts}
        /\ receipts' = receipts \union {Receipt(q, txn[t].duplicateOf, txn[t].beside)}
        /\ Submitted(t)
        /\ UNCHANGED <<stored, verified, findings, job, evaluations, proposals>>

\* The receipt, its findings, the contribution and the event; receipts and
\* findings have primary keys.
StoreReceipt(t) ==
    LET q == txn[t].submission
    IN  /\ txn[t].phase = "signing" /\ q # None
        /\ q.id \notin {r.id : r \in receipts}
        /\ \A f \in q.findings : f.id \notin {g.id : g \in findings}
        /\ receipts' = receipts \union {Receipt(q, txn[t].duplicateOf, txn[t].beside)}
        /\ findings' = findings \union FindingsWith(q)
        /\ Submitted(t)
        /\ UNCHANGED <<stored, verified, job, evaluations, proposals>>

-----------------------------------------------------------------------------
(* evaluateClaimPolicyJob *)

StartEvaluation(j, c, p) ==
    /\ job[j].phase = "idle"
    /\ Cardinality(evaluations) < MaxEvaluations
    /\ p \in stored
    /\ job' = [job EXCEPT ![j] = [NoJob EXCEPT !.phase = "listing", !.claim = c, !.policy = p]]
    /\ UNCHANGED <<stored, verified, receipts, findings, txn, evaluations, proposals>>

\* Fault: duplicates are counted.
CountedWithDuplicates(c) == {r \in receipts : r.claim = c}

\* Receipts for any revision of the Claim, without the duplicates.
Counted(c) == {r \in receipts : r.claim = c /\ r.duplicateOf = None}

ListReceipts(j) ==
    /\ job[j].phase = "listing"
    /\ LET counted == Counted(job[j].claim)
       IN  job' = [job EXCEPT ![j].phase = "reading", ![j].counted = counted,
                              ![j].unread = counted]
    /\ UNCHANGED <<stored, verified, receipts, findings, txn, evaluations, proposals>>

\* One read for each receipt, in whatever order they are answered.
ReadFindings(j) ==
    /\ job[j].phase = "reading"
    /\ \E r \in job[j].unread :
          job' = [job EXCEPT ![j].unread = @ \ {r},
                             ![j].heard = @ \union {f \in findings : f.receipt = r.id}]
    /\ UNCHANGED <<stored, verified, receipts, findings, txn, evaluations, proposals>>

Supporting(rs) == {r \in rs : r.outcome = "supports"}

Blocking(fs) == {f \in fs : f.severity \in {"critical", "major"}}

\* The materialised input: an implementation is told by its Run.
Input(rs, fs) ==
    [successful_reproductions |-> Cardinality(Supporting(rs)),
     blind_reproductions |-> Cardinality({r \in Supporting(rs) : r.mode = "blind"}),
     distinct_implementations |-> Cardinality({r.run : r \in Supporting(rs)}),
     blocking_findings |-> Cardinality(Blocking(fs))]

\* The one requirement that is an upper bound.
Met(key, expected, actual) ==
    IF key = "blocking_findings" THEN actual <= expected ELSE actual >= expected

RequirementsMet(p, input) ==
    \A key \in DOMAIN Policies[p] : Met(key, Policies[p][key], input[key])

\* A refuting receipt takes precedence over what was met.
RecommendedOutcome(p, rs, input) ==
    IF \E r \in rs : r.outcome = "refutes" THEN "contested"
    ELSE IF RequirementsMet(p, input) THEN "requirements_met" ELSE None

Evaluation(j) ==
    LET input == Input(job[j].counted, job[j].heard)
    IN  [claim |-> job[j].claim, policy |-> job[j].policy, counted |-> job[j].counted,
         input |-> input, met |-> RequirementsMet(job[j].policy, input),
         outcome |-> RecommendedOutcome(job[j].policy, job[j].counted, input)]

RecordEvaluation(j) ==
    /\ job[j].phase = "reading" /\ job[j].unread = {}
    /\ evaluations' = evaluations \union {Evaluation(j)}
    /\ job' = [job EXCEPT ![j] = NoJob]
    /\ UNCHANGED <<stored, verified, receipts, findings, txn, proposals>>

\* A read throws or the worker dies.
FailEvaluation(j) ==
    /\ job[j].phase # "idle"
    /\ job' = [job EXCEPT ![j] = NoJob]
    /\ UNCHANGED <<stored, verified, receipts, findings, txn, evaluations, proposals>>

\* createMergeProposal, with an evaluation of any age; what it loads never
\* changes, so that its transaction is one step.
Propose(e, revision) ==
    /\ revision \in stored
    /\ proposals' = proposals \union
          {[revision |-> revision, evaluation |-> e,
            status |-> IF e.met THEN "ready" ELSE "blocked"]}
    /\ UNCHANGED <<stored, verified, receipts, findings, txn, job, evaluations>>

-----------------------------------------------------------------------------
RevisionsOf(c) == {q.revision : q \in {s \in Submissions : s.claim = c}}

Next ==
    \/ \E a \in Artifacts : Verify(a)
    \/ \E t \in Txns :
          \/ \E r \in Rows \ stored : CheckRow(t, r)
          \/ \E q \in Submissions : CheckReceipt(t, q)
          \/ StoreRow(t) \/ StoreReceipt(t) \/ Abort(t)
    \/ \E j \in Jobs :
          \/ \E c \in Claims, p \in DOMAIN Policies : StartEvaluation(j, c, p)
          \/ ListReceipts(j) \/ ReadFindings(j) \/ RecordEvaluation(j) \/ FailEvaluation(j)
    \/ \E e \in evaluations : \E revision \in RevisionsOf(e.claim) : Propose(e, revision)

Spec == Init /\ [][Next]_vars

-----------------------------------------------------------------------------
\* A receipt is set aside only for another that is there: of the receipts of one
\* actor for one Run, one is no duplicate, and what the others name is among them
\* ("duplicates remain auditable rather than being silently discarded").  It may
\* be for another Claim: who verifies two Claims by one Run is counted for one.
NoVoiceIsLost ==
    \A r \in receipts :
        LET same == {s \in receipts : SameVoice(s, r)}
        IN  /\ \E s \in same : s.duplicateOf = None
            /\ r.duplicateOf # None => r.duplicateOf \in {s.id : s \in same}

\* An evaluation that counts a receipt counts each blocking finding that was
\* submitted with it, though it reads receipts and findings one after the
\* other while submissions commit.
EvaluationsHearFindings ==
    \A e \in evaluations :
        e.input.blocking_findings =
            Cardinality(Blocking(UNION {FindingsWith(r) : r \in e.counted}))

Voices(rs) == {<<r.actor, r.run>> : r \in rs}

\* A ready proposal rests on as many actors' Runs as its policy asks for,
\* whatever was submitted again, and still does when other receipts have
\* arrived since its evaluation ("ready only when the pinned evaluation has
\* met every policy requirement").  What it may count twice is a receipt that
\* was stored beside another of its actor for its Run, after the one was listed
\* and before the other was: nothing in the code keeps these apart.
ReadyIsEarned ==
    \A p \in proposals :
        LET e == p.evaluation
            required(key) == IF key \in DOMAIN Policies[e.policy]
                             THEN Policies[e.policy][key] ELSE 0
            support == Supporting({r \in receipts : r.claim = e.claim})
            blind == {r \in support : r.mode = "blind"}
            Beside(rs) == {r \in rs : r.beside}
        IN  p.status = "ready" =>
              /\ Cardinality(Voices(support)) + Cardinality(Beside(support))
                   >= required("successful_reproductions")
              /\ Cardinality(Voices(blind)) + Cardinality(Beside(blind))
                   >= required("blind_reproductions")
              /\ Cardinality({r.run : r \in support}) >= required("distinct_implementations")

=============================================================================
