------------------------------ MODULE MCTaskWork ------------------------------
(***************************************************************************)
(* What surrounds the work on one Task: its leases, the context bundles    *)
(* compiled for it, the runs it leads to and their verification.  The      *)
(* three modules share no variable and no property spans two of them; so   *)
(* in each behaviour just one of them leaves its initial state, and the    *)
(* states of the run are those of the three, one after another.            *)
(***************************************************************************)
EXTENDS TaskLease, ContextBundles, Verification, TLC

-----------------------------------------------------------------------------
(* Two actors submit receipts for two Claims by one Run, one of them twice *)
(* for the same Claim; the other has two findings.  A Run has an output of *)
(* its own, cited as Evidence, and an Artifact has two locations; the      *)
(* policy asks for two reproductions, one of them blind, and allows one    *)
(* blocking finding.                                                       *)

CONSTANTS claim, other, claim1, other1, task, snapshot, artifact, report, location, external,
          bundle, run1, run2, evidence, link, contract, policy

MCKind ==
    claim1 :> "claim_revision" @@ other1 :> "claim_revision"
    @@ task :> "task_revision"
    @@ snapshot :> "snapshot" @@ artifact :> "artifact" @@ report :> "artifact"
    @@ location :> "location" @@ external :> "external_location"
    @@ bundle :> "context_bundle" @@ run1 :> "run" @@ run2 :> "run"
    @@ evidence :> "evidence" @@ link :> "link"
    @@ contract :> "contract" @@ policy :> "policy"

MCRows == DOMAIN MCKind

\* Everything but a Run and what it needs and is cited by; but the locations of
\* an Artifact; but the contract and the policy.
MCSeeds == {MCRows \ {artifact, bundle, run2, evidence, link},
            MCRows \ {location, external}, MCRows \ {contract, policy}}

MCNeeds ==
    [r \in MCRows |->
        CASE r \in {location, external} -> {report}
          [] r = bundle -> {task, snapshot}
          [] r = run2 -> {artifact, bundle, task}
          [] r = evidence -> {artifact, run2}
          [] r = link -> {evidence, claim1}
          [] OTHER -> {}]

MCOutputs == [r \in MCRows |-> IF r = run2 THEN {artifact} ELSE {}]

MCModes == [k \in {contract} |-> {"blind", "frontier"}]

MCPolicies ==
    [p \in {policy} |->
        [successful_reproductions |-> 2, blind_reproductions |-> 1,
         blocking_findings |-> 1]]

Submit(id, actor, on, revision, outcome, mode, found) ==
    [id |-> id, actor |-> actor, run |-> run1, claim |-> on, revision |-> revision,
     contract |-> contract, outcome |-> outcome, mode |-> mode, findings |-> found]

MajorFindings == {[id |-> "f1", severity |-> "major"], [id |-> "f2", severity |-> "critical"]}

MCSubmissions ==
    {Submit("r1", "ann", claim, claim1, "supports", "blind", {}),
     Submit("r2", "ann", claim, claim1, "supports", "frontier", {}),
     Submit("r3", "bob", claim, claim1, "supports", "frontier", MajorFindings),
     Submit("r4", "ann", other, other1, "supports", "blind", {})}

-----------------------------------------------------------------------------
(* A snapshot of two members that depend on and refute each other, and a   *)
(* trace with one private event.                                           *)

CONSTANTS public, private

MCRelations == {[type |-> "depends_on", source |-> 1, target |-> 2],
                [type |-> "refutes", source |-> 2, target |-> 1]}

-----------------------------------------------------------------------------
\* Bound: the rows are all stored, and the Artifacts verified, before anything is
\* submitted or evaluated; nothing is said of a row that receipts or evaluations change.
RowsComeFirst ==
    \/ /\ receipts = {} /\ evaluations = {}
       /\ \A t \in Txns : txn[t].submission = None
       /\ \A j \in Jobs : job[j] = NoJob
    \/ stored = Rows /\ verified = Artifacts

WorkInit == LeaseInit /\ ContextInit /\ Init

\* The initial states of Verification differ in the rows they begin with; one
\* of them is enough for the other two.
VerificationAtRest == Init /\ stored = CHOOSE seed \in Seeds : TRUE

WorkNext ==
    \/ ContextInit /\ VerificationAtRest /\ LeaseNext /\ UNCHANGED <<contextVars, vars>>
    \/ LeaseInit /\ VerificationAtRest /\ ContextNext /\ UNCHANGED <<leaseVars, vars>>
    \/ LeaseInit /\ ContextInit /\ Next /\ RowsComeFirst' /\ UNCHANGED <<leaseVars, contextVars>>

WorkSpec == WorkInit /\ [][WorkNext]_<<leaseVars, contextVars, vars>>

Symmetry == Permutations(Actors) \union Permutations(Invocations) \union Permutations(Txns)

=============================================================================
