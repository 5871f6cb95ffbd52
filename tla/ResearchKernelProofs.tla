------------------------ MODULE ResearchKernelProofs ------------------------
(***************************************************************************)
(* The two copies of the registry agree on every edge between research     *)
(* nodes; and the write path of the research graph, for any set of         *)
(* invocations, actors, ids, seeds and commands.                           *)
(***************************************************************************)
EXTENDS ResearchKernel, TLAPS

-----------------------------------------------------------------------------
(* The two copies of the registry *)

\* The two copies agree on an edge between research nodes, whatever string its type is.
Agree(type, source, target) ==
    ProtocolAdmits(type, source, target) <=> DatabaseAdmits(type, source, target)

\* The edge types both copies know.
LEMMA EdgeTypes ==
    EdgeType = {"extends_question", "answers", "yields_claim", "rebuts",
                "grounds_rebuttal", "evaluates", "evaluation_basis",
                "challenges", "uses_dataset", "uses_tool", "uses_artifact",
                "materializes_dataset", "packages_tool",
                "materializes_evidence", "operationalizes", "attempted_as",
                "produces_run", "context_for", "run_input",
                "produces_artifact", "produces_evidence", "verifies_claim",
                "verifies_run", "uses_verification_contract",
                "reports_finding", "requires", "derived_from", "extends",
                "implements", "supersedes"}
BY DEF EdgeType, EdgeDefinitions

\* No edge is signed that the database refuses, and none is stored that the
\* protocol would not have signed (assertResearchEdge and
\* enforce_research_edge_registry).
THEOREM RegistriesAdmitTheSame ==
    ASSUME NEW type, NEW source \in NodeKind, NEW target \in NodeKind
    PROVE  Agree(type, source, target)
<1> DEFINE Admitted == <<source, target>> \in EdgeDefinitions[type]
<1>a. type \in EdgeType => (ProtocolAdmits(type, source, target) <=> Admitted)
  BY DEF ProtocolAdmits
<1>1. CASE type = "extends_question"
  <2>1. Admitted <=> DatabaseAdmits("extends_question", source, target)
    BY <1>1 DEF EdgeDefinitions, DatabaseAdmits, Between
  <2> QED
    BY <1>a, <1>1, <2>1, EdgeTypes DEF Agree
<1>2. CASE type = "answers"
  <2>1. Admitted <=> DatabaseAdmits("answers", source, target)
    BY <1>2 DEF EdgeDefinitions, DatabaseAdmits, Between
  <2> QED
    BY <1>a, <1>2, <2>1, EdgeTypes DEF Agree
<1>3. CASE type = "yields_claim"
  <2>1. Admitted <=> DatabaseAdmits("yields_claim", source, target)
    BY <1>3 DEF EdgeDefinitions, DatabaseAdmits, Between
  <2> QED
    BY <1>a, <1>3, <2>1, EdgeTypes DEF Agree
<1>4. CASE type = "rebuts"
  <2>1. Admitted <=> DatabaseAdmits("rebuts", source, target)
    BY <1>4 DEF EdgeDefinitions, DatabaseAdmits, Between, ReasoningSubjects
  <2> QED
    BY <1>a, <1>4, <2>1, EdgeTypes DEF Agree
<1>5. CASE type = "grounds_rebuttal"
  <2>1. Admitted <=> DatabaseAdmits("grounds_rebuttal", source, target)
    BY <1>5 DEF EdgeDefinitions, DatabaseAdmits, Between, EvaluationBases
  <2> QED
    BY <1>a, <1>5, <2>1, EdgeTypes DEF Agree
<1>6. CASE type = "evaluates"
  <2>1. Admitted <=> DatabaseAdmits("evaluates", source, target)
    BY <1>6 DEF EdgeDefinitions, DatabaseAdmits, Between
  <2> QED
    BY <1>a, <1>6, <2>1, EdgeTypes DEF Agree
<1>7. CASE type = "evaluation_basis"
  <2>1. Admitted <=> DatabaseAdmits("evaluation_basis", source, target)
    BY <1>7 DEF EdgeDefinitions, DatabaseAdmits, Between, EvaluationBases
  <2> QED
    BY <1>a, <1>7, <2>1, EdgeTypes DEF Agree
<1>8. CASE type = "challenges"
  <2>1. Admitted <=> DatabaseAdmits("challenges", source, target)
    BY <1>8 DEF EdgeDefinitions, DatabaseAdmits, Between
  <2> QED
    BY <1>a, <1>8, <2>1, EdgeTypes DEF Agree
<1>9. CASE type = "uses_dataset"
  <2>1. Admitted <=> DatabaseAdmits("uses_dataset", source, target)
    BY <1>9 DEF EdgeDefinitions, DatabaseAdmits, Between, Among, ClaimToClaim
  <2> QED
    BY <1>a, <1>9, <2>1, EdgeTypes DEF Agree
<1>10. CASE type = "uses_tool"
  <2>1. Admitted <=> DatabaseAdmits("uses_tool", source, target)
    BY <1>10 DEF EdgeDefinitions, DatabaseAdmits, Between, Among, ClaimToClaim
  <2> QED
    BY <1>a, <1>10, <2>1, EdgeTypes DEF Agree
<1>11. CASE type = "uses_artifact"
  <2>1. Admitted <=> DatabaseAdmits("uses_artifact", source, target)
    BY <1>11 DEF EdgeDefinitions, DatabaseAdmits, Between
  <2> QED
    BY <1>a, <1>11, <2>1, EdgeTypes DEF Agree
<1>12. CASE type = "materializes_dataset"
  <2>1. Admitted <=> DatabaseAdmits("materializes_dataset", source, target)
    BY <1>12 DEF EdgeDefinitions, DatabaseAdmits, Between
  <2> QED
    BY <1>a, <1>12, <2>1, EdgeTypes DEF Agree
<1>13. CASE type = "packages_tool"
  <2>1. Admitted <=> DatabaseAdmits("packages_tool", source, target)
    BY <1>13 DEF EdgeDefinitions, DatabaseAdmits, Between
  <2> QED
    BY <1>a, <1>13, <2>1, EdgeTypes DEF Agree
<1>14. CASE type = "materializes_evidence"
  <2>1. Admitted <=> DatabaseAdmits("materializes_evidence", source, target)
    BY <1>14 DEF EdgeDefinitions, DatabaseAdmits, Between
  <2> QED
    BY <1>a, <1>14, <2>1, EdgeTypes DEF Agree
<1>15. CASE type = "operationalizes"
  <2>1. Admitted <=> DatabaseAdmits("operationalizes", source, target)
    BY <1>15 DEF EdgeDefinitions, DatabaseAdmits, Between
  <2> QED
    BY <1>a, <1>15, <2>1, EdgeTypes DEF Agree
<1>16. CASE type = "attempted_as"
  <2>1. Admitted <=> DatabaseAdmits("attempted_as", source, target)
    BY <1>16 DEF EdgeDefinitions, DatabaseAdmits, Between
  <2> QED
    BY <1>a, <1>16, <2>1, EdgeTypes DEF Agree
<1>17. CASE type = "produces_run"
  <2>1. Admitted <=> DatabaseAdmits("produces_run", source, target)
    BY <1>17 DEF EdgeDefinitions, DatabaseAdmits, Between
  <2> QED
    BY <1>a, <1>17, <2>1, EdgeTypes DEF Agree
<1>18. CASE type = "context_for"
  <2>1. Admitted <=> DatabaseAdmits("context_for", source, target)
    BY <1>18 DEF EdgeDefinitions, DatabaseAdmits, Between
  <2> QED
    BY <1>a, <1>18, <2>1, EdgeTypes DEF Agree
<1>19. CASE type = "run_input"
  <2>1. Admitted <=> DatabaseAdmits("run_input", source, target)
    BY <1>19 DEF EdgeDefinitions, DatabaseAdmits, Between, RunInputs
  <2> QED
    BY <1>a, <1>19, <2>1, EdgeTypes DEF Agree
<1>20. CASE type = "produces_artifact"
  <2>1. Admitted <=> DatabaseAdmits("produces_artifact", source, target)
    BY <1>20 DEF EdgeDefinitions, DatabaseAdmits, Between
  <2> QED
    BY <1>a, <1>20, <2>1, EdgeTypes DEF Agree
<1>21. CASE type = "produces_evidence"
  <2>1. Admitted <=> DatabaseAdmits("produces_evidence", source, target)
    BY <1>21 DEF EdgeDefinitions, DatabaseAdmits, Between
  <2> QED
    BY <1>a, <1>21, <2>1, EdgeTypes DEF Agree
<1>22. CASE type = "verifies_claim"
  <2>1. Admitted <=> DatabaseAdmits("verifies_claim", source, target)
    BY <1>22 DEF EdgeDefinitions, DatabaseAdmits, Between
  <2> QED
    BY <1>a, <1>22, <2>1, EdgeTypes DEF Agree
<1>23. CASE type = "verifies_run"
  <2>1. Admitted <=> DatabaseAdmits("verifies_run", source, target)
    BY <1>23 DEF EdgeDefinitions, DatabaseAdmits, Between
  <2> QED
    BY <1>a, <1>23, <2>1, EdgeTypes DEF Agree
<1>24. CASE type = "uses_verification_contract"
  <2>1. Admitted <=> DatabaseAdmits("uses_verification_contract", source, target)
    BY <1>24 DEF EdgeDefinitions, DatabaseAdmits, Between
  <2> QED
    BY <1>a, <1>24, <2>1, EdgeTypes DEF Agree
<1>25. CASE type = "reports_finding"
  <2>1. Admitted <=> DatabaseAdmits("reports_finding", source, target)
    BY <1>25 DEF EdgeDefinitions, DatabaseAdmits, Between
  <2> QED
    BY <1>a, <1>25, <2>1, EdgeTypes DEF Agree
<1>26. CASE type = "requires"
  <2>1. Admitted <=> DatabaseAdmits("requires", source, target)
    BY <1>26 DEF EdgeDefinitions, DatabaseAdmits, Between, Among, ClaimToClaim
  <2> QED
    BY <1>a, <1>26, <2>1, EdgeTypes DEF Agree
<1>27. CASE type = "derived_from"
  <2>1. Admitted <=> DatabaseAdmits("derived_from", source, target)
    BY <1>27 DEF EdgeDefinitions, DatabaseAdmits, Between, Among, AnswerInputs, ClaimToClaim
  <2> QED
    BY <1>a, <1>27, <2>1, EdgeTypes DEF Agree
<1>28. CASE type = "extends"
  <2>1. Admitted <=> DatabaseAdmits("extends", source, target)
    BY <1>28 DEF EdgeDefinitions, DatabaseAdmits, Between
  <2> QED
    BY <1>a, <1>28, <2>1, EdgeTypes DEF Agree
<1>29. CASE type = "implements"
  <2>1. Admitted <=> DatabaseAdmits("implements", source, target)
    BY <1>29 DEF EdgeDefinitions, DatabaseAdmits, Between
  <2> QED
    BY <1>a, <1>29, <2>1, EdgeTypes DEF Agree
<1>30. CASE type = "supersedes"
  <2>1. Admitted <=> DatabaseAdmits("supersedes", source, target)
    BY <1>30 DEF EdgeDefinitions, DatabaseAdmits, Between, SameKind
  <2> QED
    BY <1>a, <1>30, <2>1, EdgeTypes DEF Agree
<1>31. CASE type \notin EdgeType
  BY <1>31, EdgeTypes DEF Agree, ProtocolAdmits, DatabaseAdmits
<1> QED
  BY EdgeTypes, <1>1, <1>2, <1>3, <1>4, <1>5, <1>6, <1>7, <1>8, <1>9, <1>10, <1>11, <1>12, <1>13, <1>14, <1>15, <1>16, <1>17, <1>18, <1>19, <1>20, <1>21, <1>22, <1>23, <1>24, <1>25, <1>26, <1>27, <1>28, <1>29, <1>30, <1>31

\* The two copies of the registry are one registry.
THEOREM RegistriesAreOne == RegistriesAgree
BY RegistriesAdmitTheSame DEF RegistriesAgree, Agree

-----------------------------------------------------------------------------
(* The shape of a command *)

\* Every motif names registered edge types between registered kinds.
LEMMA MotifsAreRegistered ==
    /\ TypedKind \subseteq NodeKind
    /\ "supersedes" \in EdgeType
    /\ \A k \in TypedKind :
         /\ Motif[k].subject \in EdgeType
         /\ Motif[k].subject # "supersedes"
         /\ Motif[k].basis \in EdgeType \/ Motif[k].basisFrom = {}
         /\ Motif[k].basis # "supersedes"
         /\ Motif[k].basis # Motif[k].subject
<1>1. /\ TypedKind = {"answer", "rebuttal", "evaluation", "dataset", "tool"}
  BY DEF TypedKind, Motif
<1>2. TypedKind \subseteq NodeKind
  BY <1>1 DEF NodeKind
<1>3. {"supersedes", "answers", "derived_from", "rebuts", "grounds_rebuttal",
       "evaluates", "evaluation_basis", "materializes_dataset",
       "packages_tool"} \subseteq EdgeType
  BY DEF EdgeType, EdgeDefinitions
<1> QED
  BY <1>1, <1>2, <1>3 DEF Motif

\* What a command writes and cites are references of the model.
LEMMA CommandRefs ==
    ASSUME NEW c \in Commands
    PROVE  /\ c \in Command
           /\ Target(c) \in Ref
           /\ c.revision # 1 => PreviousRef(c) \in Ref
           /\ c.revision # 1 => PreviousRef(c).revision = c.revision - 1
           /\ IncomingPlans(c) \subseteq Plan
<1>1. c \in Command /\ WellFormed(c)
  BY CommandsAreWellFormed DEF WellFormed
<1>2. /\ c.actor \in Actors /\ c.kind \in TypedKind /\ c.id \in NodeIds
      /\ c.revision \in 1 .. MaxRevision /\ c.subjects \subseteq Ref
      /\ c.bases \subseteq Ref
  BY <1>1 DEF Command
<1>3. Target(c) \in Ref
  BY <1>2, MotifsAreRegistered DEF Target, Ref
<1>4. ASSUME c.revision # 1
      PROVE  /\ PreviousRef(c) \in Ref
             /\ PreviousRef(c).revision = c.revision - 1
  <2>1. PreviousRef(c) = [kind |-> c.kind, id |-> c.id, revision |-> c.revision - 1]
    BY DEF PreviousRef, Target
  <2>2. c.revision - 1 \in 1 .. MaxRevision
    BY <1>2, <1>4, BoundsAreNatural
  <2> QED
    BY <2>1, <2>2, <1>2, MotifsAreRegistered DEF Ref
<1>5. IncomingPlans(c) \subseteq Plan
  <2>1. \A s \in c.subjects : [type |-> Motif[c.kind].subject, source |-> s] \in Plan
    BY <1>2, MotifsAreRegistered DEF Plan
  <2>2. \A s \in c.bases : [type |-> Motif[c.kind].basis, source |-> s] \in Plan
    <3> SUFFICES ASSUME NEW s \in c.bases
                 PROVE  [type |-> Motif[c.kind].basis, source |-> s] \in Plan
      OBVIOUS
    <3>1. Motif[c.kind].basisFrom # {}
      BY <1>1, <1>2 DEF WellFormed
    <3> QED
      BY <3>1, <1>2, MotifsAreRegistered DEF Plan
  <2>3. c.revision # 1 => [type |-> "supersedes", source |-> PreviousRef(c)] \in Plan
    BY <1>4, MotifsAreRegistered DEF Plan
  <2> QED
    BY <2>1, <2>2, <2>3 DEF IncomingPlans
<1> QED
  BY <1>1, <1>3, <1>4, <1>5

-----------------------------------------------------------------------------
(* Type correctness *)

\* The sources an invocation resolves are sources it asked for, with the rank
\* of a stored revision.
LEMMA ResolvedType ==
    ASSUME TypeOK, NEW t \in Txns, txn[t].cmd \in Commands, ResolveSources(t)
    PROVE  /\ txn'[t].resolved \subseteq Resolved
           /\ txn' = [txn EXCEPT ![t] = [txn[t] EXCEPT !.phase = "resolved",
                                                    !.resolved = txn'[t].resolved]]
<1> DEFINE found == UNION {{[type |-> p.type, source |-> p.source, rank |-> row.rank] :
                              row \in {r \in revisions : r.ref = p.source}} :
                            p \in IncomingPlans(txn[t].cmd)}
<1>1. txn' = [txn EXCEPT ![t].phase = "resolved", ![t].resolved = found]
  BY DEF ResolveSources
<1>2. found \subseteq Resolved
  <2>1. IncomingPlans(txn[t].cmd) \subseteq Plan
    BY CommandRefs
  <2>2. \A row \in revisions : row.rank \in Nat
    BY DEF TypeOK, RevisionRow
  <2>3. \A p \in IncomingPlans(txn[t].cmd), row \in revisions :
          [type |-> p.type, source |-> p.source, rank |-> row.rank] \in Resolved
    BY <2>1, <2>2 DEF Plan, Resolved
  <2> QED
    BY <2>3
<1>3. txn \in [Txns -> Txn]
  BY DEF TypeOK
<1>4. txn'[t].resolved = found
  BY <1>1, <1>3 DEF Txn
<1> HIDE DEF found
<1> QED
  BY <1>1, <1>2, <1>3, <1>4 DEF Txn

\* What a commit writes has the types of the tables.
LEMMA CommitTypes ==
    ASSUME TypeOK, InFlight, NEW t \in Txns, Commit(t)
    PROVE  /\ txn[t].cmd \in Commands
           /\ NewRevision(t) \in RevisionRow
           /\ NewEdges(t) \subseteq EdgeRow
           /\ NewEvent(t) \in Event
<1> DEFINE c == txn[t].cmd
<1>1. c \in Commands /\ txn[t].phase = "signed" /\ txn[t] \in Txn
  BY DEF InFlight, Commit, TypeOK
<1>2. c \in Command /\ Target(c) \in Ref /\ IncomingPlans(c) \subseteq Plan
  BY <1>1, CommandRefs
<1>3. c.actor \in Actors
  BY <1>2 DEF Command
<1>4. txn[t].rank \in Nat /\ txn[t].resolved \subseteq Resolved
  BY <1>1 DEF Txn
<1>5. NewRevision(t) \in RevisionRow
  BY <1>2, <1>3, <1>4 DEF NewRevision, RevisionRow
<1>6. NewEdges(t) \subseteq EdgeRow
  <2> SUFFICES ASSUME NEW p \in txn[t].resolved
               PROVE  [type |-> p.type, source |-> p.source, target |-> Target(c),
                       sourceRank |-> p.rank, targetRank |-> txn[t].rank,
                       event |-> txn[t].rank, author |-> c.actor] \in EdgeRow
    BY DEF NewEdges
  <2>1. p.type \in EdgeType /\ p.source \in Ref /\ p.rank \in Nat
    BY <1>4 DEF Resolved
  <2> QED
    BY <2>1, <1>2, <1>3, <1>4 DEF EdgeRow
<1>7. NewEvent(t) \in Event
  <2>1. \A p \in txn[t].resolved : [type |-> p.type, source |-> p.source] \in Plan
    BY <1>4 DEF Resolved, Plan
  <2> QED
    BY <2>1, <1>2, <1>4 DEF NewEvent, Event
<1> QED
  BY <1>1, <1>5, <1>6, <1>7

\* Every step keeps the tables and the invocations well typed.
LEMMA TypeStep ==
    ASSUME TypeOK, InFlight, [Next]_vars
    PROVE  TypeOK'
<1>1. ASSUME NEW t \in Txns, NEW c \in Commands, Begin(t, c)
      PROVE  TypeOK'
  BY <1>1 DEF TypeOK, Begin, graph, Txn
<1>2. ASSUME NEW t \in Txns, AllocateRank(t)
      PROVE  TypeOK'
  <2>1. [txn[t] EXCEPT !.phase = "ranked", !.rank = seq] \in Txn
    BY DEF TypeOK, Txn
  <2>2. txn' = [txn EXCEPT ![t] = [txn[t] EXCEPT !.phase = "ranked", !.rank = seq]]
    BY <1>2 DEF AllocateRank
  <2>3. seq' \in Nat /\ UNCHANGED <<graph, contributors>>
    BY <1>2 DEF AllocateRank, TypeOK
  <2> QED
    BY <2>1, <2>2, <2>3 DEF TypeOK, graph
<1>3. ASSUME NEW t \in Txns, ResolveSources(t)
      PROVE  TypeOK'
  <2>1. txn[t].cmd \in Commands
    BY <1>3 DEF InFlight, ResolveSources
  <2>2. /\ txn'[t].resolved \subseteq Resolved
        /\ txn' = [txn EXCEPT ![t] = [txn[t] EXCEPT !.phase = "resolved",
                                                 !.resolved = txn'[t].resolved]]
    BY <1>3, <2>1, ResolvedType
  <2>3. UNCHANGED <<graph, seq, contributors>>
    BY <1>3 DEF ResolveSources
  <2> QED
    BY <2>2, <2>3 DEF TypeOK, graph, Txn
<1>4. ASSUME NEW t \in Txns, Sign(t)
      PROVE  TypeOK'
  BY <1>4 DEF TypeOK, Sign, graph, Txn
<1>5. ASSUME NEW t \in Txns, Commit(t)
      PROVE  TypeOK'
  <2>1. /\ txn[t].cmd \in Commands
        /\ NewRevision(t) \in RevisionRow
        /\ NewEdges(t) \subseteq EdgeRow
        /\ NewEvent(t) \in Event
    BY <1>5, CommitTypes
  <2>2. /\ revisions' = revisions \union {NewRevision(t)}
        /\ edges' = edges \union NewEdges(t)
        /\ events' = events \union {NewEvent(t)}
        /\ txn' = [txn EXCEPT ![t] = Idle]
        /\ seq' = seq /\ contributors' = contributors
    BY <1>5 DEF Commit
  <2>3. Idle \in Txn
    BY DEF Idle, Txn
  <2>4. nodes' \in [NodeIds -> NodeRow]
    <3>1. txn[t].cmd.kind \in NodeKind
      BY <2>1, CommandRefs, MotifsAreRegistered DEF Command
    <3>2. CASE txn[t].cmd.revision = 1
      <4>1. nodes' = [nodes EXCEPT ![txn[t].cmd.id] =
                        [kind |-> txn[t].cmd.kind, retired |-> FALSE]]
        BY <1>5, <3>2 DEF Commit
      <4> QED
        BY <4>1, <3>1 DEF TypeOK, NodeRow
    <3>3. CASE txn[t].cmd.revision # 1
      BY <1>5, <3>3 DEF Commit, TypeOK
    <3> QED
      BY <3>2, <3>3
  <2> QED
    BY <2>1, <2>2, <2>3, <2>4 DEF TypeOK
<1>6. ASSUME NEW t \in Txns, Rollback(t)
      PROVE  TypeOK'
  BY <1>6 DEF TypeOK, Rollback, graph, Txn, Idle
<1>7. ASSUME NEW n \in NodeIds, Retire(n)
      PROVE  TypeOK'
  BY <1>7 DEF TypeOK, Retire, NodeRow
<1>8. ASSUME NEW a \in Actors, Dismiss(a)
      PROVE  TypeOK'
  BY <1>8 DEF TypeOK, Dismiss, graph
<1>9. CASE UNCHANGED vars
  BY <1>9 DEF TypeOK, vars
<1> QED
  BY <1>1, <1>2, <1>3, <1>4, <1>5, <1>6, <1>7, <1>8, <1>9 DEF Next

\* What an invocation holds stays what its command asked for.
LEMMA InFlightStep ==
    ASSUME TypeOK, InFlight, [Next]_vars
    PROVE  InFlight'
<1> DEFINE Plans(r) == {[type |-> p.type, source |-> p.source] : p \in r}
<1> DEFINE Ok(x) == /\ x.phase # "idle" => x.cmd \in Commands
                    /\ x.phase \in {"resolved", "signed"} =>
                          Plans(x.resolved) = IncomingPlans(x.cmd)
                    /\ x.phase \notin {"resolved", "signed"} => x.resolved = {}
<1>0. InFlight /\ txn \in [Txns -> Txn]
  BY DEF TypeOK
<1>a. SUFFICES \A t \in Txns : Ok(txn'[t])
  BY DEF InFlight
<1>b. \A t \in Txns : Ok(txn[t])
  BY DEF InFlight
<1>c. Ok(Idle)
  BY DEF Idle
<1> HIDE DEF Plans
<1>1. ASSUME NEW t \in Txns, NEW c \in Commands, Begin(t, c)
      PROVE  \A u \in Txns : Ok(txn'[u])
  <2>1. txn' = [txn EXCEPT ![t] = [phase |-> "checked", cmd |-> c, rank |-> 0,
                                  resolved |-> {}]]
    BY <1>1 DEF Begin
  <2> QED
    BY <2>1, <1>0, <1>b
<1>2. ASSUME NEW t \in Txns, AllocateRank(t)
      PROVE  \A u \in Txns : Ok(txn'[u])
  <2>1. /\ txn'[t].phase = "ranked" /\ txn'[t].cmd = txn[t].cmd
        /\ txn'[t].resolved = txn[t].resolved /\ txn[t].phase = "checked"
        /\ \A u \in Txns : u # t => txn'[u] = txn[u]
    BY <1>2, <1>0 DEF AllocateRank, Txn
  <2> QED
    BY <2>1, <1>b
<1>3. ASSUME NEW t \in Txns, ResolveSources(t)
      PROVE  \A u \in Txns : Ok(txn'[u])
  <2> DEFINE found ==
        UNION {{[type |-> p.type, source |-> p.source, rank |-> row.rank] :
                   row \in {r \in revisions : r.ref = p.source}} :
                 p \in IncomingPlans(txn[t].cmd)}
  <2>1. /\ txn'[t].phase = "resolved" /\ txn'[t].cmd = txn[t].cmd
        /\ txn'[t].resolved = found /\ txn[t].phase = "ranked"
        /\ \A u \in Txns : u # t => txn'[u] = txn[u]
    BY <1>3, <1>0 DEF ResolveSources, Txn
  <2>2. IncomingPlans(txn[t].cmd) \subseteq Plan
    BY <2>1, <1>b, CommandRefs
  <2>3. \A p \in IncomingPlans(txn[t].cmd) :
          p = [type |-> p.type, source |-> p.source]
    BY <2>2 DEF Plan
  <2>4. \A p \in IncomingPlans(txn[t].cmd) : \E row \in revisions : row.ref = p.source
    BY <1>3 DEF ResolveSources
  <2>5. Plans(found) = IncomingPlans(txn[t].cmd)
    <3>1. ASSUME NEW p \in IncomingPlans(txn[t].cmd)
          PROVE  p \in Plans(found)
      <4>1. PICK row \in revisions : row.ref = p.source
        BY <2>4
      <4> DEFINE x == [type |-> p.type, source |-> p.source, rank |-> row.rank]
      <4>2. x \in found
        <5> DEFINE S == {[type |-> p.type, source |-> p.source, rank |-> old.rank] :
                           old \in {r \in revisions : r.ref = p.source}}
        <5>1. x \in S
          BY <4>1
        <5> QED
          BY <5>1
      <4>3. p = [type |-> x.type, source |-> x.source]
        BY <2>3
      <4> HIDE DEF found, x
      <4> QED
        BY <4>2, <4>3 DEF Plans
    <3>2. ASSUME NEW x \in found
          PROVE  [type |-> x.type, source |-> x.source] \in IncomingPlans(txn[t].cmd)
      BY <2>3
    <3> HIDE DEF found
    <3> QED
      BY <3>1, <3>2 DEF Plans
  <2> HIDE DEF found
  <2> QED
    BY <2>1, <2>5, <1>b
<1>4. ASSUME NEW t \in Txns, Sign(t)
      PROVE  \A u \in Txns : Ok(txn'[u])
  <2>1. /\ txn'[t].phase = "signed" /\ txn'[t].cmd = txn[t].cmd
        /\ txn'[t].resolved = txn[t].resolved /\ txn[t].phase = "resolved"
        /\ \A u \in Txns : u # t => txn'[u] = txn[u]
    BY <1>4, <1>0 DEF Sign, Txn
  <2> QED
    BY <2>1, <1>b
<1>5. ASSUME NEW t \in Txns, Commit(t) \/ Rollback(t)
      PROVE  \A u \in Txns : Ok(txn'[u])
  <2>1. txn' = [txn EXCEPT ![t] = Idle]
    BY <1>5 DEF Commit, Rollback
  <2> QED
    BY <2>1, <1>0, <1>b, <1>c
<1>6. CASE txn' = txn
  BY <1>6, <1>b
<1>7. ASSUME NEW n \in NodeIds, Retire(n)
      PROVE  txn' = txn
  BY <1>7 DEF Retire
<1>8. ASSUME NEW a \in Actors, Dismiss(a)
      PROVE  txn' = txn
  BY <1>8 DEF Dismiss
<1> QED
  BY <1>1, <1>2, <1>3, <1>4, <1>5, <1>6, <1>7, <1>8 DEF Next, vars

\* The seeded graph and the idle invocations are well typed.
LEMMA TypeInit == Init => TypeOK /\ InFlight
<1> SUFFICES ASSUME Init PROVE TypeOK /\ InFlight
  OBVIOUS
<1>1. /\ \A r \in DOMAIN SeedRank : r \in Ref /\ SeedRank[r] \in Nat
      /\ SeedAuthor \in Actors
  BY SeedsAreRanked, BoundsAreNatural
<1>2. nodes \in [NodeIds -> NodeRow]
  <2>1. ASSUME NEW n \in NodeIds, \E r \in DOMAIN SeedRank : r.id = n
        PROVE  (CHOOSE r \in DOMAIN SeedRank : r.id = n).kind \in NodeKind
    BY <2>1, <1>1 DEF Ref
  <2> QED
    BY <2>1 DEF Init, NodeRow
<1>3. revisions \subseteq RevisionRow
  BY <1>1 DEF Init, RevisionRow
<1>4. events \subseteq Event
  BY <1>1 DEF Init, Event
<1>5. txn \in [Txns -> Txn]
  BY DEF Init, Idle, Txn
<1>6. edges = {} /\ seq \in Nat /\ contributors = Actors
  BY BoundsAreNatural DEF Init
<1>7. InFlight
  BY DEF Init, InFlight, Idle
<1> QED
  BY <1>2, <1>3, <1>4, <1>5, <1>6, <1>7 DEF TypeOK

\* The tables and the invocations stay well typed whatever commands run.
THEOREM TypeCorrect == Spec => []TypeOK
<1>1. TypeOK /\ InFlight /\ [Next]_vars => (TypeOK /\ InFlight)'
  BY TypeStep, InFlightStep
<1> QED
  BY <1>1, TypeInit, PTL DEF Spec

-----------------------------------------------------------------------------
(* The abstract graph *)

\* Only a commit touches the stored graph.
LEMMA OnlyCommitWrites ==
    ASSUME [Next]_vars, \A t \in Txns : ~ Commit(t)
    PROVE  UNCHANGED <<revisions, edges, events>>
BY DEF Next, vars, graph, Begin, AllocateRank, ResolveSources, Sign, Rollback,
       Retire, Dismiss

\* The source of a committed edge was stored before the commit: an edge from
\* the new revision itself would need a rank below its own.
LEMMA CommittedSources ==
    ASSUME TypeOK, InFlight, NEW t \in Txns, Commit(t), NEW e \in NewEdges(t)
    PROVE  /\ e.target = Target(txn[t].cmd)
           /\ e.source \in Committed
           /\ \E row \in revisions : row.ref = e.source /\ row.rank < NewRevision(t).rank
<1>1. /\ NewRevision(t).rank = txn[t].rank
      /\ NewRevision(t).ref = Target(txn[t].cmd)
  BY DEF NewRevision
<1>2. e.target = Target(txn[t].cmd) /\ e.targetRank = txn[t].rank
  BY DEF NewEdges
<1>3. EdgeInsertable(e, revisions \union {NewRevision(t)})
  BY DEF Commit
<1>4. PICK row \in revisions \union {NewRevision(t)} :
         row.ref = e.source /\ row.rank = e.sourceRank
  BY <1>3 DEF EdgeInsertable
<1>5. e.sourceRank < e.targetRank
  BY <1>3 DEF EdgeInsertable
<1>6. NewEdges(t) \subseteq EdgeRow
  BY CommitTypes
<1>7. row # NewRevision(t)
  BY <1>1, <1>2, <1>4, <1>5, <1>6 DEF EdgeRow
<1> QED
  BY <1>1, <1>2, <1>4, <1>5, <1>7 DEF Committed

\* A commit publishes exactly one vertex with arcs from published vertices.
LEMMA CommitPublishes ==
    ASSUME TypeOK, InFlight, NEW t \in Txns, Commit(t)
    PROVE  Dag!Publish(Target(txn[t].cmd)) /\ Target(txn[t].cmd) \in Ref
<1> DEFINE v == Target(txn[t].cmd)
           Arcs(S) == {<<e.source, e.target>> : e \in S}
           sources == {e.source : e \in NewEdges(t)}
<1>1. v \in Ref
  BY CommitTypes, CommandRefs
<1>2. NewRevision(t).ref = v
  BY DEF NewRevision
<1>3. v \notin Committed
  BY <1>2 DEF Commit, Committed
<1>4. Committed' = Committed \union {v}
  BY <1>2 DEF Commit, Committed
<1>5. sources \in SUBSET Committed
  BY CommittedSources
<1>6. Arcs(edges') = Arcs(edges) \union (sources \X {v})
  <2>1. edges' = edges \union NewEdges(t)
    BY DEF Commit
  <2>2. \A e \in NewEdges(t) : e.target = v
    BY CommittedSources
  <2>3. Arcs(NewEdges(t)) = sources \X {v}
    BY <2>2
  <2> QED
    BY <2>1, <2>3
<1>7. Arcs(edges)' = Arcs(edges')
  OBVIOUS
<1> HIDE DEF sources
<1> QED
  BY <1>1, <1>3, <1>4, <1>5, <1>6, <1>7 DEF Dag!Publish

\* The commands and the database together implement the abstract graph: every
\* interleaving publishes whole revisions, each with all its arcs.
THEOREM KernelImplementsDag == Spec => ImplementsDag
<1>1. Init => Dag!Init
  BY SeedsAreRanked DEF Init, Dag!Init, Committed
<1>2. TypeOK /\ InFlight /\ [Next]_vars => [Dag!Next]_(Dag!vars)
  <2> SUFFICES ASSUME TypeOK, InFlight, [Next]_vars
               PROVE  [Dag!Next]_(Dag!vars)
    OBVIOUS
  <2>1. ASSUME NEW t \in Txns, Commit(t)
        PROVE  Dag!Next
    <3>1. Dag!Publish(Target(txn[t].cmd)) /\ Target(txn[t].cmd) \in Ref
      BY <2>1, CommitPublishes
    <3> QED
      BY <3>1 DEF Dag!Next, Dag!Publish
  <2>2. CASE \A t \in Txns : ~ Commit(t)
    BY <2>2, OnlyCommitWrites DEF Dag!vars, Committed
  <2> QED
    BY <2>1, <2>2
<1>3. TypeOK /\ InFlight /\ [Next]_vars => (TypeOK /\ InFlight)'
  BY TypeStep, InFlightStep
<1> QED
  BY <1>1, <1>2, <1>3, TypeInit, PTL DEF Spec, ImplementsDag, Dag!Spec

\* Arcs join published vertices: a step adds arcs from published vertices to
\* the one it publishes (the foreign keys of research_edges).
LEMMA PublishKeepsArcsPublished ==
    ASSUME Dag!ArcsArePublished, Dag!Next
    PROVE  Dag!ArcsArePublished'
BY DEF Dag!ArcsArePublished, Dag!Next, Dag!Publish

\* A step that publishes a vertex creates no cycle: no arc leaves the new
\* vertex when it arrives, so it cannot close one.
LEMMA PublishKeepsAcyclic ==
    ASSUME Dag!ArcsArePublished, Dag!Acyclic, Dag!Next
    PROVE  Dag!Acyclic'
<1> DEFINE arcs == {<<e.source, e.target>> : e \in edges}
<1>1. PICK v \in Ref : Dag!Publish(v)
  BY DEF Dag!Next
<1>2. PICK sources \in SUBSET Committed : arcs' = arcs \union (sources \X {v})
  BY <1>1 DEF Dag!Publish
<1>3. Committed' = Committed \union {v} /\ v \notin Committed
  BY <1>1 DEF Dag!Publish
<1>4. \A a \in arcs : a[1] \in Committed
  BY DEF Dag!ArcsArePublished
<1>5. \A S \in SUBSET Committed : S # {} => \E w \in S : \A a \in arcs : ~ (a[1] \in S /\ a[2] = w)
  BY DEF Dag!Acyclic
<1> HIDE DEF arcs
<1>6. ASSUME NEW S \in SUBSET Committed', S # {}
      PROVE  \E w \in S : \A a \in arcs' : ~ (a[1] \in S /\ a[2] = w)
  <2>1. \A a \in arcs' : a[1] # v
    BY <1>2, <1>3, <1>4
  <2>2. CASE S = {v}
    BY <2>1, <2>2
  <2>3. CASE S # {v}
    <3> DEFINE Old == S \ {v}
    <3>1. Old \in SUBSET Committed /\ Old # {}
      BY <1>3, <1>6, <2>3
    <3>2. PICK w \in Old : \A a \in arcs : ~ (a[1] \in Old /\ a[2] = w)
      BY <1>5, <3>1
    <3>3. \A a \in arcs' : a[2] = w => a \in arcs
      BY <1>2, <3>2
    <3> QED
      BY <2>1, <3>2, <3>3
  <2> QED
    BY <2>2, <2>3
<1> QED
  BY <1>6 DEF arcs, Dag!Acyclic

\* The abstract graph never has a cycle, whatever is published and in
\* whatever order.
THEOREM DagIsAcyclic == Dag!Spec => []Dag!Acyclic
<1>1. Dag!Init => Dag!ArcsArePublished /\ Dag!Acyclic
  BY DEF Dag!Init, Dag!ArcsArePublished, Dag!Acyclic
<1>2. Dag!ArcsArePublished /\ Dag!Acyclic /\ [Dag!Next]_(Dag!vars) => (Dag!ArcsArePublished /\ Dag!Acyclic)'
  <2>1. CASE Dag!Next
    BY <2>1, PublishKeepsArcsPublished, PublishKeepsAcyclic
  <2>2. CASE UNCHANGED Dag!vars
    BY <2>2 DEF Dag!vars, Dag!ArcsArePublished, Dag!Acyclic
  <2> QED
    BY <2>1, <2>2
<1> QED
  BY <1>1, <1>2, PTL DEF Dag!Spec

\* The stored graph never has a cycle, though each command chose its sources
\* before it knew who else was about to commit.
THEOREM GraphIsAcyclic == Spec => []Acyclic
<1>1. Dag!Acyclic => Acyclic
  BY DEF Acyclic
<1> QED
  BY <1>1, KernelImplementsDag, DagIsAcyclic, PTL DEF ImplementsDag

-----------------------------------------------------------------------------
(* The inductive invariant *)

Into(S, r) == {e \in S : e.target = r}
PlansOf(S) == {[type |-> e.type, source |-> e.source] : e \in S}

\* The edges that enter a revision are those its command asked for, fixed by
\* the commit that stored it.
LEMMA CommitEdges ==
    ASSUME TypeOK, InFlight, EdgesJoinRevisions, NEW t \in Txns, Commit(t)
    PROVE  /\ Into(edges', NewRevision(t).ref) = NewEdges(t)
           /\ \A row \in revisions : Into(edges', row.ref) = Into(edges, row.ref)
           /\ PlansOf(NewEdges(t)) = IncomingPlans(txn[t].cmd)
           /\ NewEvent(t).incoming = IncomingPlans(txn[t].cmd)
<1> DEFINE v == NewRevision(t).ref
<1>1. edges' = edges \union NewEdges(t)
  BY DEF Commit
<1>2. \A e \in NewEdges(t) : e.target = v
  BY CommittedSources DEF NewRevision
<1>3. \A row \in revisions : row.ref # v
  BY DEF Commit
<1>4. \A e \in edges : e.target # v
  BY <1>3 DEF EdgesJoinRevisions, Committed
<1>5. Into(edges', v) = NewEdges(t)
  BY <1>1, <1>2, <1>4 DEF Into
<1>6. \A row \in revisions : Into(edges', row.ref) = Into(edges, row.ref)
  BY <1>1, <1>2, <1>3 DEF Into
<1>7. NewEvent(t).incoming = IncomingPlans(txn[t].cmd)
  BY DEF NewEvent, InFlight, Commit
<1>8. PlansOf(NewEdges(t)) = NewEvent(t).incoming
  <2>1. ASSUME NEW e \in NewEdges(t)
        PROVE  [type |-> e.type, source |-> e.source] \in NewEvent(t).incoming
    BY DEF NewEdges, NewEvent
  <2>2. ASSUME NEW p \in txn[t].resolved
        PROVE  [type |-> p.type, source |-> p.source] \in PlansOf(NewEdges(t))
    <3> DEFINE e == [type |-> p.type, source |-> p.source,
                     target |-> Target(txn[t].cmd),
                     sourceRank |-> p.rank, targetRank |-> txn[t].rank,
                     event |-> txn[t].rank, author |-> txn[t].cmd.actor]
    <3>1. e \in NewEdges(t)
      BY DEF NewEdges
    <3>2. e.type = p.type /\ e.source = p.source
      OBVIOUS
    <3> HIDE DEF e
    <3> QED
      BY <3>1, <3>2 DEF PlansOf
  <2>3. NewEvent(t).incoming =
          {[type |-> p.type, source |-> p.source] : p \in txn[t].resolved}
    BY DEF NewEvent
  <2> QED
    BY <2>1, <2>2, <2>3 DEF PlansOf
<1> QED
  BY <1>5, <1>6, <1>7, <1>8

\* A revision's key and rank stay its own, and edges keep joining revisions.
LEMMA KeysStep ==
    ASSUME TypeOK, InFlight, KeysAreUnique, EdgesJoinRevisions, [Next]_vars
    PROVE  KeysAreUnique' /\ EdgesJoinRevisions'
<1>1. ASSUME NEW t \in Txns, Commit(t)
      PROVE  KeysAreUnique' /\ EdgesJoinRevisions'
  <2>1. /\ revisions' = revisions \union {NewRevision(t)}
        /\ edges' = edges \union NewEdges(t)
        /\ \A old \in revisions : old.ref # NewRevision(t).ref /\ old.rank # NewRevision(t).rank
    BY <1>1 DEF Commit
  <2>2. KeysAreUnique'
    BY <2>1 DEF KeysAreUnique
  <2>3. \A e \in NewEdges(t) : e.source \in Committed /\ e.target = NewRevision(t).ref
    BY <1>1, CommittedSources DEF NewRevision
  <2>4. Committed' = Committed \union {NewRevision(t).ref}
    BY <2>1 DEF Committed
  <2>5. EdgesJoinRevisions'
    BY <2>1, <2>3, <2>4 DEF EdgesJoinRevisions
  <2> QED
    BY <2>2, <2>5
<1>2. CASE \A t \in Txns : ~ Commit(t)
  BY <1>2, OnlyCommitWrites DEF KeysAreUnique, EdgesJoinRevisions, Committed
<1> QED
  BY <1>1, <1>2

\* A signed event keeps binding exactly the edges stored into its revision.
LEMMA SignedEdgesStep ==
    ASSUME TypeOK, InFlight, EdgesJoinRevisions, SignedEdgesAreStoredEdges,
           [Next]_vars
    PROVE  SignedEdgesAreStoredEdges'
<1> DEFINE Binds(ev, row, S) == /\ ev.id = row.event
                                /\ ev.target = row.ref
                                /\ ev.incoming = PlansOf(Into(S, row.ref))
<1>0. SignedEdgesAreStoredEdges =>
        \A row \in revisions : \E ev \in events : Binds(ev, row, edges)
  BY DEF SignedEdgesAreStoredEdges, PlansOf, Into
<1>1. (\A row \in revisions' : \E ev \in events' : Binds(ev, row, edges'))
        => SignedEdgesAreStoredEdges'
  BY DEF SignedEdgesAreStoredEdges, PlansOf, Into
<1>2. ASSUME NEW t \in Txns, Commit(t)
      PROVE  \A row \in revisions' : \E ev \in events' : Binds(ev, row, edges')
  <2>1. /\ revisions' = revisions \union {NewRevision(t)}
        /\ events' = events \union {NewEvent(t)}
    BY <1>2 DEF Commit
  <2>2. /\ Into(edges', NewRevision(t).ref) = NewEdges(t)
        /\ \A row \in revisions : Into(edges', row.ref) = Into(edges, row.ref)
        /\ PlansOf(NewEdges(t)) = NewEvent(t).incoming
    BY <1>2, CommitEdges
  <2>3. NewEvent(t).id = NewRevision(t).event /\ NewEvent(t).target = NewRevision(t).ref
    BY DEF NewEvent, NewRevision
  <2>4. Binds(NewEvent(t), NewRevision(t), edges')
    BY <2>2, <2>3
  <2>5. \A row \in revisions, ev \in events : Binds(ev, row, edges) => Binds(ev, row, edges')
    BY <2>2
  <2> HIDE DEF Binds
  <2> QED
    BY <1>0, <2>1, <2>4, <2>5
<1>3. ASSUME \A t \in Txns : ~ Commit(t)
      PROVE  \A row \in revisions' : \E ev \in events' : Binds(ev, row, edges')
  BY <1>0, <1>3, OnlyCommitWrites
<1> HIDE DEF Binds
<1> QED
  BY <1>1, <1>2, <1>3

\* A source, once resolved, stays stored with its rank until the commit.
LEMMA SignedSourcesStep ==
    ASSUME TypeOK, InFlight, KeysAreUnique, SignedSourcesAreStored, [Next]_vars
    PROVE  SignedSourcesAreStored'
<1> DEFINE Ok(x, rows) == \A p \in x.resolved :
                             /\ p.rank < x.rank
                             /\ \E row \in rows : row.ref = p.source /\ row.rank = p.rank
<1>0. txn \in [Txns -> Txn] /\ \A t \in Txns : Ok(txn[t], revisions)
  BY DEF TypeOK, SignedSourcesAreStored
<1>1. revisions \subseteq revisions'
  <2>1. ASSUME NEW t \in Txns, Commit(t) PROVE revisions \subseteq revisions'
    BY <2>1 DEF Commit
  <2> QED
    BY <2>1, OnlyCommitWrites
<1>2. SUFFICES \A t \in Txns : Ok(txn'[t], revisions)
  BY <1>1 DEF SignedSourcesAreStored
<1>3. ASSUME NEW t \in Txns, ResolveSources(t)
      PROVE  \A u \in Txns : Ok(txn'[u], revisions)
  <2> DEFINE c == txn[t].cmd
             found == UNION {{[type |-> p.type, source |-> p.source, rank |-> row.rank] :
                                row \in {r \in revisions : r.ref = p.source}} :
                              p \in IncomingPlans(c)}
  <2>1. /\ txn'[t].resolved = found /\ txn'[t].rank = txn[t].rank
        /\ \A u \in Txns : u # t => txn'[u] = txn[u]
    BY <1>0, <1>3 DEF ResolveSources, Txn
  <2>2. ASSUME NEW p \in IncomingPlans(c), NEW row \in revisions, row.ref = p.source
        PROVE  row.rank < txn[t].rank
    BY <1>3, <2>2 DEF ResolveSources, KeysAreUnique
  <2>3. ASSUME NEW x \in found
        PROVE  /\ x.rank < txn[t].rank
               /\ \E row \in revisions : row.ref = x.source /\ row.rank = x.rank
    BY <2>2
  <2> HIDE DEF found
  <2> QED
    BY <1>0, <2>1, <2>3
<1>4. ASSUME NEW t \in Txns, AllocateRank(t)
      PROVE  \A u \in Txns : Ok(txn'[u], revisions)
  <2>1. txn[t].resolved = {}
    BY <1>4 DEF AllocateRank, InFlight
  <2>2. /\ txn'[t].resolved = txn[t].resolved
        /\ \A u \in Txns : u # t => txn'[u] = txn[u]
    BY <1>0, <1>4 DEF AllocateRank, Txn
  <2> QED
    BY <1>0, <2>1, <2>2
<1>5. ASSUME NEW t \in Txns, Sign(t)
      PROVE  \A u \in Txns : Ok(txn'[u], revisions)
  <2>1. /\ txn'[t].resolved = txn[t].resolved /\ txn'[t].rank = txn[t].rank
        /\ \A u \in Txns : u # t => txn'[u] = txn[u]
    BY <1>0, <1>5 DEF Sign, Txn
  <2> QED
    BY <1>0, <2>1
<1>6. ASSUME NEW t \in Txns, NEW c \in Commands, Begin(t, c) \/ Commit(t) \/ Rollback(t)
      PROVE  \A u \in Txns : Ok(txn'[u], revisions)
  <2>1. txn'[t].resolved = {} /\ \A u \in Txns : u # t => txn'[u] = txn[u]
    BY <1>0, <1>6 DEF Begin, Commit, Rollback, Idle
  <2> QED
    BY <1>0, <2>1
<1>7. ASSUME NEW t \in Txns, Commit(t) \/ Rollback(t)
      PROVE  \A u \in Txns : Ok(txn'[u], revisions)
  BY <1>6, <1>7 DEF InFlight, Commit, Rollback
<1>8. CASE txn' = txn
  BY <1>0, <1>8
<1> HIDE DEF Ok
<1> QED
  BY <1>3, <1>4, <1>5, <1>6, <1>7, <1>8 DEF Next, vars, Retire, Dismiss

\* An id keeps the kind it was created with.
LEMMA OneKindStep ==
    ASSUME TypeOK, InFlight, OneKindPerId, [Next]_vars
    PROVE  OneKindPerId'
<1>1. ASSUME NEW t \in Txns, Commit(t)
      PROVE  OneKindPerId'
  <2> DEFINE c == txn[t].cmd
             row == NewRevision(t)
  <2>1. revisions' = revisions \union {row}
    BY <1>1 DEF Commit
  <2>2. c \in Command /\ row.ref = Target(c) /\ c.kind \in NodeKind /\ c.id \in NodeIds
    BY <1>1, CommitTypes, CommandRefs, MotifsAreRegistered DEF NewRevision, Command
  <2>3. row.ref.kind = c.kind /\ row.ref.id = c.id
    BY <2>2 DEF Target
  <2>4. "none" \notin NodeKind
    BY DEF NodeKind
  <2>5. nodes \in [NodeIds -> NodeRow] /\ \A old \in revisions : old.ref \in Ref
    BY DEF TypeOK, RevisionRow
  <2>6. nodes'[c.id].kind = c.kind
    BY <1>1, <2>2, <2>5 DEF Commit
  <2>7. ASSUME NEW old \in revisions
        PROVE  nodes'[old.ref.id].kind = old.ref.kind
    <3>1. nodes[old.ref.id].kind = old.ref.kind /\ old.ref.kind # "none"
      BY <2>4, <2>5 DEF OneKindPerId, Ref
    <3>2. CASE old.ref.id = c.id
      BY <1>1, <2>6, <3>1, <3>2 DEF Commit
    <3>3. CASE old.ref.id # c.id
      BY <1>1, <2>5, <3>1, <3>3 DEF Commit, Ref
    <3> QED
      BY <3>2, <3>3
  <2> HIDE DEF c, row
  <2> QED
    BY <2>1, <2>3, <2>6, <2>7 DEF OneKindPerId
<1>2. ASSUME NEW n \in NodeIds, Retire(n)
      PROVE  OneKindPerId'
  BY <1>2 DEF Retire, TypeOK, OneKindPerId, NodeRow, RevisionRow, Ref
<1>3. CASE UNCHANGED <<nodes, revisions>>
  BY <1>3 DEF OneKindPerId
<1> QED
  BY <1>1, <1>2, <1>3 DEF Next, vars, graph, Begin, AllocateRank, ResolveSources,
                          Sign, Rollback, Dismiss

\* The supersedes edge is the only relation a command asks for by that name,
\* and it comes from the revision before its own.
LEMMA PlannedLineage ==
    ASSUME NEW c \in Commands, NEW p \in IncomingPlans(c)
    PROVE  /\ p.type = "supersedes" => c.revision # 1 /\ p.source = PreviousRef(c)
           /\ p.type # "supersedes" =>
                \/ p.type = Motif[c.kind].subject /\ p.source \in c.subjects
                \/ p.type = Motif[c.kind].basis /\ p.source \in c.bases
<1>1. c.kind \in TypedKind
  BY CommandRefs DEF Command
<1>2. Motif[c.kind].subject # "supersedes" /\ Motif[c.kind].basis # "supersedes"
  BY <1>1, MotifsAreRegistered
<1>3. CASE c.revision = 1
  BY <1>2, <1>3 DEF IncomingPlans
<1>4. CASE c.revision # 1
  BY <1>2, <1>4 DEF IncomingPlans
<1> QED
  BY <1>3, <1>4

Lineage(S, r) == {e \in S : e.target = r /\ e.type = "supersedes"}
Chained(row, S, rows) ==
    IF row.ref.revision = 1 THEN Lineage(S, row.ref) = {}
    ELSE \E previous \in rows :
           /\ previous.ref = [row.ref EXCEPT !.revision = @ - 1]
           /\ previous.rank < row.rank
           /\ \E e \in Lineage(S, row.ref) :
                Lineage(S, row.ref) = {e} /\ e.source = previous.ref

\* A new revision continues the chain of its node.
LEMMA CommitChains ==
    ASSUME TypeOK, InFlight, EdgesJoinRevisions, NEW t \in Txns, Commit(t)
    PROVE  Chained(NewRevision(t), edges', revisions)
<1> DEFINE c == txn[t].cmd
           row == NewRevision(t)
           into == Lineage(edges', row.ref)
<1>1. /\ c \in Commands /\ c \in Command
      /\ row.ref = Target(c) /\ row.ref.revision = c.revision
      /\ row.event = txn[t].rank
  BY CommitTypes, CommandRefs DEF NewRevision, Target
<1>2. into = {e \in NewEdges(t) : e.type = "supersedes"}
  BY CommitEdges DEF Lineage, Into
<1>3. ASSUME NEW e \in into
      PROVE  c.revision # 1 /\ e.source = PreviousRef(c)
  <2>1. [type |-> e.type, source |-> e.source] \in IncomingPlans(c)
    BY <1>2, CommitEdges DEF PlansOf
  <2> QED
    BY <1>1, <1>2, <2>1, PlannedLineage
<1>4. CASE c.revision = 1
  BY <1>1, <1>3, <1>4 DEF Chained
<1>5. CASE c.revision # 1
  <2>1. PreviousRef(c) = [row.ref EXCEPT !.revision = @ - 1]
    BY <1>1 DEF PreviousRef
  <2>2. \A e \in into : e.event = row.event /\ e.target = row.ref
    BY <1>1, <1>2 DEF NewEdges
  <2>3. into = {e \in edges \union NewEdges(t) :
                  /\ e.type = "supersedes" /\ e.target = row.ref
                  /\ e.source = [row.ref EXCEPT !.revision = @ - 1]
                  /\ e.event = row.event}
    <3>1. edges' = edges \union NewEdges(t)
      BY DEF Commit
    <3>2. \A e \in into : e.source = [row.ref EXCEPT !.revision = @ - 1]
      BY <1>3, <2>1
    <3>3. into = {e \in edges' : e.target = row.ref /\ e.type = "supersedes"}
      BY DEF Lineage
    <3> HIDE DEF into
    <3> QED
      BY <2>2, <3>1, <3>2, <3>3
  <2>4. ExactlyOne(into)
    BY <1>1, <1>5, <2>3 DEF Commit, LineageHolds
  <2>5. PICK e \in into : into = {e}
    BY <2>4 DEF ExactlyOne
  <2>6. PICK previous \in revisions : previous.ref = e.source /\ previous.rank < row.rank
    BY <1>2, <2>5, CommittedSources
  <2> QED
    BY <1>1, <1>3, <1>5, <2>1, <2>5, <2>6 DEF Chained
<1> QED
  BY <1>4, <1>5

\* Two authors who revise a node at once never fork its chain.
LEMMA LineageStep ==
    ASSUME TypeOK, InFlight, EdgesJoinRevisions, LineageIsAChain, [Next]_vars
    PROVE  LineageIsAChain'
<1>1. \A row \in revisions : Chained(row, edges, revisions)
  BY DEF LineageIsAChain, Chained, Lineage
<1>2. (\A row \in revisions' : Chained(row, edges', revisions')) => LineageIsAChain'
  BY DEF LineageIsAChain, Chained, Lineage
<1>3. ASSUME NEW t \in Txns, Commit(t)
      PROVE  \A row \in revisions' : Chained(row, edges', revisions')
  <2>1. revisions' = revisions \union {NewRevision(t)}
    BY <1>3 DEF Commit
  <2>2. Chained(NewRevision(t), edges', revisions')
    BY <1>3, <2>1, CommitChains DEF Chained
  <2>3. \A row \in revisions : Lineage(edges', row.ref) = Lineage(edges, row.ref)
    BY <1>3, CommitEdges DEF Lineage, Into
  <2>4. \A row \in revisions : Chained(row, edges', revisions')
    BY <1>1, <2>1, <2>3 DEF Chained
  <2> QED
    BY <2>1, <2>2, <2>4
<1>4. ASSUME \A t \in Txns : ~ Commit(t)
      PROVE  \A row \in revisions' : Chained(row, edges', revisions')
  BY <1>1, <1>4, OnlyCommitWrites
<1> QED
  BY <1>2, <1>3, <1>4

Subject(S, r) == {e \in S : e.target = r /\ e.type = Motif[r.kind].subject}
Complete(r, S) ==
    /\ ExactlyOne(Subject(S, r)) \/ (r.kind = "tool" /\ Subject(S, r) = {})
    /\ r.kind = "evaluation" =>
         \E e \in S : e.target = r /\ e.type = "evaluation_basis"

\* A new revision has the subject its command named, and its basis.
LEMMA CommitCompletes ==
    ASSUME TypeOK, InFlight, EdgesJoinRevisions, NEW t \in Txns, Commit(t)
    PROVE  Complete(NewRevision(t).ref, edges')
<1> DEFINE c == txn[t].cmd
           r == NewRevision(t).ref
           all == edges \union NewEdges(t)
<1>1. /\ c \in Commands /\ WellFormed(c)
      /\ c.kind \in TypedKind /\ r = Target(c) /\ r.kind = c.kind
  BY CommitTypes, CommandRefs, CommandsAreWellFormed DEF NewRevision, Target, Command
<1>2. edges' = all /\ MotifHolds(c, all)
  BY DEF Commit
<1>3. {e \in all : e.target = r} = NewEdges(t)
  BY <1>2, CommitEdges DEF Into
<1>4. ASSUME NEW e \in NewEdges(t), e.type = Motif[c.kind].subject
      PROVE  e.source \in c.subjects
  <2>1. [type |-> e.type, source |-> e.source] \in IncomingPlans(c)
    BY CommitEdges DEF PlansOf
  <2>2. e.type # "supersedes" /\ e.type # Motif[c.kind].basis
    BY <1>1, <1>4, MotifsAreRegistered
  <2> QED
    BY <1>1, <2>1, <2>2, PlannedLineage
<1>5. Subject(all, r) = {e \in NewEdges(t) : e.type = Motif[c.kind].subject}
  BY <1>1, <1>3 DEF Subject
<1>6. ExactlyOne(Subject(all, r)) \/ (r.kind = "tool" /\ Subject(all, r) = {})
  <2>1. CASE c.subjects = {}
    <3>1. c.kind = "tool"
      BY <1>1, <2>1 DEF WellFormed
    <3>2. Subject(all, r) = {}
      BY <1>4, <1>5, <2>1
    <3> QED
      BY <1>1, <3>1, <3>2
  <2>2. CASE c.subjects # {}
    <3> DEFINE into == {e \in all : e.target = Target(c)}
               subject == {e \in into :
                             /\ e.type = Motif[c.kind].subject
                             /\ c.kind \in {"answer", "rebuttal"} \/ e.source \in c.subjects}
    <3>1. ExactlyOne(subject)
      BY <1>2, <2>2 DEF MotifHolds
    <3>2. into = NewEdges(t)
      BY <1>1, <1>3
    <3>3. subject = Subject(all, r)
      BY <1>4, <1>5, <3>2
    <3> QED
      BY <3>1, <3>3
  <2> QED
    BY <2>1, <2>2
<1>7. ASSUME c.kind = "evaluation"
      PROVE  \E e \in all : e.target = r /\ e.type = "evaluation_basis"
  BY <1>1, <1>2, <1>7 DEF MotifHolds
<1> HIDE DEF c, all
<1> QED
  BY <1>1, <1>2, <1>6, <1>7 DEF Complete

\* A typed revision keeps its subject and its basis.
LEMMA MotifsStep ==
    ASSUME TypeOK, InFlight, EdgesJoinRevisions, MotifsAreComplete, [Next]_vars
    PROVE  MotifsAreComplete'
<1> DEFINE Typed(row) == row.ref.kind \in TypedKind
<1>1. \A row \in revisions : Typed(row) => Complete(row.ref, edges)
  BY DEF MotifsAreComplete, Complete, Subject, ExactlyOne
<1>2. (\A row \in revisions' : Typed(row) => Complete(row.ref, edges'))
        => MotifsAreComplete'
  BY DEF MotifsAreComplete, Complete, Subject, ExactlyOne
<1>3. ASSUME NEW t \in Txns, Commit(t)
      PROVE  \A row \in revisions' : Typed(row) => Complete(row.ref, edges')
  <2>1. revisions' = revisions \union {NewRevision(t)}
    BY <1>3 DEF Commit
  <2>2. Complete(NewRevision(t).ref, edges')
    BY <1>3, CommitCompletes
  <2>3. ASSUME NEW row \in revisions, Complete(row.ref, edges)
        PROVE  Complete(row.ref, edges')
    <3>1. Into(edges', row.ref) = Into(edges, row.ref)
      BY <1>3, CommitEdges
    <3>2. Subject(edges', row.ref) = Subject(edges, row.ref)
      BY <3>1 DEF Subject, Into
    <3> QED
      BY <2>3, <3>1, <3>2 DEF Complete, Into
  <2> QED
    BY <1>1, <2>1, <2>2, <2>3
<1>4. ASSUME \A t \in Txns : ~ Commit(t)
      PROVE  \A row \in revisions' : Typed(row) => Complete(row.ref, edges')
  BY <1>1, <1>4, OnlyCommitWrites
<1> QED
  BY <1>2, <1>3, <1>4

-----------------------------------------------------------------------------
(* The theorems *)

\* The seeded graph satisfies the invariant: it has no edge and no typed node.
LEMMA InvInit == Init => IInv
<1> SUFFICES ASSUME Init PROVE IInv
  OBVIOUS
<1>1. /\ revisions = {[ref |-> r, rank |-> SeedRank[r], event |-> SeedRank[r],
                       author |-> SeedAuthor] : r \in DOMAIN SeedRank}
      /\ events = {[id |-> SeedRank[r], target |-> r, incoming |-> {}] :
                     r \in DOMAIN SeedRank}
      /\ edges = {}
      /\ \A t \in Txns : txn[t].resolved = {}
  BY DEF Init, Idle
<1>2. \A r \in DOMAIN SeedRank :
        r \in Ref /\ r.revision = 1 /\ r.kind \notin TypedKind
  BY SeedsAreRanked
<1>3. KeysAreUnique
  BY <1>1, SeedsAreRanked DEF KeysAreUnique
<1>4. EdgesJoinRevisions /\ SignedSourcesAreStored
  BY <1>1 DEF EdgesJoinRevisions, SignedSourcesAreStored
<1>5. OneKindPerId
  <2> SUFFICES ASSUME NEW r \in DOMAIN SeedRank
               PROVE  nodes[r.id].kind = r.kind
    BY <1>1 DEF OneKindPerId
  <2>1. r.id \in NodeIds
    BY <1>2 DEF Ref
  <2>2. (CHOOSE s \in DOMAIN SeedRank : s.id = r.id) = r
    BY SeedsAreRanked
  <2> QED
    BY <2>1, <2>2 DEF Init
<1>6. SignedEdgesAreStoredEdges
  <2> SUFFICES ASSUME NEW r \in DOMAIN SeedRank
               PROVE  \E ev \in events : /\ ev.id = SeedRank[r] /\ ev.target = r
                                         /\ ev.incoming = {}
    BY <1>1 DEF SignedEdgesAreStoredEdges
  <2> DEFINE ev == [id |-> SeedRank[r], target |-> r, incoming |-> {}]
  <2>1. ev \in events
    BY <1>1
  <2>2. ev.id = SeedRank[r] /\ ev.target = r /\ ev.incoming = {}
    OBVIOUS
  <2> HIDE DEF ev
  <2> QED
    BY <2>1, <2>2
<1>7. LineageIsAChain
  BY <1>1, <1>2 DEF LineageIsAChain
<1>8. MotifsAreComplete
  BY <1>1, <1>2 DEF MotifsAreComplete
<1> QED
  BY <1>3, <1>4, <1>5, <1>6, <1>7, <1>8, TypeInit DEF IInv

\* Every step of every interleaving keeps the invariant.
LEMMA InvStep == IInv /\ [Next]_vars => IInv'
BY TypeStep, InFlightStep, KeysStep, SignedSourcesStep, OneKindStep,
   SignedEdgesStep, LineageStep, MotifsStep DEF IInv

\* The invariant of the write path holds in every reachable state.
THEOREM KernelInvariant == Spec => []IInv
BY InvInit, InvStep, PTL DEF Spec

\* What a signed event binds is what is stored: an auditor who recomputes the
\* incoming edges of a revision from the event finds exactly the stored ones.
THEOREM SignedEdgesStored == Spec => []SignedEdgesAreStoredEdges
<1>1. IInv => SignedEdgesAreStoredEdges
  BY DEF IInv
<1> QED
  BY <1>1, KernelInvariant, PTL

\* A node's revisions form one unforked chain of supersedes edges.
THEOREM LineageNeverForks == Spec => []LineageIsAChain
<1>1. IInv => LineageIsAChain
  BY DEF IInv
<1> QED
  BY <1>1, KernelInvariant, PTL

\* No typed revision is ever stored without its subject or its basis.
THEOREM MotifsComplete == Spec => []MotifsAreComplete
<1>1. IInv => MotifsAreComplete
  BY DEF IInv
<1> QED
  BY <1>1, KernelInvariant, PTL

\* Sources that were resolved before the signature are stored unchanged.
THEOREM SignedSourcesStored == Spec => []SignedSourcesAreStored
<1>1. IInv => SignedSourcesAreStored
  BY DEF IInv
<1> QED
  BY <1>1, KernelInvariant, PTL

\* An id never changes or doubles its kind.
THEOREM KindsAreStable == Spec => []OneKindPerId
<1>1. IInv => OneKindPerId
  BY DEF IInv
<1> QED
  BY <1>1, KernelInvariant, PTL

\* Sources are resolved by the protocol's registry, so the database's, which
\* admits the same, admits them too.
LEMMA AdmittedStep ==
    ASSUME IInv, IInv', SignedEdgesAreAdmitted, [Next]_vars
    PROVE  SignedEdgesAreAdmitted'
<1> DEFINE Ok(x) == \A p \in x.resolved :
                       DatabaseAdmits(p.type, p.source.kind, x.cmd.kind)
<1>0. txn \in [Txns -> Txn] /\ \A t \in Txns : Ok(txn[t])
  BY DEF IInv, TypeOK, SignedEdgesAreAdmitted
<1>1. SUFFICES \A t \in Txns : Ok(txn'[t])
  BY DEF SignedEdgesAreAdmitted
<1>2. ASSUME NEW t \in Txns, ResolveSources(t)
      PROVE  \A u \in Txns : Ok(txn'[u])
  <2>1. /\ txn'[t].phase = "resolved" /\ txn'[t].cmd = txn[t].cmd
        /\ \A u \in Txns : u # t => txn'[u] = txn[u]
    BY <1>0, <1>2 DEF ResolveSources, Txn
  <2>2. txn[t].cmd \in Commands /\ txn[t].cmd.kind \in NodeKind
    <3>1. txn[t].cmd \in Commands
      BY <1>2 DEF IInv, InFlight, ResolveSources
    <3> QED
      BY <3>1, CommandRefs, MotifsAreRegistered DEF Command
  <2>3. ASSUME NEW p \in txn'[t].resolved
        PROVE  DatabaseAdmits(p.type, p.source.kind, txn'[t].cmd.kind)
    <3>1. [type |-> p.type, source |-> p.source] \in IncomingPlans(txn[t].cmd)
      BY <2>1 DEF IInv, InFlight
    <3>2. ProtocolAdmits(p.type, p.source.kind, txn[t].cmd.kind)
      BY <1>2, <3>1 DEF ResolveSources
    <3>3. p.source.kind \in NodeKind
      BY <2>2, <3>1, CommandRefs DEF Plan, Ref
    <3> QED
      BY <2>1, <2>2, <3>2, <3>3, RegistriesAdmitTheSame DEF Agree
  <2> QED
    BY <1>0, <2>1, <2>3
<1>3. ASSUME NEW t \in Txns, AllocateRank(t) \/ Sign(t)
      PROVE  \A u \in Txns : Ok(txn'[u])
  <2>1. /\ txn'[t].resolved = txn[t].resolved /\ txn'[t].cmd = txn[t].cmd
        /\ \A u \in Txns : u # t => txn'[u] = txn[u]
    BY <1>0, <1>3 DEF AllocateRank, Sign, Txn
  <2> QED
    BY <1>0, <2>1
<1>4. ASSUME NEW t \in Txns, Commit(t) \/ Rollback(t) \/ \E c \in Commands : Begin(t, c)
      PROVE  \A u \in Txns : Ok(txn'[u])
  <2>1. txn'[t].resolved = {} /\ \A u \in Txns : u # t => txn'[u] = txn[u]
    BY <1>0, <1>4 DEF Begin, Commit, Rollback, Idle
  <2> QED
    BY <1>0, <2>1
<1>5. CASE txn' = txn
  BY <1>0, <1>5
<1> HIDE DEF Ok
<1> QED
  BY <1>2, <1>3, <1>4, <1>5 DEF Next, vars, Retire, Dismiss

\* No command waits for a signature on an edge that the database refuses.
THEOREM SignedEdgesAdmitted == Spec => []SignedEdgesAreAdmitted
<1>1. Init => SignedEdgesAreAdmitted
  BY DEF Init, Idle, SignedEdgesAreAdmitted
<1> QED
  BY <1>1, AdmittedStep, KernelInvariant, PTL DEF Spec

=============================================================================
