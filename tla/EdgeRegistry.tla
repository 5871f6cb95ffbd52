---------------------------- MODULE EdgeRegistry ----------------------------
(***************************************************************************)
(* The closed registry of research edges.  It exists twice: once in the    *)
(* protocol package, which the domain commands consult before an edge is   *)
(* signed, and once in a database trigger, which is the last word when the *)
(* edge is inserted.  Each copy is translated from its own source, so that *)
(* a drift between them is a difference between two definitions here.      *)
(***************************************************************************)
\* The 23 kinds of research node, grouped as the families of the registry.
NodeKind ==
    {"project", "research_contract", "question"}
      \union {"answer", "claim", "rebuttal", "evaluation"}
      \union {"dataset", "tool", "artifact", "evidence"}
      \union {"task", "attempt", "context_bundle", "run"}
      \union {"verification_contract", "verification_policy",
              "policy_evaluation", "verification_receipt",
              "verification_finding", "challenge", "merge_proposal",
              "frontier_snapshot"}

EvaluationBases == {"claim", "evidence", "run", "dataset", "artifact"}
ReasoningSubjects == {"answer", "claim"}
RunInputs == {"dataset", "tool", "artifact", "context_bundle"}
AnswerInputs == {"question", "answer", "claim", "dataset", "tool", "artifact",
                 "evidence", "run", "context_bundle"}
ClaimToClaim == {<<"claim", "claim">>}

-----------------------------------------------------------------------------
(* The protocol's copy *)

\* A definition without endpoint pairs admits every source with every target.
Between(sources, targets) == sources \X targets

\* A definition with endpoint pairs admits those of them it lists on both sides.
Among(sources, targets, endpointPairs) ==
    (sources \X targets) \intersect endpointPairs

SameKind(kinds) == {<<k, k>> : k \in kinds}

EdgeDefinitions ==
    [extends_question     |-> Between({"question"}, {"question"}),
     answers              |-> Between({"question"}, {"answer"}),
     yields_claim         |-> Between({"answer"}, {"claim"}),
     rebuts               |-> Between(ReasoningSubjects, {"rebuttal"}),
     grounds_rebuttal     |-> Between(EvaluationBases, {"rebuttal"}),
     evaluates            |-> Between({"claim"}, {"evaluation"}),
     evaluation_basis     |-> Between(EvaluationBases, {"evaluation"}),
     challenges           |-> Between({"claim"}, {"challenge"}),
     uses_dataset         |->
        Among({"dataset", "claim"}, {"question", "task", "run", "claim"},
              ({"dataset"} \X {"question", "task", "run", "claim"})
                 \union ClaimToClaim),
     uses_tool            |->
        Among({"tool", "claim"}, {"question", "task", "run", "claim"},
              ({"tool"} \X {"question", "task", "run", "claim"})
                 \union ClaimToClaim),
     uses_artifact        |-> Between({"artifact"}, {"question", "task", "run"}),
     materializes_dataset |-> Between({"artifact"}, {"dataset"}),
     packages_tool        |-> Between({"artifact"}, {"tool"}),
     materializes_evidence |-> Between({"artifact"}, {"evidence"}),
     operationalizes      |-> Between({"question", "answer", "claim"}, {"task"}),
     attempted_as         |-> Between({"task"}, {"attempt"}),
     produces_run         |-> Between({"attempt"}, {"run"}),
     context_for          |-> Between({"context_bundle"}, {"run"}),
     run_input            |-> Between(RunInputs, {"run"}),
     produces_artifact    |-> Between({"run"}, {"artifact"}),
     produces_evidence    |-> Between({"run"}, {"evidence"}),
     verifies_claim       |-> Between({"claim"}, {"verification_receipt"}),
     verifies_run         |-> Between({"run"}, {"verification_receipt"}),
     uses_verification_contract |->
        Between({"verification_contract"}, {"verification_receipt"}),
     reports_finding      |->
        Between({"verification_receipt"}, {"verification_finding"}),
     requires             |->
        Among({"claim", "task", "research_contract"},
              {"claim", "task", "question"},
              ClaimToClaim \union {<<"task", "task">>,
                                   <<"research_contract", "question">>}),
     derived_from         |->
        Among(AnswerInputs, {"answer", "claim"},
              (AnswerInputs \X {"answer"}) \union ClaimToClaim),
     extends              |-> Between({"claim"}, {"claim"}),
     implements           |-> Between({"claim"}, {"claim"}),
     supersedes           |->
        Between(NodeKind, NodeKind) \intersect SameKind(NodeKind)]

EdgeType == DOMAIN EdgeDefinitions

\* What assertResearchEdge accepts: the self-loop test is on references, so it
\* is made by the caller, who has them.
ProtocolAdmits(type, sourceKind, targetKind) ==
    /\ type \in EdgeType
    /\ <<sourceKind, targetKind>> \in EdgeDefinitions[type]

-----------------------------------------------------------------------------
(* The database trigger's copy *)

\* Fault: a trigger that knows the arguments and not the inputs of an Answer.
DatabaseWithoutInputs(type, source, target) ==
    \/ <<type, source, target>> \in {<<"answers", "question", "answer">>,
                                     <<"rebuts", "answer", "rebuttal">>,
                                     <<"grounds_rebuttal", "claim", "rebuttal">>,
                                     <<"evaluates", "claim", "evaluation">>,
                                     <<"evaluation_basis", "claim", "evaluation">>}
    \/ type = "supersedes" /\ source = target

\* endpoint_allowed := CASE NEW.edge_type ... ELSE false END
DatabaseAdmits(type, source, target) ==
    \/ type = "extends_question" /\ source = "question" /\ target = "question"
    \/ type = "answers" /\ source = "question" /\ target = "answer"
    \/ type = "yields_claim" /\ source = "answer" /\ target = "claim"
    \/ type = "rebuts" /\ source \in {"answer", "claim"} /\ target = "rebuttal"
    \/ /\ type = "grounds_rebuttal" /\ target = "rebuttal"
       /\ source \in {"claim", "evidence", "run", "dataset", "artifact"}
    \/ type = "evaluates" /\ source = "claim" /\ target = "evaluation"
    \/ /\ type = "evaluation_basis" /\ target = "evaluation"
       /\ source \in {"claim", "evidence", "run", "dataset", "artifact"}
    \/ type = "challenges" /\ source = "claim" /\ target = "challenge"
    \/ /\ type \in {"uses_dataset", "uses_tool"}
       /\ \/ /\ \/ type = "uses_dataset" /\ source = "dataset"
                \/ type = "uses_tool" /\ source = "tool"
             /\ target \in {"question", "task", "run", "claim"}
          \/ source = "claim" /\ target = "claim"
    \/ /\ type = "uses_artifact" /\ source = "artifact"
       /\ target \in {"question", "task", "run"}
    \/ /\ source = "artifact"
       /\ \/ type = "materializes_dataset" /\ target = "dataset"
          \/ type = "packages_tool" /\ target = "tool"
          \/ type = "materializes_evidence" /\ target = "evidence"
    \/ /\ type = "operationalizes" /\ target = "task"
       /\ source \in {"question", "answer", "claim"}
    \/ type = "attempted_as" /\ source = "task" /\ target = "attempt"
    \/ type = "produces_run" /\ source = "attempt" /\ target = "run"
    \/ type = "context_for" /\ source = "context_bundle" /\ target = "run"
    \/ /\ type = "run_input" /\ target = "run"
       /\ source \in {"dataset", "tool", "artifact", "context_bundle"}
    \/ type = "produces_artifact" /\ source = "run" /\ target = "artifact"
    \/ type = "produces_evidence" /\ source = "run" /\ target = "evidence"
    \/ /\ type = "verifies_claim" /\ source = "claim"
       /\ target = "verification_receipt"
    \/ /\ type = "verifies_run" /\ source = "run"
       /\ target = "verification_receipt"
    \/ /\ type = "uses_verification_contract"
       /\ source = "verification_contract" /\ target = "verification_receipt"
    \/ /\ type = "reports_finding" /\ source = "verification_receipt"
       /\ target = "verification_finding"
    \/ type = "supersedes" /\ source = target
    \/ /\ type = "requires"
       /\ \/ source \in {"claim", "task"} /\ source = target
          \/ source = "research_contract" /\ target = "question"
    \/ /\ type = "derived_from"
       /\ \/ /\ source \in {"question", "answer", "claim", "dataset", "tool",
                            "artifact", "evidence", "run", "context_bundle"}
             /\ target = "answer"
          \/ source = "claim" /\ target = "claim"
    \/ type \in {"extends", "implements"} /\ source = "claim" /\ target = "claim"

-----------------------------------------------------------------------------
\* An edge that a person was asked to sign, because the protocol registry
\* admits it, is never refused by the database, and the database stores no
\* edge the protocol would not have signed; a type that neither knows is
\* admitted by neither (assertResearchEdge, enforce_research_edge_registry).
RegistriesAgree ==
    \A type \in EdgeType \union {"an unknown type"}, source, target \in NodeKind :
        ProtocolAdmits(type, source, target) <=> DatabaseAdmits(type, source, target)

=============================================================================
