-------------------------- MODULE MCResearchKernel --------------------------
(***************************************************************************)
(* Two commands in flight, two signers, a question and a claim to start    *)
(* from.  The commands compete for the id a1 (as an Answer, twice, and as  *)
(* a Tool) and for its second revision (two authors), and they cite each   *)
(* other's revisions, so that a cycle, a fork or a dangling source would   *)
(* be one step away.                                                       *)
(***************************************************************************)
EXTENDS ResearchKernel, TLC

CONSTANTS alice, bob, q1, c1, a1, e1

At(kind, id, revision) == [kind |-> kind, id |-> id, revision |-> revision]

MCSeedRank == (At("question", q1, 1) :> 1) @@ (At("claim", c1, 1) :> 2)

Request(actor, kind, id, revision, subjects, bases) ==
    [actor |-> actor, kind |-> kind, id |-> id, revision |-> revision,
     subjects |-> subjects, bases |-> bases]

Question == {At("question", q1, 1)}
Claim == {At("claim", c1, 1)}

MCCommands ==
    {Request(alice, "answer", a1, 1, Question, {}),
     Request(bob, "answer", a1, 1, Question, {At("answer", e1, 1)}),
     Request(bob, "tool", a1, 1, {}, {}),
     Request(alice, "answer", a1, 2, Question, {At("answer", a1, 1)}),
     Request(bob, "answer", a1, 2, Question, {At("rebuttal", e1, 1)}),
     Request(alice, "answer", e1, 1, Question, {At("answer", a1, 1)}),
     Request(alice, "rebuttal", e1, 1, {At("answer", a1, 1)}, Claim),
     Request(bob, "evaluation", e1, 1, Claim, Claim)}

\* Two invocations with the same command are the same invocation.
Symmetry == Permutations(Txns)

=============================================================================
