------------------------------- MODULE Impact -------------------------------
(***************************************************************************)
(* What an upheld Challenge does to the Claims that depend on its target,  *)
(* while commands go on creating and ending relations (DependencyGraph).   *)
(* Three jobs follow one another: the walk over the dependencies, one read *)
(* per Claim; the taint, one read and one write per Claim; and the Tasks   *)
(* that ask for a new verification, one list and one creation per Claim.   *)
(* A job that throws or dies is started again from the walk.               *)
(***************************************************************************)
EXTENDS DependencyGraph

CONSTANTS
    Target,   \* the Claim that is challenged
    NoClaim,
    Jobs,
    Closing,  \* bound: the Claims that may be closed meanwhile
    MaxTasks  \* bound: re-verification Tasks per Claim

ASSUME TargetIsAClaim == Target \in Nodes /\ NoClaim \notin Nodes /\ Closing \subseteq Nodes
ASSUME TasksAreBounded == MaxTasks \in Nat

VARIABLES
    ruling, \* the state of the Challenge's current revision
    state,  \* the state of each Claim
    task,   \* the number of re-verification Tasks of each Claim for this target
    job     \* the progress of each job, in [Jobs -> Job]

impactVars == <<ruling, state, task, job>>

JobPhase == {"idle", "walking", "tainting", "marking", "tasking", "creating", "done"}

\* found: the identifiers collected; todo: the Claims this phase has yet to
\* read; claim: the one in hand; standing: a history variable of the walk, the
\* dependencies that were there when it began and have not been ended since.
Job == [phase : JobPhase, found : SUBSET Nodes, todo : SUBSET Nodes,
        claim : Nodes \union {NoClaim}, standing : SUBSET Relations]

NoJob == [phase |-> "idle", found |-> {}, todo |-> {}, claim |-> NoClaim, standing |-> {}]

ImpactInit ==
    /\ Init
    /\ ruling = "open"
    /\ state = [c \in Nodes |-> "standing"]
    /\ task = [c \in Nodes |-> 0]
    /\ job = [j \in Jobs |-> NoJob]

-----------------------------------------------------------------------------
(* The Challenge and the Claims *)

\* The Challenge leaves its open states; the target is the Challenge's own
\* affair and keeps the state the jobs never touch.
Rule ==
    /\ ruling = "open"
    /\ ruling' \in {"upheld", "rejected"}
    /\ UNCHANGED <<vars, state, task, job>>

\* A Claim is retracted, refuted or superseded by a command of its own.
Close(c) ==
    /\ state[c] = "standing"
    /\ state' = [state EXCEPT ![c] = "closed"]
    /\ UNCHANGED <<vars, ruling, task, job>>

-----------------------------------------------------------------------------
(* calculateChallengeImpactJob *)

\* An outcome other than upheld has no impact: nothing is left to do.
Start(j) ==
    /\ job[j].phase \in {"idle", "done"}
    /\ ruling # "open"
    /\ job' = [job EXCEPT ![j] =
          IF ruling = "upheld"
          THEN [phase |-> "walking", found |-> {Target}, todo |-> {Target},
                claim |-> NoClaim, standing |-> DependsOn(Active)]
          ELSE [NoJob EXCEPT !.phase = "done"]]
    /\ UNCHANGED <<vars, ruling, state, task>>

DirectDependents(c) == {r.source : r \in {d \in DependsOn(Active) : d.target = c}}

\* Fault: the Claims found are not searched in turn.
WalkOneLevel(j) ==
    /\ job[j].phase = "walking"
    /\ \E c \in job[j].todo :
          LET new == DirectDependents(c) \ job[j].found
          IN  job' = [job EXCEPT ![j].todo = @ \ {c}, ![j].found = @ \union new]
    /\ UNCHANGED <<vars, ruling, state, task>>

Walk(j) ==
    /\ job[j].phase = "walking"
    /\ \E c \in job[j].todo :
          LET new == DirectDependents(c) \ job[j].found
          IN  job' = [job EXCEPT ![j].todo = (@ \ {c}) \union new,
                                 ![j].found = @ \union new]
    /\ UNCHANGED <<vars, ruling, state, task>>

-----------------------------------------------------------------------------
(* taintDependentClaimsJob and createReverificationTasksJob *)

\* The Claims a phase has to visit: all that are impacted but the target.
Impacted(j) == job[j].found \ {Target}

\* What follows a phase that has visited them all.
Following == [walking |-> "tainting", tainting |-> "tasking", tasking |-> "done"]

EndPhase(j) ==
    /\ job[j].phase \in DOMAIN Following
    /\ job[j].todo = {}
    /\ LET next == Following[job[j].phase]
       IN  job' = [job EXCEPT ![j].phase = next, ![j].standing = {},
                              ![j].todo = IF next = "done" THEN {} ELSE Impacted(j)]
    /\ UNCHANGED <<vars, ruling, state, task>>

\* A Claim that needs no work is passed over, another is taken in hand.
Visit(j, c, needed, phase) ==
    job' = [job EXCEPT ![j].todo = @ \ {c},
                       ![j].phase = IF needed THEN phase ELSE @,
                       ![j].claim = IF needed THEN c ELSE NoClaim]

Done(j, phase) == [job EXCEPT ![j].phase = phase, ![j].claim = NoClaim]

ReadClaim(j) ==
    /\ job[j].phase = "tainting"
    /\ \E c \in job[j].todo : Visit(j, c, state[c] # "dependency_tainted", "marking")
    /\ UNCHANGED <<vars, ruling, state, task>>

\* Whatever state the Claim has reached since it was read.
MarkTainted(j) ==
    /\ job[j].phase = "marking"
    /\ state' = [state EXCEPT ![job[j].claim] = "dependency_tainted"]
    /\ job' = Done(j, "tainting")
    /\ UNCHANGED <<vars, ruling, task>>

\* Fault: the Tasks that exist are not looked for.
ListNoTasks(j) ==
    /\ job[j].phase = "tasking"
    /\ \E c \in job[j].todo : Visit(j, c, TRUE, "creating")
    /\ UNCHANGED <<vars, ruling, state, task>>

ListTasks(j) ==
    /\ job[j].phase = "tasking"
    /\ \E c \in job[j].todo : Visit(j, c, task[c] = 0, "creating")
    /\ UNCHANGED <<vars, ruling, state, task>>

CreateTask(j) ==
    /\ job[j].phase = "creating"
    /\ task[job[j].claim] < MaxTasks
    /\ task' = [task EXCEPT ![job[j].claim] = @ + 1]
    /\ job' = Done(j, "tasking")
    /\ UNCHANGED <<vars, ruling, state>>

\* A call throws, with or without its effect, or the worker dies.
Fail(j) ==
    /\ job[j].phase \notin {"idle", "done"}
    /\ job' = [job EXCEPT ![j] = NoJob]
    /\ UNCHANGED <<vars, ruling, state, task>>

JobStep(j) ==
    \/ Start(j) \/ Walk(j) \/ EndPhase(j) \/ ReadClaim(j) \/ MarkTainted(j)
    \/ ListTasks(j) \/ CreateTask(j) \/ Fail(j)

\* A command of DependencyGraph; what it ends no longer stands.
Command ==
    /\ Next
    /\ job' = [j \in Jobs |-> [job[j] EXCEPT !.standing = @ \intersect Active']]
    /\ UNCHANGED <<ruling, state, task>>

ImpactNext ==
    \/ Rule
    \/ \E c \in Closing : Close(c)
    \/ \E j \in Jobs : JobStep(j)
    \/ Command

ImpactSpec == ImpactInit /\ [][ImpactNext]_<<vars, impactVars>>

-----------------------------------------------------------------------------
\* A walk that has ended has found every Claim that depends on the target by
\* relations which stood from its beginning to its end, however many others
\* were created, ended or replaced between its reads ("the complete, stable
\* downstream Claim set affected by an upheld Challenge").
WalksAreComplete ==
    \A j \in Jobs :
        job[j].phase = "walking" /\ job[j].todo = {} =>
            \A c \in Nodes : HasPath(job[j].standing, c, Target) => c \in job[j].found

\* When the jobs are through, every Claim they found is tainted and has one
\* re-verification Task, after however many failures and repetitions ("exactly
\* one re-verification Task for each tainted downstream Claim").
ImpactedHaveOneTask ==
    \A j \in Jobs :
        job[j].phase = "done" =>
            \A c \in Impacted(j) : state[c] = "dependency_tainted" /\ task[c] = 1

=============================================================================
