------------------------------ MODULE Lifecycle ------------------------------
(***************************************************************************)
(* The life of Projects, Claims, Tasks and Challenges, which are chains of *)
(* immutable revisions written under If-Match, and of Questions and        *)
(* Attempts, whose row alone carries their state.  A request reads the     *)
(* current revision for its ETag, opens a transaction, reads again, waits  *)
(* for its event and stores; other requests store in between.              *)
(*                                                                         *)
(* A revision never changes, so that its number stands for its ETag.       *)
(***************************************************************************)
EXTENDS Naturals, Sequences, FiniteSets, SequencesExt

CONSTANTS
    Projects, Claims, Tasks, Challenges, Questions, Attempts,
    Requests,
    NoObject,
    MaxRevisions, \* bound: revisions of all objects
    MaxObjects,   \* bound: objects that are created
    MaxTraces     \* bound: trace events of an Attempt

Revisioned == Projects \cup Claims \cup Tasks \cup Challenges
Rows == Questions \cup Attempts
Objects == Revisioned \cup Rows

ASSUME BoundsAreNatural ==
    MaxRevisions \in Nat /\ MaxObjects \in Nat /\ MaxTraces \in Nat
ASSUME NoObjectIsNone == NoObject \notin Objects
ASSUME KindsAreDisjoint ==
    /\ Projects \cap (Claims \cup Tasks \cup Challenges \cup Rows) = {}
    /\ Claims \cap (Tasks \cup Challenges \cup Rows) = {}
    /\ Tasks \cap (Challenges \cup Rows) = {}
    /\ Challenges \cap Rows = {}
    /\ Questions \cap Attempts = {}

-----------------------------------------------------------------------------
QuestionTransitions ==
    {<<"draft", "proposed">>, <<"proposed", "under_review">>,
     <<"under_review", "admissible">>, <<"under_review", "rejected">>,
     <<"admissible", "active">>, <<"admissible", "rejected">>,
     <<"active", "resolved">>, <<"active", "archived">>,
     <<"resolved", "archived">>}

ClaimOutcomes ==
    {"contested", "refuted", "superseded", "retracted", "dependency_tainted"}

ClaimTransitions ==
    {<<"hypothesis", "candidate">>, <<"candidate", "under_verification">>,
     <<"under_verification", "provisionally_accepted">>,
     <<"provisionally_accepted", "accepted">>}
    \cup {"hypothesis", "candidate", "under_verification",
          "provisionally_accepted", "accepted"} \X ClaimOutcomes

TaskTransitions ==
    {<<"draft", "open">>, <<"open", "active">>, <<"active", "blocked">>,
     <<"active", "verification_requested">>, <<"active", "completed">>,
     <<"blocked", "active">>, <<"verification_requested", "active">>,
     <<"verification_requested", "completed">>}
    \cup {"draft", "open", "active", "blocked", "verification_requested"}
         \X {"cancelled"}

ChallengeTransitions ==
    {<<"open", "admissible">>, <<"admissible", "investigating">>}
    \cup {"investigating"} \X {"upheld", "rejected", "resolved"}

AttemptTransitions ==
    {<<"active", "paused">>, <<"paused", "active">>}
    \cup {"active", "paused"} \X {"submitted", "abandoned"}

\* No command changes the state of a Project.
Transitions(o) ==
    CASE o \in Claims -> ClaimTransitions
      [] o \in Tasks -> TaskTransitions
      [] o \in Challenges -> ChallengeTransitions
      [] o \in Questions -> QuestionTransitions
      [] o \in Attempts -> AttemptTransitions
      [] OTHER -> {}

FirstState(o) ==
    CASE o \in Claims -> "hypothesis"
      [] o \in Challenges -> "open"
      [] o \in Attempts -> "active"
      [] OTHER -> "draft"

States(o) == {FirstState(o)} \cup {step[2] : step \in Transitions(o)}
State == UNION {States(o) : o \in Objects}

-----------------------------------------------------------------------------
VARIABLES
    revisions, \* the revisions of an object, oldest first
    row,       \* the state in the object's own row, "none" if there is no row;
               \* the row of a Challenge has no state and keeps its first
    traces,    \* how many trace events an Attempt has
    request    \* what each request has read, and what it is about to store

vars == <<revisions, row, traces, request>>

\* seen: the revision that the author named in If-Match
Revision == [state : State, seen : Nat]

Request ==
    [stage : {"idle", "arrived", "revising", "moving", "tracing"},
     object : Objects \cup {NoObject},
     ifMatch : Nat,   \* the revision the client has seen
     etag : Nat,      \* the current one when the request arrived, until
                      \* it has been compared
     revision : Nat,  \* the number the next revision will have
     state : State \cup {"none"},
     missed : BOOLEAN] \* kept for the properties: whether the row that the
                       \* request has read was written since

TypeOK ==
    /\ revisions \in [Revisioned -> Seq(Revision)]
    /\ row \in [Objects -> State \cup {"none"}]
    /\ \A o \in Objects : row[o] \in States(o) \cup {"none"}
    /\ traces \in [Attempts -> Nat]
    /\ request \in [Requests -> Request]

Idle == [stage |-> "idle", object |-> NoObject, ifMatch |-> 0, etag |-> 0,
         revision |-> 0, state |-> "none", missed |-> FALSE]

Init ==
    /\ revisions = [o \in Revisioned |-> <<>>]
    /\ row = [o \in Objects |-> "none"]
    /\ traces = [a \in Attempts |-> 0]
    /\ request = [r \in Requests |-> Idle]

Exists(o) == row[o] # "none"
Current(o) == Len(revisions[o])

-----------------------------------------------------------------------------
(* Creations: the event is made first, and one transaction stores it all. *)

InsertRow(o) ==
    /\ ~Exists(o)
    /\ Cardinality({p \in Objects : Exists(p)}) < MaxObjects
    /\ row' = [row EXCEPT ![o] = FirstState(o)]
    /\ UNCHANGED <<traces, request>>

InsertFirst(o) ==
    /\ InsertRow(o)
    /\ revisions' = [revisions EXCEPT
                       ![o] = <<[state |-> FirstState(o), seen |-> 0]>>]

CreateProject(o) == InsertFirst(o)
CreateClaim(o) == InsertFirst(o)
CreateTask(o) == InsertFirst(o)

\* A Challenge is locked to a stored revision of a Claim.
CreateChallenge(o) ==
    /\ \E c \in Claims : Current(c) > 0
    /\ InsertFirst(o)

\* A Question also gets a first revision, which no command ever follows up.
CreateQuestion(o) ==
    /\ \E p \in Projects : Exists(p)
    /\ InsertRow(o)
    /\ UNCHANGED revisions

CreateAttempt(o) ==
    /\ \E k \in Tasks : Exists(k)
    /\ InsertRow(o)
    /\ UNCHANGED revisions

-----------------------------------------------------------------------------
(* Revisions under If-Match.                                              *)

\* A request arrives with the ETag of some revision; the caller of the
\* command reads the current one.
Arrive(r, o) ==
    /\ request[r] = Idle
    /\ \E seen \in 1..Current(o) :
          request' = [request EXCEPT ![r] =
                        [stage |-> "arrived", object |-> o, ifMatch |-> seen,
                         etag |-> Current(o), revision |-> 0, state |-> "none",
                         missed |-> FALSE]]
    /\ UNCHANGED <<revisions, row, traces>>

Asks(r, o) == request[r].stage = "arrived" /\ request[r].object = o

\* currentEtag: the revision that the caller read before.
Prechecked(r, o) == Asks(r, o) /\ request[r].ifMatch = request[r].etag

\* Fault: all commands compare with what was read before.
RecheckedEarly(r, o) == Prechecked(r, o)

\* etagForRevision(current): the revision that the transaction reads.
Rechecked(r, o) == Asks(r, o) /\ request[r].ifMatch = Current(o)

\* The transaction has read the current revision and decided on the next.
ReadCurrent(r, o, state) ==
    /\ MapThenSumSet(Current, Revisioned) < MaxRevisions
    /\ request' = [request EXCEPT ![r] =
                     [stage |-> "revising", object |-> o,
                      ifMatch |-> request[r].ifMatch, etag |-> 0,
                      revision |-> Current(o) + 1, state |-> state, missed |-> FALSE]]
    /\ UNCHANGED <<revisions, row, traces>>

CurrentState(o) == Last(revisions[o]).state

\* Fault: that the table knows the state is all that is checked.
OtherStates(o, state) == States(o) \ {state}

Successors(o, state) == {s \in States(o) : <<state, s>> \in Transitions(o)}

ReviseProject(r, o) ==
    /\ Rechecked(r, o)
    /\ ReadCurrent(r, o, CurrentState(o))

ReviseClaim(r, o) ==
    /\ Rechecked(r, o)
    /\ ReadCurrent(r, o, CurrentState(o))

TransitionClaim(r, o) ==
    /\ Rechecked(r, o)
    /\ \E s \in Successors(o, CurrentState(o)) : ReadCurrent(r, o, s)

ReviseTask(r, o) ==
    /\ Prechecked(r, o)
    /\ ReadCurrent(r, o, CurrentState(o))

TransitionTask(r, o) ==
    /\ Prechecked(r, o)
    /\ \E s \in Successors(o, CurrentState(o)) : ReadCurrent(r, o, s)

TransitionChallenge(r, o) ==
    /\ Rechecked(r, o)
    /\ \E s \in Successors(o, CurrentState(o)) : ReadCurrent(r, o, s)

AppendRevision(r) ==
    revisions' = [revisions EXCEPT
                    ![request[r].object] = Append(@, [state |-> request[r].state,
                                                      seen |-> request[r].ifMatch])]

\* Fault: the number is chosen by the insert.
StoreAtEnd(r) ==
    /\ request[r].stage = "revising"
    /\ AppendRevision(r)
    /\ row' = IF request[r].object \in Challenges THEN row
              ELSE [row EXCEPT ![request[r].object] = request[r].state]
    /\ request' = [request EXCEPT ![r] = Idle]
    /\ UNCHANGED traces

\* The event is there: the revision is stored unless its number is taken, and
\* with it the object's row, which for a Challenge has no state.
StoreRevision(r) ==
    /\ request[r].stage = "revising"
    /\ request[r].revision = Current(request[r].object) + 1
    /\ AppendRevision(r)
    /\ row' = IF request[r].object \in Challenges THEN row
              ELSE [row EXCEPT ![request[r].object] = request[r].state]
    /\ request' = [request EXCEPT ![r] = Idle]
    /\ UNCHANGED traces

-----------------------------------------------------------------------------
(* Rows that are overwritten.                                             *)

\* The transaction reads the row, without a lock.
ReadRow(r, o, stage, state) ==
    /\ request[r] = Idle
    /\ Exists(o)
    /\ request' = [request EXCEPT ![r] =
                     [stage |-> stage, object |-> o, ifMatch |-> 0, etag |-> 0,
                      revision |-> 0, state |-> state, missed |-> FALSE]]
    /\ UNCHANGED <<revisions, row, traces>>

TransitionQuestion(r, o) ==
    \E s \in Successors(o, row[o]) : ReadRow(r, o, "moving", s)

TransitionAttempt(r, o) ==
    \E s \in Successors(o, row[o]) : ReadRow(r, o, "moving", s)

\* Fault: whether the Attempt is submitted is not asked.
CreateTraceAnyhow(r, o) ==
    /\ traces[o] < MaxTraces
    /\ ReadRow(r, o, "tracing", "none")

CreateTraceEvent(r, o) ==
    /\ row[o] # "submitted"
    /\ traces[o] < MaxTraces
    /\ ReadRow(r, o, "tracing", "none")

\* The update names the row by its id alone, whatever was stored there since.
StoreRow(r) ==
    /\ request[r].stage = "moving"
    /\ row' = [row EXCEPT ![request[r].object] = request[r].state]
    /\ request' = [u \in Requests |->
                     IF u = r THEN Idle
                     ELSE IF request[u].object = request[r].object
                     THEN [request[u] EXCEPT !.missed = TRUE]
                     ELSE request[u]]
    /\ UNCHANGED <<revisions, traces>>

StoreTrace(r) ==
    /\ request[r].stage = "tracing"
    /\ traces[request[r].object] < MaxTraces
    /\ traces' = [traces EXCEPT ![request[r].object] = @ + 1]
    /\ request' = [request EXCEPT ![r] = Idle]
    /\ UNCHANGED <<revisions, row>>

-----------------------------------------------------------------------------
\* A precondition, the signer or an insert fails; nothing is stored.
Fail(r) ==
    /\ request[r] # Idle
    /\ request' = [request EXCEPT ![r] = Idle]
    /\ UNCHANGED <<revisions, row, traces>>

Create ==
    \/ \E o \in Projects : CreateProject(o)
    \/ \E o \in Claims : CreateClaim(o)
    \/ \E o \in Tasks : CreateTask(o)
    \/ \E o \in Challenges : CreateChallenge(o)
    \/ \E o \in Questions : CreateQuestion(o)
    \/ \E o \in Attempts : CreateAttempt(o)

Step(r) ==
    \/ \E o \in Revisioned : Arrive(r, o)
    \/ \E o \in Projects : ReviseProject(r, o)
    \/ \E o \in Claims : ReviseClaim(r, o) \/ TransitionClaim(r, o)
    \/ \E o \in Tasks : ReviseTask(r, o) \/ TransitionTask(r, o)
    \/ \E o \in Challenges : TransitionChallenge(r, o)
    \/ \E o \in Questions : TransitionQuestion(r, o)
    \/ \E o \in Attempts : TransitionAttempt(r, o) \/ CreateTraceEvent(r, o)
    \/ StoreRevision(r)
    \/ StoreRow(r)
    \/ StoreTrace(r)
    \/ Fail(r)

Next == Create \/ \E r \in Requests : Step(r)

Spec == Init /\ [][Next]_vars

-----------------------------------------------------------------------------
\* Whatever transactions overlap, a stored history starts in the first state
\* and each revision keeps the state of the one before it or moves it as the
\* protocol's table allows: two commands that decided on the same revision
\* never both follow it.
HistoriesAreLegal ==
    \A o \in Revisioned : \A i \in 1..Current(o) :
        LET state == revisions[o][i].state IN
        IF i = 1 THEN state = FirstState(o)
        ELSE \/ state = revisions[o][i - 1].state
             \/ <<revisions[o][i - 1].state, state>> \in Transitions(o)

\* The row that lists and checks read shows the state of the last revision.
RowsFollowRevisions ==
    \A o \in Projects \cup Claims \cup Tasks :
        Exists(o) => Current(o) > 0 /\ row[o] = CurrentState(o)

\* A revision after the first follows the one that its author had seen: nobody's
\* edit is overwritten by somebody who had not read it.
SeenBeforeRevised(o) ==
    \A i \in 2..Current(o) : revisions[o][i].seen = i - 1

EditsAreSeen ==
    \A o \in Projects \cup Claims \cup Challenges : SeenBeforeRevised(o)

\* Of the row of its object, a request has missed what another stored.
Missed(o) == \E r \in Requests : request[r].object = o /\ request[r].missed /\ request'[r] = Idle

\* A Question or an Attempt moves only as its table allows, so that it never
\* leaves a final state, unless by a request that read its row before another
\* wrote it: no lock and no revision keeps these apart.
RowsMoveLegally ==
    [][\A o \in Rows :
          Exists(o) /\ row'[o] # row[o] =>
              <<row[o], row'[o]>> \in Transitions(o) \/ Missed(o)]_vars

\* No trace event is stored for an Attempt that is submitted by then, unless it
\* was submitted while the event was signed.
NoTraceAfterSubmission ==
    [][\A a \in Attempts :
          traces'[a] # traces[a] => row[a] # "submitted" \/ Missed(a)]_vars
=============================================================================
