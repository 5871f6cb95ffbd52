--------------------------- MODULE LifecycleProofs ---------------------------
(***************************************************************************)
(* Proofs about the life of revisioned objects and of rows, for any        *)
(* numbers of objects, requests and revisions.                             *)
(***************************************************************************)
EXTENDS Lifecycle, TLAPS

-----------------------------------------------------------------------------
(* The inductive invariant.                                               *)

Follows(o, before, after) ==
    after = before \/ <<before, after>> \in Transitions(o)

Guarded == Projects \cup Claims \cup Challenges

\* What a request that waits for its event has decided stays true whatever
\* other requests store, because revisions are only appended.
RequestOK(q) ==
    /\ q.stage = "arrived" =>
         q.object \in Revisioned /\ q.ifMatch \in 1..Current(q.object)
    /\ q.stage = "revising" =>
         /\ q.object \in Revisioned
         /\ q.revision \in 2..(Current(q.object) + 1)
         /\ q.state \in States(q.object)
         /\ Follows(q.object, revisions[q.object][q.revision - 1].state, q.state)
         /\ q.object \in Guarded => q.ifMatch = q.revision - 1
    /\ q.stage = "moving" => q.object \in Rows /\ q.state \in States(q.object)
    /\ q.stage = "tracing" => q.object \in Attempts

RequestsHold == \A r \in Requests : RequestOK(request[r])

StatesAreOwn ==
    \A o \in Revisioned : \A i \in 1..Current(o) : revisions[o][i].state \in States(o)

RowsExist == \A o \in Revisioned : Exists(o) <=> Current(o) > 0

IInv ==
    /\ TypeOK
    /\ RequestsHold
    /\ StatesAreOwn
    /\ RowsExist
    /\ RowsFollowRevisions
    /\ HistoriesAreLegal
    /\ EditsAreSeen

-----------------------------------------------------------------------------
(* The tables.                                                            *)

LEMMA FirstStateIsAState ==
    \A o : FirstState(o) \in States(o)
BY DEF States

\* A successor is a state, and follows.
LEMMA SuccessorsAreStates ==
    ASSUME NEW o, NEW state, NEW s \in Successors(o, state)
    PROVE  s \in States(o) /\ Follows(o, state, s)
BY DEF Successors, Follows

\* The mark of a row that does not exist is no state.
LEMMA NoneIsNoState ==
    \A o : "none" \notin States(o)
<1>1. \A step \in QuestionTransitions : step[2] # "none"
  BY DEF QuestionTransitions
<1>2. \A step \in ClaimTransitions : step[2] # "none"
  BY DEF ClaimTransitions, ClaimOutcomes
<1>3. \A step \in TaskTransitions : step[2] # "none"
  BY DEF TaskTransitions
<1>4. \A step \in ChallengeTransitions : step[2] # "none"
  BY DEF ChallengeTransitions
<1>5. \A step \in AttemptTransitions : step[2] # "none"
  BY DEF AttemptTransitions
<1>6. ASSUME NEW o PROVE \A step \in Transitions(o) : step[2] # "none"
  BY <1>1, <1>2, <1>3, <1>4, <1>5, Zenon DEF Transitions
<1>7. ASSUME NEW o PROVE FirstState(o) # "none"
  BY Zenon DEF FirstState
<1> QED
  BY <1>6, <1>7 DEF States

\* The states of an object are among all objects' states.
LEMMA StatesAreState ==
    ASSUME NEW o \in Objects PROVE States(o) \subseteq State
BY DEF State

-----------------------------------------------------------------------------
(* Steps that change one request only.                                    *)

LEMMA RequestStep ==
    ASSUME IInv, NEW r \in Requests, NEW q \in Request, RequestOK(q),
           request' = [request EXCEPT ![r] = q],
           UNCHANGED <<revisions, row, traces>>
    PROVE  IInv'
<1>1. TypeOK'
  BY DEF IInv, TypeOK
<1>2. RequestsHold'
  <2> SUFFICES ASSUME NEW u \in Requests PROVE RequestOK(request[u])'
    BY DEF RequestsHold
  <2>1. request'[u] = IF u = r THEN q ELSE request[u]
    BY DEF IInv, TypeOK
  <2>2. RequestOK(request[u]) /\ (u = r => RequestOK(request'[u]))
    BY <2>1 DEF IInv, RequestsHold
  <2> QED
    BY <2>1, <2>2 DEF RequestOK, Current
<1>3. (StatesAreOwn /\ RowsExist /\ RowsFollowRevisions /\ HistoriesAreLegal /\ EditsAreSeen)'
  BY DEF IInv, StatesAreOwn, RowsExist, RowsFollowRevisions, HistoriesAreLegal,
         EditsAreSeen, SeenBeforeRevised, Exists, Current, CurrentState
<1> QED
  BY <1>1, <1>2, <1>3 DEF IInv

\* A request that is answered holds nothing any more.
LEMMA IdleStep ==
    ASSUME IInv, NEW r \in Requests, request' = [request EXCEPT ![r] = Idle],
           UNCHANGED <<revisions, row, traces>>
    PROVE  IInv'
<1>1. Idle \in Request /\ RequestOK(Idle)
  BY DEF Idle, Request, RequestOK
<1> QED
  BY <1>1, RequestStep

\* A request arrives with an If-Match of a revision that is stored.
LEMMA ArriveStep ==
    ASSUME IInv, NEW r \in Requests, NEW o \in Revisioned, Arrive(r, o)
    PROVE  IInv'
<1>1. PICK seen \in 1..Current(o) :
        request' = [request EXCEPT ![r] =
                      [stage |-> "arrived", object |-> o, ifMatch |-> seen,
                       etag |-> Current(o), revision |-> 0, state |-> "none",
                       missed |-> FALSE]]
  BY DEF Arrive
<1> DEFINE q == [stage |-> "arrived", object |-> o, ifMatch |-> seen,
                 etag |-> Current(o), revision |-> 0, state |-> "none", missed |-> FALSE]
<1>2. Current(o) \in Nat
  BY DEF IInv, TypeOK, Current
<1>3. q \in Request
  BY <1>2 DEF IInv, TypeOK, Request, Objects
<1>4. q.stage = "arrived" /\ q.object = o /\ q.ifMatch = seen
  OBVIOUS
<1>5. RequestOK(q)
  BY <1>4 DEF RequestOK
<1>6. request' = [request EXCEPT ![r] = q]
  BY <1>1
<1> QED
  BY <1>3, <1>5, <1>6, RequestStep DEF Arrive

\* All commands that revise: they follow the current revision, and those that
\* recheck have seen it.
LEMMA ReadStep ==
    ASSUME IInv, NEW r \in Requests, NEW o \in Revisioned, NEW state \in States(o),
           Asks(r, o), ReadCurrent(r, o, state),
           Follows(o, CurrentState(o), state),
           o \in Guarded => request[r].ifMatch = Current(o)
    PROVE  IInv'
<1> DEFINE q == [stage |-> "revising", object |-> o, ifMatch |-> request[r].ifMatch,
                 etag |-> 0, revision |-> Current(o) + 1, state |-> state, missed |-> FALSE]
<1>1. Current(o) \in Nat /\ Current(o) >= 1
  <2>1. RequestOK(request[r])
    BY DEF IInv, RequestsHold
  <2> QED
    BY <2>1 DEF RequestOK, Asks, IInv, TypeOK, Current
<1>2. state \in State
  BY StatesAreState DEF Objects
<1>3. q \in Request
  <2>1. request[r].ifMatch \in Nat
    BY DEF IInv, TypeOK, Request
  <2> QED
    BY <1>1, <1>2, <2>1 DEF Request, Objects
<1>4. /\ q.stage = "revising" /\ q.object = o /\ q.revision = Current(o) + 1
      /\ q.state = state /\ q.ifMatch = request[r].ifMatch
  BY DEF IInv, TypeOK, Request, Asks
<1>5. q.revision - 1 = Current(o)
  BY <1>1, <1>4
<1>6. CurrentState(o) = revisions[o][Current(o)].state
  BY DEF CurrentState, Current, Last
<1>7. RequestOK(q)
  BY <1>1, <1>4, <1>5, <1>6 DEF RequestOK
<1>8. request' = [request EXCEPT ![r] = q]
  BY DEF ReadCurrent
<1> QED
  BY <1>3, <1>7, <1>8, RequestStep DEF ReadCurrent

\* What a request takes from a row is a state of that row.
LEMMA ReadRowStep ==
    ASSUME IInv, NEW r \in Requests, NEW o \in Rows, NEW stage \in {"moving", "tracing"},
           NEW state \in States(o) \cup {"none"}, ReadRow(r, o, stage, state),
           stage = "moving" => state \in States(o),
           stage = "tracing" => o \in Attempts
    PROVE  IInv'
<1> DEFINE q == [stage |-> stage, object |-> o, ifMatch |-> 0, etag |-> 0,
                 revision |-> 0, state |-> state, missed |-> FALSE]
<1>1. state \in State \cup {"none"}
  BY StatesAreState DEF Objects
<1>2. q \in Request
  BY <1>1 DEF IInv, TypeOK, Request, Objects
<1>3. q.stage = stage /\ q.object = o /\ q.state = state
  BY DEF IInv, TypeOK, Request
<1>4. RequestOK(q)
  BY <1>3 DEF RequestOK
<1>5. request' = [request EXCEPT ![r] = q]
  BY DEF ReadRow
<1> QED
  BY <1>2, <1>4, <1>5, RequestStep DEF ReadRow

-----------------------------------------------------------------------------
(* Steps that store.                                                      *)

\* A new row; a revisioned object gets its first revision with it.
LEMMA InsertStep ==
    ASSUME IInv, NEW o \in Objects, InsertRow(o),
           \/ o \in Rows /\ UNCHANGED revisions
           \/ /\ o \in Revisioned
              /\ revisions' = [revisions EXCEPT
                                ![o] = <<[state |-> FirstState(o), seen |-> 0]>>]
    PROVE  IInv'
<1> DEFINE first == <<[state |-> FirstState(o), seen |-> 0]>>
<1>1. FirstState(o) \in States(o) /\ FirstState(o) \in State
  BY FirstStateIsAState, StatesAreState
<1>2. first \in Seq(Revision) /\ Len(first) = 1 /\ first[1].state = FirstState(o)
  BY <1>1 DEF Revision
<1>3. o \notin Revisioned \/ o \notin Rows
  BY KindsAreDisjoint DEF Revisioned, Rows
<1>4. TypeOK'
  BY <1>1, <1>2 DEF IInv, TypeOK, InsertRow
<1>5. \A p \in Revisioned :
        \/ revisions'[p] = revisions[p] /\ row'[p] = row[p]
        \/ /\ p = o /\ Len(revisions[p]) = 0
           /\ revisions'[p] = first /\ row'[p] = FirstState(p)
  <2> SUFFICES ASSUME NEW p \in Revisioned
               PROVE  \/ revisions'[p] = revisions[p] /\ row'[p] = row[p]
                      \/ /\ p = o /\ Len(revisions[p]) = 0
                         /\ revisions'[p] = first /\ row'[p] = FirstState(p)
    OBVIOUS
  <2>1. revisions[p] \in Seq(Revision) /\ Len(revisions[p]) \in Nat
    BY DEF IInv, TypeOK
  <2>2. row[o] = "none"
    BY DEF InsertRow, Exists
  <2>3. CASE p # o
    BY <2>3 DEF InsertRow, IInv, TypeOK, Objects
  <2>4. CASE p = o
    BY <2>1, <2>2, <2>4, <1>3 DEF InsertRow, IInv, TypeOK, RowsExist, Exists, Current, Objects
  <2> QED
    BY <2>3, <2>4
<1>6. RequestsHold'
  <2> SUFFICES ASSUME NEW u \in Requests PROVE RequestOK(request[u])'
    BY DEF RequestsHold
  <2>1. RequestOK(request[u]) /\ request'[u] = request[u] /\ request[u] \in Request
    BY DEF IInv, TypeOK, RequestsHold, InsertRow
  <2>2. CASE request[u].stage \in {"arrived", "revising"}
    <3>1. request[u].object \in Revisioned /\ Current(request[u].object) >= 1
      BY <2>1, <2>2 DEF RequestOK, Request, Current, IInv, TypeOK
    <3>2. revisions'[request[u].object] = revisions[request[u].object]
      BY <1>5, <3>1 DEF Current
    <3> QED
      BY <2>1, <3>1, <3>2 DEF RequestOK, Current
  <2>3. CASE request[u].stage \notin {"arrived", "revising"}
    BY <2>1, <2>3 DEF RequestOK
  <2> QED
    BY <2>2, <2>3
<1>7. StatesAreOwn'
  BY <1>1, <1>2, <1>5 DEF IInv, StatesAreOwn, Current
<1>8. RowsExist'
  BY <1>1, <1>2, <1>5, NoneIsNoState DEF IInv, RowsExist, Exists, Current
<1>9. RowsFollowRevisions'
  <2> SUFFICES ASSUME NEW p \in Projects \cup Claims \cup Tasks, Exists(p)'
               PROVE  (Current(p) > 0 /\ row[p] = CurrentState(p))'
    BY DEF RowsFollowRevisions
  <2>1. p \in Revisioned
    BY DEF Revisioned
  <2> QED
    BY <1>2, <1>5, <2>1
       DEF IInv, RowsFollowRevisions, Exists, Current, CurrentState, Last
<1>10. HistoriesAreLegal'
  BY <1>2, <1>5 DEF IInv, HistoriesAreLegal, Current
<1>11. EditsAreSeen'
  <2> SUFFICES ASSUME NEW p \in Projects \cup Claims \cup Challenges
               PROVE  SeenBeforeRevised(p)'
    BY DEF EditsAreSeen
  <2>1. p \in Revisioned
    BY DEF Revisioned
  <2> QED
    BY <1>2, <1>5, <2>1 DEF IInv, EditsAreSeen, SeenBeforeRevised, Current
<1> QED
  BY <1>4, <1>6, <1>7, <1>8, <1>9, <1>10, <1>11 DEF IInv

\* The primary key lets a revision follow only the one it was decided on.
LEMMA StoreRevisionStep ==
    ASSUME IInv, NEW r \in Requests, StoreRevision(r)
    PROVE  IInv'
<1> DEFINE q == request[r]
           o == q.object
           n == Current(o)
           new == [state |-> q.state, seen |-> q.ifMatch]
<1>1. /\ o \in Revisioned /\ o \in Objects /\ q \in Request
      /\ n \in Nat /\ n >= 1 /\ q.revision = n + 1 /\ q.revision - 1 = n
      /\ q.state \in States(o) /\ q.ifMatch \in Nat
      /\ Follows(o, revisions[o][n].state, q.state)
      /\ o \in Guarded => q.ifMatch = n
      /\ revisions[o] \in Seq(Revision)
  <2>1. RequestOK(q) /\ q \in Request /\ q.stage = "revising" /\ q.revision = n + 1
    BY DEF IInv, TypeOK, RequestsHold, StoreRevision
  <2>2. o \in Revisioned /\ o \in Objects
    BY <2>1 DEF RequestOK, Objects
  <2>3. revisions[o] \in Seq(Revision) /\ n \in Nat
    BY <2>2 DEF IInv, TypeOK, Current
  <2>4. q.revision - 1 = n
    BY <2>1, <2>3
  <2> QED
    BY <2>1, <2>2, <2>3, <2>4 DEF RequestOK, Request
<1>2. /\ new \in Revision /\ new.state = q.state /\ new.seen = q.ifMatch
  BY <1>1, StatesAreState DEF Revision
<1>3. \A p \in Revisioned :
        revisions'[p] = IF p = o THEN Append(revisions[p], new) ELSE revisions[p]
  BY <1>1 DEF IInv, TypeOK, StoreRevision, AppendRevision
<1>4. /\ Append(revisions[o], new) \in Seq(Revision)
      /\ Len(Append(revisions[o], new)) = n + 1
      /\ Append(revisions[o], new)[n + 1] = new
      /\ \A i \in 1..n : Append(revisions[o], new)[i] = revisions[o][i]
  BY <1>1, <1>2 DEF Current
<1>5. /\ \A p \in Revisioned \ {o} : revisions'[p] = revisions[p]
      /\ Len(revisions'[o]) = n + 1 /\ revisions'[o][n + 1] = new
      /\ \A i \in 1..n : revisions'[o][i] = revisions[o][i]
      /\ Len(revisions[o]) = n
  BY <1>1, <1>3, <1>4 DEF Current
<1>6. \A p \in Objects : row'[p] = IF p = o /\ o \notin Challenges THEN q.state ELSE row[p]
  BY <1>1 DEF IInv, TypeOK, StoreRevision
<1>7. request' = [request EXCEPT ![r] = Idle] /\ traces' = traces /\ Idle \in Request
  BY DEF StoreRevision, Idle, Request
<1>8. TypeOK'
  <2>1. revisions' \in [Revisioned -> Seq(Revision)]
    BY <1>1, <1>4 DEF IInv, TypeOK, StoreRevision, AppendRevision
  <2>2. row' \in [Objects -> State \cup {"none"}]
    BY <1>1, StatesAreState DEF IInv, TypeOK, StoreRevision
  <2>3. \A p \in Objects : row'[p] \in States(p) \cup {"none"}
    BY <1>1, <1>6 DEF IInv, TypeOK
  <2> QED
    BY <1>7, <2>1, <2>2, <2>3 DEF IInv, TypeOK
<1>9. RequestsHold'
  <2> SUFFICES ASSUME NEW u \in Requests PROVE RequestOK(request[u])'
    BY DEF RequestsHold
  <2>1. CASE u = r
    BY <2>1, <1>7 DEF IInv, TypeOK, RequestOK, Idle
  <2>2. CASE u # r
    <3>1. RequestOK(request[u]) /\ request'[u] = request[u] /\ request[u] \in Request
      BY <2>2, <1>7 DEF IInv, TypeOK, RequestsHold
    <3>2. CASE request[u].stage = "arrived"
      <4>1. request[u].object \in Revisioned /\ request[u].ifMatch \in 1..Len(revisions[request[u].object])
        BY <3>1, <3>2 DEF RequestOK, Current
      <4>2. request[u].ifMatch \in 1..Len(revisions'[request[u].object])
        <5>1. CASE request[u].object = o
          BY <1>1, <1>5, <4>1, <5>1
        <5>2. CASE request[u].object # o
          BY <1>5, <4>1, <5>2
        <5> QED
          BY <5>1, <5>2
      <4> QED
        BY <3>1, <3>2, <4>1, <4>2 DEF RequestOK, Current
    <3>3. CASE request[u].stage = "revising"
      <4>1. /\ request[u].object \in Revisioned
            /\ request[u].revision \in 2..(Current(request[u].object) + 1)
        BY <3>1, <3>3 DEF RequestOK
      <4>2. CASE request[u].object = o
        <5>1. request[u].revision - 1 \in 1..n
          BY <1>1, <4>1, <4>2
        <5>2. revisions'[o][request[u].revision - 1] = revisions[o][request[u].revision - 1]
          BY <1>5, <5>1
        <5>3. request[u].revision \in 2..(Len(revisions'[o]) + 1)
          BY <1>1, <1>5, <4>1, <4>2 DEF Current
        <5> QED
          BY <3>1, <3>3, <4>1, <4>2, <5>2, <5>3 DEF RequestOK, Current
      <4>3. CASE request[u].object # o
        BY <1>5, <3>1, <3>3, <4>1, <4>3 DEF RequestOK, Current
      <4> QED
        BY <4>2, <4>3
    <3>4. CASE request[u].stage \notin {"arrived", "revising"}
      BY <3>1, <3>4 DEF RequestOK
    <3> QED
      BY <3>2, <3>3, <3>4
  <2> QED
    BY <2>1, <2>2
<1>10. StatesAreOwn'
  <2> SUFFICES ASSUME NEW p \in Revisioned, NEW i \in 1..Len(revisions'[p])
               PROVE  revisions'[p][i].state \in States(p)
    BY DEF StatesAreOwn, Current
  <2>1. CASE p = o /\ i = n + 1
    BY <1>1, <1>2, <1>5, <2>1
  <2>2. CASE p # o \/ i # n + 1
    <3>1. i \in 1..Len(revisions[p]) /\ revisions'[p][i] = revisions[p][i]
      <4>1. CASE p = o
        BY <1>1, <1>5, <2>2, <4>1
      <4>2. CASE p # o
        BY <1>5, <4>2
      <4> QED
        BY <4>1, <4>2
    <3> QED
      BY <3>1 DEF IInv, StatesAreOwn, Current
  <2> QED
    BY <2>1, <2>2
<1>11. RowsExist'
  <2> SUFFICES ASSUME NEW p \in Revisioned PROVE (Exists(p) <=> Current(p) > 0)'
    BY DEF RowsExist
  <2>1. Exists(p) <=> Len(revisions[p]) > 0
    BY DEF IInv, RowsExist, Current
  <2>2. q.state # "none"
    BY <1>1, NoneIsNoState
  <2> QED
    BY <1>1, <1>5, <1>6, <2>1, <2>2 DEF Exists, Current, Objects
<1>12. RowsFollowRevisions'
  <2> SUFFICES ASSUME NEW p \in Projects \cup Claims \cup Tasks, Exists(p)'
               PROVE  (Current(p) > 0 /\ row[p] = CurrentState(p))'
    BY DEF RowsFollowRevisions
  <2>1. p \in Revisioned /\ p \in Objects /\ p \notin Challenges
    BY KindsAreDisjoint DEF Revisioned, Objects
  <2>2. CASE p = o
    BY <1>1, <1>2, <1>5, <1>6, <2>1, <2>2 DEF Current, CurrentState, Last
  <2>3. CASE p # o
    BY <1>5, <1>6, <2>1, <2>3
       DEF IInv, RowsFollowRevisions, Exists, Current, CurrentState, Last
  <2> QED
    BY <2>2, <2>3
<1>13. HistoriesAreLegal'
  <2> SUFFICES ASSUME NEW p \in Revisioned, NEW i \in 1..Len(revisions'[p])
               PROVE  IF i = 1 THEN revisions'[p][i].state = FirstState(p)
                      ELSE Follows(p, revisions'[p][i - 1].state, revisions'[p][i].state)
    BY DEF HistoriesAreLegal, Current, Follows
  <2>1. \A j \in 1..Len(revisions[p]) :
          IF j = 1 THEN revisions[p][j].state = FirstState(p)
          ELSE Follows(p, revisions[p][j - 1].state, revisions[p][j].state)
    BY DEF IInv, HistoriesAreLegal, Current, Follows
  <2>2. CASE p # o
    BY <1>5, <2>1, <2>2
  <2>3. CASE p = o /\ i \in 1..n
    <3>1. i = 1 \/ i - 1 \in 1..n
      BY <1>1, <2>3
    <3> QED
      BY <1>5, <2>1, <2>3, <3>1
  <2>4. CASE p = o /\ i = n + 1
    <3>1. i # 1 /\ i - 1 = n /\ n \in 1..n
      BY <1>1, <2>4
    <3> QED
      BY <1>1, <1>2, <1>5, <2>4, <3>1
  <2> QED
    BY <1>1, <1>5, <2>2, <2>3, <2>4
<1>14. EditsAreSeen'
  <2> SUFFICES ASSUME NEW p \in Guarded, NEW i \in 2..Len(revisions'[p])
               PROVE  revisions'[p][i].seen = i - 1
    BY DEF EditsAreSeen, SeenBeforeRevised, Current, Guarded
  <2>1. /\ p \in Revisioned
        /\ \A j \in 2..Len(revisions[p]) : revisions[p][j].seen = j - 1
    BY DEF IInv, EditsAreSeen, SeenBeforeRevised, Current, Guarded, Revisioned
  <2>2. CASE p = o /\ i = n + 1
    BY <1>1, <1>2, <1>5, <2>2
  <2>3. CASE p # o \/ i # n + 1
    <3>1. i \in 2..Len(revisions[p]) /\ revisions'[p][i] = revisions[p][i]
      <4>1. CASE p = o
        <5>1. i \in 2..n /\ i \in 1..n
          BY <1>1, <1>5, <2>3, <4>1
        <5> QED
          BY <1>5, <4>1, <5>1
      <4>2. CASE p # o
        BY <1>5, <2>1, <4>2
      <4> QED
        BY <4>1, <4>2
    <3> QED
      BY <2>1, <3>1
  <2> QED
    BY <2>2, <2>3
<1> QED
  BY <1>8, <1>9, <1>10, <1>11, <1>12, <1>13, <1>14 DEF IInv

\* A row is set to a state of its table.
LEMMA StoreRowStep ==
    ASSUME IInv, NEW r \in Requests, StoreRow(r)
    PROVE  IInv'
<1> DEFINE q == request[r]
<1>1. q \in Request /\ q.object \in Rows /\ q.object \in Objects /\ q.state \in States(q.object)
  BY DEF IInv, TypeOK, RequestsHold, RequestOK, StoreRow, Objects
<1>2. q.object \notin Revisioned
  BY <1>1, KindsAreDisjoint DEF Revisioned, Rows
<1>3. \A p \in Revisioned : row'[p] = row[p]
  BY <1>2 DEF IInv, TypeOK, StoreRow, Objects
<1>4. Idle \in Request
  BY DEF Idle, Request
<1>5. TypeOK'
  <2>1. \A u \in Requests : [request[u] EXCEPT !.missed = TRUE] \in Request
    BY DEF IInv, TypeOK, Request
  <2>2. request' \in [Requests -> Request]
    BY <1>4, <2>1 DEF IInv, TypeOK, StoreRow
  <2> QED
    BY <1>1, <2>2, StatesAreState DEF IInv, TypeOK, StoreRow
<1>6. RequestsHold'
  <2> SUFFICES ASSUME NEW u \in Requests PROVE RequestOK(request[u])'
    BY DEF RequestsHold
  <2>1. \/ request'[u] = Idle
        \/ /\ request'[u].stage = request[u].stage /\ request'[u].object = request[u].object
           /\ request'[u].ifMatch = request[u].ifMatch /\ request'[u].state = request[u].state
           /\ request'[u].revision = request[u].revision
    BY DEF IInv, TypeOK, StoreRow, Request
  <2> QED
    BY <2>1 DEF IInv, RequestsHold, RequestOK, Idle, Current, StoreRow
<1>7. (StatesAreOwn /\ RowsExist /\ HistoriesAreLegal /\ EditsAreSeen)'
  BY <1>3 DEF IInv, StatesAreOwn, RowsExist, HistoriesAreLegal, EditsAreSeen,
              SeenBeforeRevised, Exists, Current, StoreRow
<1>8. RowsFollowRevisions'
  BY <1>3 DEF IInv, RowsFollowRevisions, Exists, Current, CurrentState, StoreRow, Revisioned
<1> QED
  BY <1>5, <1>6, <1>7, <1>8 DEF IInv

\* A trace event changes no revision and no row.
LEMMA StoreTraceStep ==
    ASSUME IInv, NEW r \in Requests, StoreTrace(r)
    PROVE  IInv'
<1>1. Idle \in Request
  BY DEF Idle, Request
<1>2. TypeOK'
  <2>1. request[r].object \in Attempts /\ traces[request[r].object] \in Nat
    BY DEF IInv, TypeOK, RequestsHold, RequestOK, StoreTrace
  <2>2. traces' \in [Attempts -> Nat]
    BY <2>1 DEF IInv, TypeOK, StoreTrace
  <2> QED
    BY <1>1, <2>2 DEF IInv, TypeOK, StoreTrace
<1>3. RequestsHold'
  <2> SUFFICES ASSUME NEW u \in Requests PROVE RequestOK(request[u])'
    BY DEF RequestsHold
  <2>1. request'[u] = IF u = r THEN Idle ELSE request[u]
    BY DEF IInv, TypeOK, StoreTrace
  <2> QED
    BY <2>1 DEF IInv, RequestsHold, RequestOK, Idle, Current, StoreTrace
<1>4. (StatesAreOwn /\ RowsExist /\ RowsFollowRevisions /\ HistoriesAreLegal /\ EditsAreSeen)'
  BY DEF IInv, StatesAreOwn, RowsExist, RowsFollowRevisions, HistoriesAreLegal,
         EditsAreSeen, SeenBeforeRevised, Exists, Current, CurrentState, StoreTrace
<1> QED
  BY <1>2, <1>3, <1>4 DEF IInv

-----------------------------------------------------------------------------
\* Nothing is stored and nobody asks.
LEMMA InitHolds == Init => IInv
<1> SUFFICES ASSUME Init PROVE IInv
  OBVIOUS
<1>1. <<>> \in Seq(Revision) /\ Len(<<>>) = 0 /\ Idle \in Request
  BY DEF Idle, Request
<1>2. \A o \in Revisioned : revisions[o] = <<>> /\ Current(o) = 0 /\ row[o] = "none"
  BY <1>1 DEF Init, Current, Objects
<1>3. TypeOK
  BY <1>1 DEF Init, TypeOK
<1>4. RequestsHold
  BY DEF Init, RequestsHold, RequestOK, Idle
<1>5. StatesAreOwn /\ RowsExist /\ HistoriesAreLegal /\ EditsAreSeen
  BY <1>2 DEF StatesAreOwn, RowsExist, HistoriesAreLegal, EditsAreSeen,
              SeenBeforeRevised, Exists, Revisioned
<1>6. RowsFollowRevisions
  BY <1>2 DEF RowsFollowRevisions, Exists, Revisioned
<1> QED
  BY <1>3, <1>4, <1>5, <1>6 DEF IInv

\* A first revision or a first row is in its first state.
LEMMA CreateStep == IInv /\ Create => IInv'
<1> SUFFICES ASSUME IInv, Create PROVE IInv'
  OBVIOUS
<1>1. ASSUME NEW o \in Revisioned, InsertFirst(o) PROVE IInv'
  BY <1>1, InsertStep DEF InsertFirst, Objects
<1>2. ASSUME NEW o \in Rows, InsertRow(o), UNCHANGED revisions PROVE IInv'
  BY <1>2, InsertStep DEF Objects
<1> QED
  BY <1>1, <1>2 DEF Create, CreateProject, CreateClaim, CreateTask, CreateChallenge,
                    CreateQuestion, CreateAttempt, Revisioned, Rows

\* What the six commands that revise have in common.
LEMMA ReviseStep ==
    ASSUME IInv, NEW r \in Requests, NEW o \in Revisioned,
           NEW state, state = CurrentState(o) \/ state \in Successors(o, CurrentState(o)),
           ReadCurrent(r, o, state),
           Rechecked(r, o) \/ (o \in Tasks /\ Prechecked(r, o))
    PROVE  IInv'
<1>1. Asks(r, o)
  BY DEF Rechecked, Prechecked
<1>2. Current(o) \in Nat /\ Current(o) >= 1
  <2>1. RequestOK(request[r])
    BY DEF IInv, RequestsHold
  <2> QED
    BY <1>1, <2>1 DEF RequestOK, Asks, IInv, TypeOK, Current
<1>3. CurrentState(o) \in States(o)
  BY <1>2 DEF IInv, StatesAreOwn, CurrentState, Current, Last
<1>4. state \in States(o) /\ Follows(o, CurrentState(o), state)
  BY <1>3, SuccessorsAreStates DEF Follows
<1>5. o \in Guarded => request[r].ifMatch = Current(o)
  BY KindsAreDisjoint DEF Rechecked, Guarded
<1> QED
  BY <1>1, <1>4, <1>5, ReadStep

\* Every command, from its request to its insert.
LEMMA RequestsStep ==
    ASSUME IInv, NEW r \in Requests, Step(r) PROVE IInv'
<1>1. ASSUME NEW o \in Revisioned, Arrive(r, o) PROVE IInv'
  BY <1>1, ArriveStep
<1>2. ASSUME NEW o \in Projects, ReviseProject(r, o) PROVE IInv'
  BY <1>2, ReviseStep DEF ReviseProject, Revisioned
<1>3. ASSUME NEW o \in Claims, ReviseClaim(r, o) PROVE IInv'
  BY <1>3, ReviseStep DEF ReviseClaim, Revisioned
<1>4. ASSUME NEW o \in Claims, TransitionClaim(r, o) PROVE IInv'
  BY <1>4, ReviseStep DEF TransitionClaim, Revisioned
<1>5. ASSUME NEW o \in Tasks, ReviseTask(r, o) PROVE IInv'
  BY <1>5, ReviseStep DEF ReviseTask, Revisioned
<1>6. ASSUME NEW o \in Tasks, TransitionTask(r, o) PROVE IInv'
  BY <1>6, ReviseStep DEF TransitionTask, Revisioned
<1>7. ASSUME NEW o \in Challenges, TransitionChallenge(r, o) PROVE IInv'
  BY <1>7, ReviseStep DEF TransitionChallenge, Revisioned
<1>8. ASSUME NEW o \in Questions, TransitionQuestion(r, o) PROVE IInv'
  BY <1>8, ReadRowStep, SuccessorsAreStates DEF TransitionQuestion, Rows
<1>9. ASSUME NEW o \in Attempts, TransitionAttempt(r, o) PROVE IInv'
  BY <1>9, ReadRowStep, SuccessorsAreStates DEF TransitionAttempt, Rows
<1>10. ASSUME NEW o \in Attempts, CreateTraceEvent(r, o) PROVE IInv'
  BY <1>10, ReadRowStep DEF CreateTraceEvent, Rows
<1>11. ASSUME Fail(r) PROVE IInv'
  BY <1>11, IdleStep DEF Fail
<1> QED
  BY <1>1, <1>2, <1>3, <1>4, <1>5, <1>6, <1>7, <1>8, <1>9, <1>10, <1>11,
     StoreRevisionStep, StoreRowStep, StoreTraceStep DEF Step

\* Stuttering.
LEMMA StutterStep == IInv /\ UNCHANGED vars => IInv'
BY DEF IInv, TypeOK, RequestsHold, RequestOK, StatesAreOwn, RowsExist, RowsFollowRevisions,
       HistoriesAreLegal, EditsAreSeen, SeenBeforeRevised, Exists, Current, CurrentState, vars

\* IInv is inductive: what a waiting request has read or decided is never
\* contradicted by what other requests store.
THEOREM LifecycleInvariant == Spec => []IInv
<1>1. IInv /\ [Next]_vars => IInv'
  BY CreateStep, RequestsStep, StutterStep DEF Next
<1> QED
  BY <1>1, InitHolds, PTL DEF Spec

\* Rows, histories and requests keep their types.
THEOREM LifecycleTypes == Spec => []TypeOK
<1>1. IInv => TypeOK
  BY DEF IInv
<1> QED
  BY <1>1, LifecycleInvariant, PTL

\* However many transactions overlap, every stored history is one that the
\* protocol's tables allow.
THEOREM HistoriesStayLegal == Spec => []HistoriesAreLegal
<1>1. IInv => HistoriesAreLegal
  BY DEF IInv
<1> QED
  BY <1>1, LifecycleInvariant, PTL

\* The rows that are read show the last revision.
THEOREM RowsFollow == Spec => []RowsFollowRevisions
<1>1. IInv => RowsFollowRevisions
  BY DEF IInv
<1> QED
  BY <1>1, LifecycleInvariant, PTL

\* No edit of a Project, a Claim or a Challenge follows a revision that its
\* author has not seen: If-Match, read again inside the transaction, and the
\* primary key suffice together.
THEOREM EditsFollowWhatWasSeen == Spec => []EditsAreSeen
<1>1. IInv => EditsAreSeen
  BY DEF IInv
<1> QED
  BY <1>1, LifecycleInvariant, PTL

-----------------------------------------------------------------------------
(* Questions and Attempts: what a request has read holds until another     *)
(* writes the row, and the request has missed that.                        *)

InHand(r) == request[r].stage \in {"moving", "tracing"}

\* What the request found in the row is still true.
Holds(r) ==
    /\ request[r].object \in Rows
    /\ Exists(request[r].object)
    /\ request[r].stage = "moving" =>
         <<row[request[r].object], request[r].state>> \in Transitions(request[r].object)
    /\ request[r].stage = "tracing" => row[request[r].object] # "submitted"

RowsAreAsRead == \A r \in Requests : InHand(r) /\ ~request[r].missed => Holds(r)

\* Steps that leave the rows of Questions and Attempts and all that are in hand
\* alone, except that requests may give theirs up.
LEMMA OthersKeepRows ==
    ASSUME RowsAreAsRead,
           \A r \in Requests : InHand(r)' => request'[r] = request[r],
           \A o \in Rows : Exists(o) => row'[o] = row[o]
    PROVE  RowsAreAsRead'
<1>1. \A r \in Requests : InHand(r)' => InHand(r)
  BY DEF InHand
<1>2. ASSUME NEW r \in Requests, InHand(r)', ~request'[r].missed PROVE Holds(r)'
  BY <1>1, <1>2 DEF RowsAreAsRead, Holds, Exists
<1> QED
  BY <1>2 DEF RowsAreAsRead

\* A row has just been read.
LEMMA ReadingKeepsRows ==
    ASSUME IInv, RowsAreAsRead, NEW r \in Requests, NEW o \in Rows,
           NEW stage, NEW state, ReadRow(r, o, stage, state),
           stage = "moving" => <<row[o], state>> \in Transitions(o),
           stage = "tracing" => row[o] # "submitted"
    PROVE  RowsAreAsRead'
<1>1. /\ request'[r].stage = stage /\ request'[r].object = o /\ request'[r].state = state
      /\ \A u \in Requests \ {r} : request'[u] = request[u]
      /\ row' = row /\ Exists(o)
  BY DEF IInv, TypeOK, ReadRow
<1>2. ASSUME NEW u \in Requests, InHand(u)', ~request'[u].missed PROVE Holds(u)'
  BY <1>1, <1>2 DEF RowsAreAsRead, Holds, InHand, Exists
<1> QED
  BY <1>2 DEF RowsAreAsRead

\* The others that have read the row miss what is stored there.
LEMMA WritingKeepsRows ==
    ASSUME IInv, RowsAreAsRead, NEW r \in Requests, StoreRow(r)
    PROVE  RowsAreAsRead'
<1>1. \A u \in Requests : InHand(u)' /\ ~request'[u].missed =>
        request'[u] = request[u] /\ request[u].object # request[r].object
  BY DEF IInv, TypeOK, Request, StoreRow, InHand, Idle
<1>2. \A o \in Objects : o # request[r].object => row'[o] = row[o]
  BY DEF IInv, TypeOK, StoreRow
<1>3. ASSUME NEW u \in Requests, InHand(u)', ~request'[u].missed PROVE Holds(u)'
  <2>1. request'[u] = request[u] /\ request[u].object # request[r].object /\ Holds(u)
    BY <1>1, <1>3 DEF RowsAreAsRead, InHand
  <2>2. row'[request[u].object] = row[request[u].object]
    BY <1>2, <2>1 DEF Holds, Objects
  <2> QED
    BY <2>1, <2>2 DEF Holds, Exists
<1> QED
  BY <1>3 DEF RowsAreAsRead

\* What every step but those of Questions and Attempts does to their rows.
LEMMA OtherStep ==
    ASSUME IInv, NEW r \in Requests,
           \/ \E o \in Revisioned : Arrive(r, o)
           \/ \E o \in Revisioned : \E state : ReadCurrent(r, o, state)
           \/ StoreRevision(r)
           \/ StoreTrace(r)
           \/ Fail(r)
    PROVE  /\ \A u \in Requests : InHand(u)' => request'[u] = request[u]
           /\ \A o \in Rows : row'[o] = row[o]
<1>1. CASE \E o \in Revisioned : Arrive(r, o)
  BY <1>1 DEF IInv, TypeOK, Arrive, InHand
<1>2. CASE \E o \in Revisioned : \E state : ReadCurrent(r, o, state)
  BY <1>2 DEF IInv, TypeOK, ReadCurrent, InHand
<1>3. CASE StoreRevision(r)
  <2>1. request[r].object \in Revisioned
    BY <1>3 DEF IInv, RequestsHold, RequestOK, StoreRevision
  <2>2. request[r].object \notin Rows
    BY <2>1, KindsAreDisjoint DEF Revisioned, Rows
  <2> QED
    BY <1>3, <2>2 DEF IInv, TypeOK, StoreRevision, InHand, Idle, Objects
<1>4. CASE StoreTrace(r)
  BY <1>4 DEF IInv, TypeOK, StoreTrace, InHand, Idle
<1>5. CASE Fail(r)
  BY <1>5 DEF IInv, TypeOK, Fail, InHand, Idle
<1> QED
  BY <1>1, <1>2, <1>3, <1>4, <1>5

\* The ways in which a step concerns a row.
LEMMA StepKinds ==
    ASSUME IInv, Next
    PROVE  \/ /\ \A u \in Requests : InHand(u)' => request'[u] = request[u]
              /\ \A o \in Rows : Exists(o) => row'[o] = row[o]
           \/ \E r \in Requests, o \in Rows, stage \in {"moving", "tracing"} : \E state :
                /\ ReadRow(r, o, stage, state)
                /\ stage = "moving" => <<row[o], state>> \in Transitions(o)
                /\ stage = "tracing" => row[o] # "submitted"
           \/ \E r \in Requests : StoreRow(r)
<1> DEFINE Kept == /\ \A u \in Requests : InHand(u)' => request'[u] = request[u]
                   /\ \A o \in Rows : Exists(o) => row'[o] = row[o]
           Takes == \E r \in Requests, o \in Rows, stage \in {"moving", "tracing"} : \E state :
                      /\ ReadRow(r, o, stage, state)
                      /\ stage = "moving" => <<row[o], state>> \in Transitions(o)
                      /\ stage = "tracing" => row[o] # "submitted"
<1>1. ASSUME NEW o \in Objects, InsertRow(o) PROVE Kept
  BY <1>1 DEF IInv, TypeOK, InsertRow, Exists, Objects
<1>2. CASE Create
  BY <1>1, <1>2 DEF Create, CreateProject, CreateClaim, CreateTask, CreateChallenge,
       CreateQuestion, CreateAttempt, InsertFirst, Objects, Revisioned, Rows
<1>3. ASSUME NEW r \in Requests, Step(r) PROVE Kept \/ Takes \/ StoreRow(r)
  <2>1. ASSUME NEW o \in Revisioned, NEW state, ReadCurrent(r, o, state) PROVE Kept
    BY <2>1, OtherStep
  <2>2. CASE \/ \E o \in Revisioned : Arrive(r, o)
             \/ StoreRevision(r)
             \/ StoreTrace(r)
             \/ Fail(r)
    BY <2>2, OtherStep
  <2>3. CASE \E o \in Projects : ReviseProject(r, o)
    BY <2>1, <2>3 DEF ReviseProject, Revisioned
  <2>4. CASE \E o \in Claims : ReviseClaim(r, o) \/ TransitionClaim(r, o)
    BY <2>1, <2>4 DEF ReviseClaim, TransitionClaim, Revisioned
  <2>5. CASE \E o \in Tasks : ReviseTask(r, o) \/ TransitionTask(r, o)
    BY <2>1, <2>5 DEF ReviseTask, TransitionTask, Revisioned
  <2>6. CASE \E o \in Challenges : TransitionChallenge(r, o)
    BY <2>1, <2>6 DEF TransitionChallenge, Revisioned
  <2>7. CASE \E o \in Questions : TransitionQuestion(r, o)
    BY <2>7 DEF TransitionQuestion, Successors, Rows
  <2>8. CASE \E o \in Attempts : TransitionAttempt(r, o)
    BY <2>8 DEF TransitionAttempt, Successors, Rows
  <2>9. CASE \E o \in Attempts : CreateTraceEvent(r, o)
    BY <2>9 DEF CreateTraceEvent, Rows
  <2> QED
    BY <1>3, <2>2, <2>3, <2>4, <2>5, <2>6, <2>7, <2>8, <2>9 DEF Step
<1> QED
  BY <1>2, <1>3 DEF Next

\* Every step keeps rows in hand as they were read, or is missed.
LEMMA RowsStep == IInv /\ RowsAreAsRead /\ [Next]_vars => RowsAreAsRead'
<1>1. CASE UNCHANGED vars
  BY <1>1 DEF vars, RowsAreAsRead, InHand, Holds, Exists
<1>2. ASSUME IInv, RowsAreAsRead, Next PROVE RowsAreAsRead'
  BY <1>2, StepKinds, OthersKeepRows, ReadingKeepsRows, WritingKeepsRows
<1> QED
  BY <1>1, <1>2

\* Rows in hand are as they were read, or somebody wrote them since, in every behaviour.
LEMMA RowsInvariant == Spec => [](IInv /\ RowsAreAsRead)
<1>1. Init => RowsAreAsRead
  BY DEF Init, RowsAreAsRead, InHand, Idle
<1> QED
  BY <1>1, RowsStep, LifecycleInvariant, PTL DEF Spec

\* A Question or an Attempt moves only as its table allows, whatever requests overlap, unless the
\* request had read the row before another wrote it (transitionQuestion, transitionAttempt).
THEOREM RowsStayLegal == Spec => RowsMoveLegally
<1>1. ASSUME IInv, RowsAreAsRead, Next, NEW o \in Rows, Exists(o), row'[o] # row[o]
      PROVE  <<row[o], row'[o]>> \in Transitions(o) \/ Missed(o)
  <2>1. PICK r \in Requests : StoreRow(r)
    BY <1>1, StepKinds DEF ReadRow
  <2>2. InHand(r) /\ o \in Objects /\ request'[r] = Idle
    BY <2>1 DEF StoreRow, InHand, Objects
  <2>3. request[r].object = o /\ row'[o] = request[r].state
    BY <1>1, <2>1, <2>2 DEF StoreRow, IInv, TypeOK
  <2> QED
    BY <1>1, <2>1, <2>2, <2>3 DEF RowsAreAsRead, Holds, StoreRow, Missed
<1>2. IInv /\ RowsAreAsRead /\ [Next]_vars =>
        [\A o \in Rows :
            Exists(o) /\ row'[o] # row[o] => <<row[o], row'[o]>> \in Transitions(o) \/ Missed(o)]_vars
  BY <1>1
<1> QED
  BY <1>2, RowsInvariant, PTL DEF Spec, RowsMoveLegally

\* No trace event is stored for an Attempt that is submitted by then, unless it was submitted
\* after the request had read the Attempt (createTraceEvent).
THEOREM TracesPrecedeSubmission == Spec => NoTraceAfterSubmission
<1>1. ASSUME IInv, Next, NEW a \in Attempts, traces'[a] # traces[a]
      PROVE  \E r \in Requests : StoreTrace(r) /\ request[r].object = a
  <2>1. PICK r \in Requests : StoreTrace(r)
    BY <1>1 DEF Next, Create, Step, CreateProject, CreateClaim, CreateTask, CreateChallenge,
         CreateQuestion, CreateAttempt, InsertFirst, InsertRow, Arrive, ReviseProject,
         ReviseClaim, TransitionClaim, ReviseTask, TransitionTask, TransitionChallenge,
         ReadCurrent, TransitionQuestion, TransitionAttempt, CreateTraceEvent, ReadRow,
         StoreRevision, StoreRow, Fail
  <2> QED
    BY <1>1, <2>1 DEF StoreTrace, IInv, TypeOK
<1>2. ASSUME IInv, RowsAreAsRead, Next, NEW a \in Attempts, traces'[a] # traces[a]
      PROVE  row[a] # "submitted" \/ Missed(a)
  <2>1. PICK r \in Requests : StoreTrace(r) /\ request[r].object = a
    BY <1>1, <1>2
  <2>2. InHand(r) /\ request'[r] = Idle
    BY <1>2, <2>1 DEF StoreTrace, InHand, IInv, TypeOK
  <2> QED
    BY <1>2, <2>1, <2>2 DEF RowsAreAsRead, Holds, StoreTrace, Missed
<1>3. IInv /\ RowsAreAsRead /\ [Next]_vars =>
        [\A a \in Attempts : traces'[a] # traces[a] => row[a] # "submitted" \/ Missed(a)]_vars
  BY <1>2
<1> QED
  BY <1>3, RowsInvariant, PTL DEF Spec, NoTraceAfterSubmission
=============================================================================
