--------------------------- MODULE DependencyGraph ---------------------------
(***************************************************************************)
(* The relations between Claims and the dependencies between Tasks.  A     *)
(* command lists the relations, rejects a duplicate or a cycle, waits for  *)
(* its event to be signed, and writes.  For Claims a database trigger      *)
(* looks for a cycle again at the insert; for Tasks nothing does.          *)
(*                                                                         *)
(* Transactions see committed rows and their own writes, and a row that    *)
(* another transaction has written is locked until that one ends.          *)
(***************************************************************************)
EXTENDS Naturals, FiniteSets

CONSTANTS
    Nodes,      \* Claims or Tasks
    Relations,  \* the relations that may be stored
    Requests,   \* the commands that may be submitted
    NoRequest,
    Txns,       \* command invocations
    Trigger     \* whether the table has the acyclicity trigger

Relation == [source : Nodes, target : Nodes, type : STRING]

\* create: nothing to end; end: nothing to make; replace: one of each.
Request == [end : SUBSET Relations, make : SUBSET Relations]

ASSUME NodesAreFinite == IsFiniteSet(Nodes)
ASSUME RelationsJoinNodes == Relations \subseteq Relation
ASSUME RequestsAreSingle ==
    /\ Requests \subseteq Request /\ NoRequest \notin Requests
    /\ \A q \in Requests :
          /\ q.end \union q.make # {}
          /\ \A r, s \in q.end : r = s
          /\ \A r, s \in q.make : r = s
ASSUME TriggerIsBoolean == Trigger \in BOOLEAN

VARIABLES
    row, \* the committed state of each relation's row
    txn, \* the progress of each invocation
    passed \* history: for each relation, the dependencies that were committed
           \* between the last look for a cycle with it and its own commit

vars == <<row, txn, passed>>

Phase == {"idle", "checked", "ended", "inserted"}

\* missed: history, the dependencies committed since this command's last look.
Invocation == [phase : Phase, request : Requests \union {NoRequest}, missed : SUBSET Relations]

Idle == [phase |-> "idle", request |-> NoRequest, missed |-> {}]

Init ==
    /\ row = [r \in Relations |-> "absent"]
    /\ txn = [t \in Txns |-> Idle]
    /\ passed = [r \in Relations |-> {}]

Active == {r \in Relations : row[r] = "active"}
InPhase(p) == {t \in Txns : txn[t].phase = p}

-----------------------------------------------------------------------------
(* packages/protocol: the dependency graph *)

DependsOn(relations) == {r \in relations : r.type = "depends_on"}

\* The nodes a search from the given one visits.
Visited(edges, from) ==
    LET visited[n \in 0 .. Cardinality(Nodes)] ==
          IF n = 0 THEN {from}
          ELSE visited[n - 1] \union
                 {e.target : e \in {d \in edges : d.source \in visited[n - 1]}}
    IN  visited[Cardinality(Nodes)]

HasPath(edges, from, to) == to \in Visited(edges, from)

\* The graph must be acyclic as it stands, and the new edge must not close a
\* path back to its source.
CanAddDependency(edges, source, target) ==
    /\ source # target
    /\ \A e \in edges : ~ HasPath(edges, e.target, e.source)
    /\ ~ HasPath(edges, target, source)

-----------------------------------------------------------------------------
(* One command *)

\* The command's reads and checks.
Check(t, q) ==
    LET rest == Active \ q.end
    IN  /\ txn[t].phase = "idle"
        /\ q.end \subseteq Active
        /\ q.make \intersect rest = {}
        /\ \A r \in DependsOn(q.make) :
              CanAddDependency(DependsOn(rest), r.source, r.target)
        /\ txn' = [txn EXCEPT ![t] = [phase |-> "checked", request |-> q, missed |-> {}]]
        /\ UNCHANGED <<row, passed>>

\* The update that sets deleted_at names the row by its key alone, and waits
\* for whoever else is ending it; the signer is asked after it.
EndRow(t) ==
    /\ txn[t].phase = "checked"
    /\ txn[t].request.end # {}
    /\ \A u \in InPhase("ended") \union InPhase("inserted") :
          txn[u].request.end \intersect txn[t].request.end = {}
    /\ txn' = [txn EXCEPT ![t].phase = "ended"]
    /\ UNCHANGED <<row, passed>>

\* What a statement of this transaction sees.
Visible(t) == IF txn[t].phase = "ended" THEN Active \ txn[t].request.end ELSE Active

\* Faults: no trigger; a key that holds the active relations only.
InsertableByKey(t) == \A r \in txn[t].request.make : row[r] = "absent"
InsertableOverEnded(t) ==
    \A r \in txn[t].request.make :
        row[r] # "active" /\ ~ HasPath(DependsOn(Visible(t)), r.target, r.source)

\* The primary key holds ended relations too; the trigger walks the active
\* ones.
Insertable(t) ==
    \A r \in txn[t].request.make :
        /\ row[r] = "absent"
        /\ Trigger /\ r.type = "depends_on" =>
              ~ HasPath(DependsOn(Visible(t)), r.target, r.source)

InsertRow(t) ==
    /\ \/ txn[t].phase = "checked" /\ txn[t].request.end = {}
       \/ txn[t].phase = "ended" /\ txn[t].request.make # {}
    /\ \A u \in InPhase("inserted") :
          txn[u].request.make \intersect txn[t].request.make = {}
    /\ Insertable(t)
    /\ txn' = [txn EXCEPT ![t].phase = "inserted"]
    /\ UNCHANGED <<row, passed>>

\* The last look for a cycle is behind this command: the trigger's at the
\* insert or, where there is none, its own.
Looked(t) == IF Trigger THEN txn[t].phase = "inserted" ELSE txn[t].phase # "idle"

Commit(t) ==
    LET q == txn[t].request
    IN  /\ txn[t].phase = "inserted" \/ (txn[t].phase = "ended" /\ q.make = {})
        /\ row' = [r \in Relations |-> IF r \in q.make THEN "active"
                                       ELSE IF r \in q.end THEN "ended" ELSE row[r]]
        /\ txn' = [u \in Txns |->
              IF u = t THEN Idle
              ELSE IF Looked(u) THEN [txn[u] EXCEPT !.missed = @ \union DependsOn(q.make)]
              ELSE txn[u]]
        /\ passed' = [r \in Relations |->
              {d \in IF r \in q.make THEN txn[t].missed ELSE passed[r] : {d, r} \subseteq Active'}]

\* A refused insert, a refused signature, a deadlock or a crash.
Abort(t) ==
    /\ txn[t].phase # "idle"
    /\ txn' = [txn EXCEPT ![t] = Idle]
    /\ UNCHANGED <<row, passed>>

Next ==
    \E t \in Txns :
        \/ \E q \in Requests : Check(t, q)
        \/ EndRow(t) \/ InsertRow(t) \/ Commit(t) \/ Abort(t)

Spec == Init /\ [][Next]_vars

-----------------------------------------------------------------------------
Ordered(dependencies) ==
    \E order \in [Nodes -> 1 .. Cardinality(Nodes)] :
        \A d \in dependencies : order[d.target] < order[d.source]

\* The active dependencies can be put in an order in which each node comes
\* before all that depend on it ("rejects self, duplicate, and cyclic
\* depends_on edges"; "rejects any depends_on edge which would make the Claim
\* dependency graph cyclic").  It does not hold: see the next property.
Acyclic == Ordered(DependsOn(Active))

\* However many commands check, insert and commit across one another, a cycle
\* of active dependencies comes of two whose commands overlapped: one was
\* committed between the last look for a cycle with the other and its commit.
CyclesComeOfOverlaps ==
    \A some \in SUBSET DependsOn(Active) :
        (\A d, e \in some : d \notin passed[e]) => Ordered(some)

\* History is kept: a relation that was ended is never made active again nor
\* removed, though a command that checks only the active ones may try to.
EndedStaysEnded ==
    [][\A r \in Relations : row[r] = "ended" => row'[r] = "ended"]_vars

=============================================================================
