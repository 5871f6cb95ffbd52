-------------------------- MODULE ClaimGraphProofs --------------------------
(***************************************************************************)
(* Proofs about the relations between Claims: that their history stays and *)
(* only overlaps close a cycle (DependencyGraph), that the impact of a     *)
(* Challenge is found whole and marked once (Impact), and that the graph   *)
(* on a Claim's page hides nothing that stood while it was read            *)
(* (ClaimGraph, GraphView).  All rest on what a search along edges visits. *)
(***************************************************************************)
EXTENDS Impact, GraphView, FiniteSetTheorems, WellFoundedInduction, TLAPS

-----------------------------------------------------------------------------
(* Searches along edges *)

\* Induction up to n: a set of numbers that has 0, and each successor, has them all.
LEMMA UpTo ==
    ASSUME NEW n \in Nat, NEW Good, 0 \in Good, \A m \in 1 .. n : m - 1 \in Good => m \in Good
    PROVE  0 .. n \subseteq Good
<1> DEFINE Bad == {m \in 0 .. n : m \notin Good}
<1> DEFINE Less == {ss \in Nat \X Nat : ss[1] < ss[2]}
<1>1. IsWellFoundedOn(Less, Nat)
  BY NatLessThanWellFounded DEF OpToRel
<1>2. ASSUME Bad # {}
      PROVE  FALSE
  <2>1. Bad \subseteq Nat
    OBVIOUS
  <2>2. PICK m \in Bad : \A k \in Bad : <<k, m>> \notin Less
    <3> HIDE DEF Bad, Less
    <3> QED
      BY <1>1, <1>2, <2>1, WFMin
  <2>3. m \in 1 .. n
    OBVIOUS
  <2>4. m - 1 \in 0 .. n /\ m \in Nat /\ m - 1 \in Nat /\ m - 1 < m
    BY <2>3
  <2>5. <<m - 1, m>> \in Less
    BY <2>4
  <2>6. m - 1 \notin Bad
    <3> HIDE DEF Less
    <3> QED
      BY <2>2, <2>5
  <2> QED
    BY <2>3, <2>4, <2>6
<1> QED
  BY <1>2

\* f is what the repetition of a step from a base goes through.
Iterates(f, n, base, step) ==
    /\ f = [i \in DOMAIN f |-> f[i]] /\ DOMAIN f = 0 .. n
    /\ f[0] = base
    /\ \A i \in 1 .. n : f[i] = step[f[i - 1]]

\* A step can be repeated n times from a base.
LEMMA IterationsExist ==
    ASSUME NEW n \in Nat, NEW base, NEW step
    PROVE  \E f : Iterates(f, n, base, step)
<1> DEFINE Goes(f, m) == DOMAIN f = 0 .. m /\ f[0] = base /\ \A i \in 1 .. m : f[i] = step[f[i - 1]]
<1> DEFINE Good == {m \in 0 .. n : \E f : Goes(f, m)}
<1>1. 0 \in Good
  <2> DEFINE f == [i \in 0 .. 0 |-> base]
  <2>1. Goes(f, 0)
    OBVIOUS
  <2> HIDE DEF f
  <2>2. \E g : Goes(g, 0)
    BY <2>1
  <2> HIDE DEF Goes
  <2> QED
    BY <2>2
<1>2. ASSUME NEW m \in 1 .. n, m - 1 \in Good
      PROVE  m \in Good
  <2>1. PICK f : Goes(f, m - 1)
    BY <1>2
  <2> DEFINE g == [i \in 0 .. m |-> IF i = m THEN step[f[m - 1]] ELSE f[i]]
  <2>2. DOMAIN g = 0 .. m /\ g[0] = base /\ g[m] = step[f[m - 1]] /\ \A i \in 0 .. m - 1 : g[i] = f[i]
    <3>1. m \in Nat /\ m # 0 /\ 0 \in 0 .. m /\ m \in 0 .. m
      OBVIOUS
    <3>2. \A i \in 0 .. m - 1 : i \in 0 .. m /\ i # m
      OBVIOUS
    <3>3. f[0] = base
      BY <2>1
    <3>4. DOMAIN g = 0 .. m
      OBVIOUS
    <3>5. \A i \in 0 .. m : g[i] = IF i = m THEN step[f[m - 1]] ELSE f[i]
      OBVIOUS
    <3> HIDE DEF g
    <3>6. g[0] = base
      BY <3>1, <3>3, <3>5
    <3>7. g[m] = step[f[m - 1]]
      BY <3>1, <3>5
    <3>8. \A i \in 0 .. m - 1 : g[i] = f[i]
      BY <3>2, <3>5
    <3> QED
      BY <3>4, <3>6, <3>7, <3>8
  <2> HIDE DEF g
  <2>3. \A i \in 1 .. m : g[i] = step[g[i - 1]]
    <3> TAKE i \in 1 .. m
    <3>1. i - 1 \in 0 .. m - 1 /\ g[i - 1] = f[i - 1]
      BY <2>2
    <3>2. CASE i = m
      BY <2>2, <3>1, <3>2
    <3>3. CASE i # m
      <4>1. i \in 1 .. m - 1
        BY <3>3
      <4> QED
        BY <2>1, <2>2, <3>1, <4>1
    <3> QED
      BY <3>2, <3>3
  <2>4. Goes(g, m)
    BY <2>2, <2>3
  <2> QED
    BY <2>4
<1>3. n \in Good
  <2> HIDE DEF Good
  <2> QED
    BY <1>1, <1>2, UpTo
<1>4. PICK f : Goes(f, n) 
  BY <1>3
<1> DEFINE g == [i \in 0 .. n |-> f[i]]
<1>5. DOMAIN g = 0 .. n /\ g[0] = base /\ \A i \in 1 .. n : g[i] = step[g[i - 1]]
  BY <1>4
<1>6. g = [i \in DOMAIN g |-> g[i]]
  OBVIOUS
<1> HIDE DEF g
<1>7. Iterates(g, n, base, step)
  BY <1>5, <1>6 DEF Iterates
<1> QED
  BY <1>7

\* One round of a search along edges.
Onto(edges, S) == S \union {e.target : e \in {d \in edges : d.source \in S}}

\* What n rounds of a search visit.
Rounds(edges, from, n, f) ==
    /\ f = [i \in DOMAIN f |-> f[i]] /\ DOMAIN f = 0 .. n
    /\ f[0] = {from}
    /\ \A i \in 1 .. n : f[i] = Onto(edges, f[i - 1])

\* A search along edges goes on round by round.
LEMMA SearchesGoOn ==
    ASSUME NEW n \in Nat, NEW edges, NEW from
    PROVE  \E f : Rounds(edges, from, n, f)
<1> DEFINE All == {from} \union {e.target : e \in edges}
<1> DEFINE step == [S \in SUBSET All |-> Onto(edges, S)]
<1>1. PICK f : Iterates(f, n, {from}, step)
  BY IterationsExist
<1>2. \A S \in SUBSET All : step[S] = Onto(edges, S) /\ Onto(edges, S) \in SUBSET All
  <2>1. \A S \in SUBSET All : step[S] = Onto(edges, S)
    <3> HIDE DEF All
    <3> QED
      OBVIOUS
  <2>2. \A S \in SUBSET All : Onto(edges, S) \in SUBSET All
    BY DEF Onto
  <2> QED
    BY <2>1, <2>2
<1> HIDE DEF step
<1>3. f[0] = {from} /\ \A i \in 1 .. n : f[i] = step[f[i - 1]]
  BY <1>1 DEF Iterates
<1> DEFINE Good == {i \in 0 .. n : f[i] \in SUBSET All}
<1>4. 0 .. n \subseteq Good
  <2>1. 0 \in Good
    BY <1>3
  <2>2. ASSUME NEW m \in 1 .. n, m - 1 \in Good
        PROVE  m \in Good
    <3>1. f[m - 1] \in SUBSET All /\ m \in 0 .. n
      BY <2>2
    <3>2. f[m] \in SUBSET All
      <4> HIDE DEF All
      <4> QED
        BY <1>2, <1>3, <3>1
    <3> QED
      BY <3>1, <3>2
  <2> HIDE DEF Good
  <2> QED
    BY <2>1, <2>2, UpTo
<1>5. \A i \in 1 .. n : f[i] = Onto(edges, f[i - 1])
  <2>1. \A i \in 1 .. n : f[i - 1] \in SUBSET All
    BY <1>4
  <2> HIDE DEF All
  <2> QED
    BY <1>2, <1>3, <2>1
<1> QED
  BY <1>1, <1>5 DEF Iterates, Rounds

\* The function by which the searches are defined.
Search(edges, from, n) ==
    CHOOSE f : f = [i \in 0 .. n |-> IF i = 0 THEN {from} ELSE Onto(edges, f[i - 1])]

\* It is what the rounds visit.
LEMMA SearchIsInRounds ==
    ASSUME NEW n \in Nat, NEW edges, NEW from
    PROVE  Rounds(edges, from, n, Search(edges, from, n))
<1> DEFINE Is(f) == f = [i \in 0 .. n |-> IF i = 0 THEN {from} ELSE Onto(edges, f[i - 1])]
<1> DEFINE f == Search(edges, from, n)
<1>1. Is(f)
  <2>1. PICK g : Rounds(edges, from, n, g)
    BY SearchesGoOn
  <2>2. DOMAIN g = 0 .. n /\ g = [i \in DOMAIN g |-> g[i]]
    BY <2>1 DEF Rounds
  <2>3. ASSUME NEW i \in 0 .. n
        PROVE  g[i] = IF i = 0 THEN {from} ELSE Onto(edges, g[i - 1])
    <3>1. CASE i = 0
      BY <2>1, <3>1 DEF Rounds
    <3>2. CASE i # 0
      <4>1. i \in 1 .. n
        BY <3>2
      <4> QED
        BY <2>1, <3>2, <4>1 DEF Rounds
    <3> QED
      BY <3>1, <3>2
  <2>4. Is(g)
    BY <2>2, <2>3
  <2>5. f = CHOOSE h : Is(h)
    BY DEF Search
  <2> HIDE DEF Is, f
  <2> QED
    BY <2>4, <2>5
<1> HIDE DEF f
<1>2. DOMAIN f = 0 .. n /\ f = [i \in DOMAIN f |-> f[i]]
  BY <1>1
<1>3. \A i \in 0 .. n : f[i] = IF i = 0 THEN {from} ELSE Onto(edges, f[i - 1])
  BY <1>1
<1>4. 0 \in 0 .. n /\ \A i \in 1 .. n : i \in 0 .. n /\ i # 0
  OBVIOUS
<1>5. Rounds(edges, from, n, f)
  BY <1>2, <1>3, <1>4 DEF Rounds
<1> QED
  BY <1>5 DEF f

\* What a search visits is where it began, or a target.
LEMMA RoundsStay ==
    ASSUME NEW n \in Nat, NEW edges, NEW from, NEW f, Rounds(edges, from, n, f)
    PROVE  /\ from \in f[n]
           /\ f[n] \subseteq {from} \union {e.target : e \in edges}
           /\ (\A e \in edges : e.source # from) => f[n] = {from}
<1> DEFINE All == {from} \union {e.target : e \in edges}
<1> DEFINE Good == {i \in 0 .. n : /\ from \in f[i] /\ f[i] \subseteq All
                                   /\ (\A e \in edges : e.source # from) => f[i] = {from}}
<1>1. 0 \in Good
  BY DEF Rounds, Onto
<1>2. \A m \in 1 .. n : m - 1 \in Good => m \in Good
  BY DEF Rounds, Onto
<1>3. n \in Good
  <2> HIDE DEF Good
  <2> QED
    BY <1>1, <1>2, UpTo
<1> QED
  BY <1>3

\* More edges lead to more nodes.
LEMMA RoundsGrow ==
    ASSUME NEW n \in Nat, NEW few, NEW many, few \subseteq many, NEW from, NEW f, NEW g,
           Rounds(few, from, n, f), Rounds(many, from, n, g)
    PROVE  f[n] \subseteq g[n]
<1> DEFINE Good == {i \in 0 .. n : f[i] \subseteq g[i]}
<1>1. 0 \in Good
  BY DEF Rounds, Onto
<1>2. \A m \in 1 .. n : m - 1 \in Good => m \in Good
  BY DEF Rounds, Onto
<1>3. n \in Good
  <2> HIDE DEF Good
  <2> QED
    BY <1>1, <1>2, UpTo
<1> QED
  BY <1>3

-----------------------------------------------------------------------------
(* Relations and dependencies, for any number of commands at once *)

\* The rows and the commands keep their types.
RelationTypes ==
    /\ row \in [Relations -> {"absent", "active", "ended"}]
    /\ txn \in [Txns -> Invocation]
    /\ \A t \in Txns : txn[t].phase # "idle" => txn[t].request \in Requests

\* What a command means to end was stored when it looked, and nothing that was
\* stored is ever removed.
EndedWereStored ==
    \A t \in Txns : txn[t].phase # "idle" =>
        \A r \in Relations : r \in txn[t].request.end => row[r] # "absent"

\* A row that was inserted and waits for its commit is new, and nobody else's:
\* the primary key.
InsertedAreNew ==
    /\ \A t \in Txns : txn[t].phase = "inserted" =>
          \A r \in Relations : r \in txn[t].request.make => row[r] = "absent"
    /\ \A t, u \in Txns :
          t # u /\ txn[t].phase = "inserted" /\ txn[u].phase = "inserted" =>
              \A r \in Relations : ~ (r \in txn[t].request.make /\ r \in txn[u].request.make)

RelationsInv == RelationTypes /\ EndedWereStored /\ InsertedAreNew

\* Every step keeps the invariant: commits change what they hold locked, and
\* nothing else changes a row.
LEMMA RelationsStep == RelationsInv /\ [Next]_vars => RelationsInv'
<1> SUFFICES ASSUME RelationsInv, [Next]_vars PROVE RelationsInv'
  OBVIOUS
<1> USE RequestsAreSingle
<1>0. /\ row \in [Relations -> {"absent", "active", "ended"}]
      /\ txn \in [Txns -> Invocation]
  BY DEF RelationsInv, RelationTypes
<1>1. ASSUME NEW t \in Txns, NEW q \in Requests, Check(t, q) PROVE RelationsInv'
  <2>1. /\ txn'[t].phase = "checked" /\ txn'[t].request = q
        /\ \A u \in Txns : u # t => txn'[u] = txn[u]
        /\ row' = row
        /\ \A r \in Relations : r \in q.end => row[r] = "active"
    BY <1>0, <1>1 DEF Check, Active, Invocation
  <2>2. txn' \in [Txns -> Invocation]
    BY <1>0, <1>1 DEF Check, Phase, Invocation
  <2> QED
    BY <2>1, <2>2 DEF RelationsInv, RelationTypes, EndedWereStored, InsertedAreNew
<1>2. ASSUME NEW t \in Txns, EndRow(t) PROVE RelationsInv'
  <2>1. /\ txn[t].phase = "checked"
        /\ txn'[t].phase = "ended" /\ txn'[t].request = txn[t].request
        /\ \A u \in Txns : u # t => txn'[u] = txn[u]
        /\ row' = row
    BY <1>0, <1>2 DEF EndRow, Invocation
  <2>2. txn' \in [Txns -> Invocation]
    BY <1>0, <1>2 DEF EndRow, Phase, Invocation
  <2>3. RelationTypes'
    BY <2>1, <2>2 DEF RelationsInv, RelationTypes
  <2>4. EndedWereStored'
    BY <2>1 DEF RelationsInv, EndedWereStored
  <2>5. InsertedAreNew'
    BY <2>1 DEF RelationsInv, InsertedAreNew
  <2> QED
    BY <2>3, <2>4, <2>5 DEF RelationsInv
<1>3. ASSUME NEW t \in Txns, InsertRow(t) PROVE RelationsInv'
  <2>1. /\ txn[t].phase # "idle"
        /\ txn'[t].phase = "inserted" /\ txn'[t].request = txn[t].request
        /\ \A u \in Txns : u # t => txn'[u] = txn[u]
        /\ row' = row
        /\ \A r \in Relations : r \in txn[t].request.make => row[r] = "absent"
        /\ \A u \in Txns : txn[u].phase = "inserted" =>
              txn[u].request.make \intersect txn[t].request.make = {}
    BY <1>0, <1>3 DEF InsertRow, Insertable, InPhase, Invocation
  <2>2. txn' \in [Txns -> Invocation]
    BY <1>0, <1>3 DEF InsertRow, Phase, Invocation
  <2>3. RelationTypes'
    BY <2>1, <2>2 DEF RelationsInv, RelationTypes
  <2>4. EndedWereStored'
    BY <2>1 DEF RelationsInv, EndedWereStored
  <2>5. InsertedAreNew'
    BY <2>1 DEF RelationsInv, InsertedAreNew
  <2> QED
    BY <2>3, <2>4, <2>5 DEF RelationsInv
<1>4. ASSUME NEW t \in Txns, Commit(t) PROVE RelationsInv'
  <2> DEFINE q == txn[t].request
  <2>1. /\ txn[t].phase \in {"inserted", "ended"}
        /\ txn[t].phase = "inserted" \/ q.make = {}
        /\ txn'[t].phase = "idle"
        /\ \A u \in Txns : u # t => txn'[u].phase = txn[u].phase /\ txn'[u].request = txn[u].request
        /\ \A r \in Relations : row'[r] = IF r \in q.make THEN "active"
                                          ELSE IF r \in q.end THEN "ended" ELSE row[r]
    BY <1>0, <1>4 DEF Commit, Idle, Invocation
  <2>2. /\ txn' \in [Txns -> Invocation]
        /\ row' \in [Relations -> {"absent", "active", "ended"}]
    <3>1. q \in Requests
      BY <1>4, <2>1 DEF RelationsInv, RelationTypes
    <3>2. DependsOn(q.make) \subseteq Relations
      BY <3>1 DEF DependsOn, Request
    <3>3. Idle \in Invocation
      BY DEF Idle, Invocation, Phase
    <3>4. \A u \in Txns : txn[u] \in Invocation
      BY <1>0
    <3>5. \A u \in Txns : [txn[u] EXCEPT !.missed = @ \union DependsOn(q.make)] \in Invocation
      BY <3>2, <3>4 DEF Invocation
    <3>6. \A u \in Txns : txn'[u] \in Invocation
      BY <1>4, <3>3, <3>4, <3>5 DEF Commit
    <3> QED
      BY <1>0, <1>4, <3>6 DEF Commit
  <2>3. RelationTypes'
    BY <2>1, <2>2 DEF RelationsInv, RelationTypes
  <2>4. EndedWereStored'
    BY <2>1 DEF RelationsInv, EndedWereStored
  <2>5. ASSUME NEW u \in Txns, txn'[u].phase = "inserted", NEW r \in Relations,
               r \in txn'[u].request.make
        PROVE  row'[r] = "absent"
    <3>1. u # t /\ txn[u].phase = "inserted" /\ r \in txn[u].request.make
      BY <2>1, <2>5
    <3>2. row[r] = "absent"
      BY <3>1 DEF RelationsInv, InsertedAreNew
    <3>3. r \notin q.make
      BY <2>1, <3>1 DEF RelationsInv, InsertedAreNew
    <3>4. r \notin q.end
      BY <2>1, <3>2 DEF RelationsInv, EndedWereStored
    <3> QED
      BY <2>1, <3>2, <3>3, <3>4
  <2>6. InsertedAreNew'
    BY <2>1, <2>5 DEF RelationsInv, InsertedAreNew
  <2> QED
    BY <2>3, <2>4, <2>6 DEF RelationsInv
<1>5. ASSUME NEW t \in Txns, Abort(t) PROVE RelationsInv'
  <2>1. /\ txn'[t].phase = "idle" /\ row' = row
        /\ \A u \in Txns : u # t => txn'[u] = txn[u]
    BY <1>0, <1>5 DEF Abort, Idle, Invocation
  <2>2. txn' \in [Txns -> Invocation]
    BY <1>0, <1>5 DEF Abort, Idle, Phase, Invocation
  <2> QED
    BY <2>1, <2>2 DEF RelationsInv, RelationTypes, EndedWereStored, InsertedAreNew
<1>6. CASE UNCHANGED vars
  BY <1>6 DEF vars, RelationsInv, RelationTypes, EndedWereStored, InsertedAreNew
<1> QED
  BY <1>1, <1>2, <1>3, <1>4, <1>5, <1>6 DEF Next

\* At the beginning no relation is stored and no command runs.
LEMMA RelationsBegin == Init => RelationsInv
<1> SUFFICES ASSUME Init PROVE RelationsInv
  OBVIOUS
<1>1. \A t \in Txns : txn[t].phase = "idle"
  BY DEF Init, Idle
<1>2. RelationTypes
  BY <1>1 DEF Init, RelationTypes, Idle, Phase, Invocation
<1> QED
  BY <1>1, <1>2 DEF RelationsInv, EndedWereStored, InsertedAreNew

\* What is stored was there before it was ended, and what is inserted is new.
THEOREM RelationsAreLocked == Spec => []RelationsInv
BY RelationsBegin, RelationsStep, PTL DEF Spec

\* A relation that was ended stays ended, whatever other commands decided
\* before it was and write after it (createClaimRelation, replaceClaimRelation,
\* endClaimRelation, the primary key of claim_relations).
THEOREM HistoryIsKept == Spec => EndedStaysEnded
<1>1. RelationsInv /\ [Next]_vars =>
        [\A r \in Relations : row[r] = "ended" => row'[r] = "ended"]_vars
  <2> SUFFICES ASSUME RelationsInv, Next, NEW r \in Relations, row[r] = "ended"
               PROVE  row'[r] = "ended"
    BY DEF vars
  <2>1. ASSUME NEW t \in Txns, Commit(t) PROVE row'[r] = "ended"
    <3>1. txn[t].phase = "inserted" \/ txn[t].request.make = {}
      BY <2>1 DEF Commit
    <3>2. r \notin txn[t].request.make
      BY <3>1 DEF RelationsInv, InsertedAreNew
    <3> QED
      BY <2>1, <3>2 DEF Commit
  <2>2. ASSUME NEW t \in Txns, EndRow(t) \/ InsertRow(t) \/ Abort(t) PROVE row' = row
    BY <2>2 DEF EndRow, InsertRow, Abort
  <2>3. ASSUME NEW t \in Txns, NEW q \in Requests, Check(t, q) PROVE row' = row
    BY <2>3 DEF Check
  <2> QED
    BY <2>1, <2>2, <2>3 DEF Next
<1> QED
  BY <1>1, RelationsAreLocked, PTL DEF Spec, EndedStaysEnded

-----------------------------------------------------------------------------
(* The order of dependencies *)

\* Visited is as many rounds of a search as there are nodes.
LEMMA VisitedInRounds ==
    ASSUME NEW edges, NEW from
    PROVE  /\ Cardinality(Nodes) \in Nat
           /\ \E f : /\ Rounds(edges, from, Cardinality(Nodes), f)
                     /\ Visited(edges, from) = f[Cardinality(Nodes)]
<1>1. Cardinality(Nodes) \in Nat
  BY NodesAreFinite, FS_CardinalityType
<1>2. Visited(edges, from) = Search(edges, from, Cardinality(Nodes))[Cardinality(Nodes)]
  BY DEF Visited, Search, Onto
<1> QED
  BY <1>1, <1>2, SearchIsInRounds

\* After as many rounds as there are nodes a search has come to its end: it
\* found one node more in each round, until one that found none.
LEMMA SearchesEnd ==
    ASSUME NEW edges, \A e \in edges : e.target \in Nodes, NEW from \in Nodes
    PROVE  /\ from \in Visited(edges, from)
           /\ \A e \in edges : e.source \in Visited(edges, from) => e.target \in Visited(edges, from)
<1> DEFINE n == Cardinality(Nodes)
<1>1. PICK f : Rounds(edges, from, n, f) /\ Visited(edges, from) = f[n]
  BY VisitedInRounds
<1>2. n \in Nat
  BY VisitedInRounds
<1> HIDE DEF n
<1> DEFINE Good == {i \in 0 .. n : /\ f[i] \subseteq Nodes /\ from \in f[i]
                                   /\ Onto(edges, f[i]) = f[i] \/ Cardinality(f[i]) >= i + 1}
<1>3. 0 \in Good
  <2>1. Cardinality({from}) = 1
    BY FS_Singleton
  <2>2. f[0] = {from} /\ 0 \in 0 .. n
    BY <1>1, <1>2 DEF Rounds
  <2>3. Cardinality(f[0]) >= 0 + 1
    BY <2>1, <2>2
  <2> QED
    BY <2>2, <2>3
<1>4. ASSUME NEW m \in 1 .. n, m - 1 \in Good
      PROVE  m \in Good
  <2>1. m \in 0 .. n /\ m \in Nat /\ f[m] = Onto(edges, f[m - 1])
    BY <1>1, <1>2 DEF Rounds
  <2>2. f[m - 1] \subseteq Nodes /\ from \in f[m - 1]
    BY <1>4
  <2>3. f[m - 1] \subseteq f[m] /\ f[m] \subseteq Nodes
    BY <2>1, <2>2 DEF Onto
  <2>4. CASE f[m] = f[m - 1]
    BY <2>1, <2>2, <2>4
  <2>5. CASE f[m] # f[m - 1]
    <3>1. Cardinality(f[m - 1]) >= (m - 1) + 1
      BY <1>4, <2>1, <2>5
    <3>2. IsFiniteSet(f[m])
      BY <2>3, NodesAreFinite, FS_Subset
    <3>3. /\ Cardinality(f[m]) \in Nat /\ Cardinality(f[m - 1]) \in Nat
          /\ Cardinality(f[m - 1]) < Cardinality(f[m])
      <4>1. IsFiniteSet(f[m - 1])
        BY <2>3, <3>2, FS_Subset
      <4> QED
        BY <2>3, <2>5, <3>2, <4>1, FS_Subset, FS_CardinalityType
    <3> QED
      BY <2>1, <2>2, <2>3, <3>1, <3>3
  <2> QED
    BY <2>4, <2>5
<1>5. n \in Good
  <2> HIDE DEF Good
  <2> QED
    BY <1>2, <1>3, <1>4, UpTo
<1>6. Cardinality(f[n]) <= n /\ Cardinality(f[n]) \in Nat
  <2>1. f[n] \subseteq Nodes
    BY <1>5
  <2> QED
    BY <2>1, NodesAreFinite, FS_Subset, FS_CardinalityType DEF n
<1>7. Onto(edges, f[n]) = f[n] /\ from \in f[n]
  BY <1>2, <1>5, <1>6
<1> QED
  BY <1>1, <1>7 DEF Onto

\* Nodes that have heights have an order.
LEMMA HeightsAreOrders ==
    ASSUME NEW height \in [Nodes -> Nat]
    PROVE  \E order \in [Nodes -> 1 .. Cardinality(Nodes)] :
              \A x, y \in Nodes : height[x] < height[y] => order[x] < order[y]
<1> DEFINE Below(x) == {y \in Nodes : height[y] < height[x]}
<1> DEFINE order == [x \in Nodes |-> Cardinality(Below(x)) + 1]
<1>1. Cardinality(Nodes) \in Nat
  BY NodesAreFinite, FS_CardinalityType
<1>2. ASSUME NEW x \in Nodes
      PROVE  /\ IsFiniteSet(Below(x)) /\ Cardinality(Below(x)) \in Nat
             /\ Cardinality(Below(x)) < Cardinality(Nodes)
  <2>1. Below(x) \subseteq Nodes /\ x \notin Below(x)
    OBVIOUS
  <2>2. Below(x) # Nodes
    BY <2>1
  <2> HIDE DEF Below
  <2>3. IsFiniteSet(Below(x)) /\ Cardinality(Below(x)) \in Nat
    BY <2>1, NodesAreFinite, FS_Subset, FS_CardinalityType
  <2> QED
    BY <1>1, <2>1, <2>2, <2>3, NodesAreFinite, FS_Subset
<1>3. ASSUME NEW x \in Nodes, NEW y \in Nodes, height[x] < height[y]
      PROVE  Cardinality(Below(x)) < Cardinality(Below(y))
  <2>1. Below(x) \subseteq Below(y) /\ x \in Below(y) /\ x \notin Below(x)
    BY <1>3
  <2>2. Below(x) # Below(y)
    BY <2>1
  <2>3. IsFiniteSet(Below(x)) /\ IsFiniteSet(Below(y))
    BY <1>2
  <2> HIDE DEF Below
  <2> QED
    BY <1>2, <2>1, <2>2, <2>3, FS_Subset
<1> HIDE DEF Below
<1>4. order \in [Nodes -> 1 .. Cardinality(Nodes)]
  BY <1>1, <1>2
<1>5. \A x, y \in Nodes : height[x] < height[y] => order[x] < order[y]
  BY <1>2, <1>3
<1> HIDE DEF order
<1> QED
  BY <1>4, <1>5

\* An edge that closes no path back to its source leaves an order: what its
\* target leads to comes first, all else after it.
LEMMA EdgesKeepOrder ==
    ASSUME NEW edges \in SUBSET Relations, Ordered(edges), NEW r \in Relations,
           ~ HasPath(edges, r.target, r.source)
    PROVE  Ordered(edges \union {r})
<1>1. PICK order \in [Nodes -> 1 .. Cardinality(Nodes)] :
         \A d \in edges : order[d.target] < order[d.source]
  BY DEF Ordered
<1>2. Cardinality(Nodes) \in Nat
  BY NodesAreFinite, FS_CardinalityType
<1>3. \A d \in edges \union {r} : d.source \in Nodes /\ d.target \in Nodes
  BY RelationsJoinNodes DEF Relation
<1> DEFINE first == Visited(edges, r.target)
<1>4. /\ r.target \in first /\ r.source \notin first
      /\ \A e \in edges : e.source \in first => e.target \in first
  <2>1. r.target \in Nodes /\ \A e \in edges : e.target \in Nodes
    BY <1>3
  <2> QED
    BY <2>1, SearchesEnd DEF HasPath
<1> HIDE DEF first
<1> DEFINE height == [x \in Nodes |-> IF x \in first THEN order[x] ELSE order[x] + Cardinality(Nodes)]
<1>5. \A x \in Nodes : order[x] \in Nat /\ order[x] >= 1 /\ order[x] <= Cardinality(Nodes)
  BY <1>2
<1>6. height \in [Nodes -> Nat]
  BY <1>2, <1>5
<1>7. \A d \in edges \union {r} : height[d.target] < height[d.source]
  <2>1. \A d \in edges : height[d.target] < height[d.source]
    BY <1>1, <1>2, <1>3, <1>4, <1>5
  <2>2. height[r.target] < height[r.source]
    BY <1>2, <1>3, <1>4, <1>5
  <2> QED
    BY <2>1, <2>2
<1> HIDE DEF height
<1>8. PICK above \in [Nodes -> 1 .. Cardinality(Nodes)] :
         \A x, y \in Nodes : height[x] < height[y] => above[x] < above[y]
  BY <1>6, HeightsAreOrders
<1> QED
  BY <1>3, <1>7, <1>8 DEF Ordered

\* A path stays when edges are added.
LEMMA VisitsStay ==
    ASSUME NEW few, NEW many, few \subseteq many, NEW from, NEW to, HasPath(few, from, to)
    PROVE  HasPath(many, from, to)
<1>1. PICK f : /\ Rounds(few, from, Cardinality(Nodes), f)
               /\ Visited(few, from) = f[Cardinality(Nodes)]
  BY VisitedInRounds
<1>2. PICK g : /\ Rounds(many, from, Cardinality(Nodes), g)
               /\ Visited(many, from) = g[Cardinality(Nodes)]
  BY VisitedInRounds
<1>3. f[Cardinality(Nodes)] \subseteq g[Cardinality(Nodes)]
  <2>1. Cardinality(Nodes) \in Nat
    BY VisitedInRounds
  <2> HIDE DEF Rounds
  <2> QED
    BY <1>1, <1>2, <2>1, RoundsGrow
<1> QED
  BY <1>1, <1>2, <1>3 DEF HasPath

\* A relation that its command will store closes no path with the dependencies
\* that are active when it has last been looked at, those excepted that the
\* command ends or that were committed since.
PendingClosesNothing ==
    \A t \in Txns : Looked(t) =>
        \A r \in DependsOn(txn[t].request.make) :
            ~ HasPath(DependsOn(Active \ (txn[t].request.end \union txn[t].missed)),
                      r.target, r.source)

OverlapInv == RelationsInv /\ CyclesComeOfOverlaps /\ PendingClosesNothing

\* Fewer edges are as ordered.
LEMMA FewerAreOrdered ==
    ASSUME NEW few, NEW many, few \subseteq many, Ordered(many)
    PROVE  Ordered(few)
BY DEF Ordered

\* What leaves the rows, what is recorded of their commands and every other
\* command alone keeps the invariant, if its own command has last looked at no
\* more than what closes nothing.
LEMMA LookingKeepsOverlaps ==
    ASSUME OverlapInv, RelationsInv', UNCHANGED <<row, passed>>, NEW t \in Txns,
           \A u \in Txns : u # t => txn'[u] = txn[u],
           Looked(t)' =>
              \A r \in DependsOn(txn'[t].request.make) :
                 ~ HasPath(DependsOn(Active \ (txn'[t].request.end \union txn'[t].missed)),
                           r.target, r.source)
    PROVE  OverlapInv'
<1>1. Active' = Active
  BY DEF Active
<1>2. ASSUME NEW u \in Txns, Looked(u)', NEW r \in DependsOn(txn'[u].request.make)
      PROVE  ~ HasPath(DependsOn(Active' \ (txn'[u].request.end \union txn'[u].missed)),
                       r.target, r.source)
  <2>1. CASE u = t
    BY <1>1, <1>2, <2>1
  <2>2. CASE u # t
    <3>1. txn'[u] = txn[u] /\ Looked(u)
      BY <1>2, <2>2 DEF Looked
    <3> QED
      BY <1>1, <1>2, <3>1 DEF OverlapInv, PendingClosesNothing
  <2> QED
    BY <2>1, <2>2
<1>3. PendingClosesNothing'
  BY <1>2 DEF PendingClosesNothing, DependsOn, HasPath, Visited
<1>4. CyclesComeOfOverlaps'
  BY <1>1 DEF OverlapInv, CyclesComeOfOverlaps, DependsOn, Ordered
<1> QED
  BY <1>3, <1>4 DEF OverlapInv

\* A command looks, and so does the trigger.
LEMMA LooksCloseNothing ==
    ASSUME OverlapInv, NEW t \in Txns,
           (\E q \in Requests : Check(t, q)) \/ EndRow(t) \/ InsertRow(t) \/ Abort(t),
           RelationsInv'
    PROVE  OverlapInv'
<1>1. txn \in [Txns -> Invocation]
  BY DEF OverlapInv, RelationsInv, RelationTypes
<1>2. UNCHANGED <<row, passed>> /\ \A u \in Txns : u # t => txn'[u] = txn[u]
  BY <1>1 DEF Check, EndRow, InsertRow, Abort, Idle
<1>3. ASSUME NEW q \in Requests, Check(t, q)
      PROVE  OverlapInv'
  <2>1. /\ txn'[t].phase = "checked" /\ txn'[t].request = q /\ txn'[t].missed = {}
        /\ \A r \in DependsOn(q.make) : ~ HasPath(DependsOn(Active \ q.end), r.target, r.source)
    BY <1>1, <1>3 DEF Check, CanAddDependency
  <2>2. q.end \union {} = q.end
    OBVIOUS
  <2>3. \A r \in DependsOn(txn'[t].request.make) :
           ~ HasPath(DependsOn(Active \ (txn'[t].request.end \union txn'[t].missed)),
                     r.target, r.source)
    BY <2>1, <2>2
  <2> QED
    BY <1>2, <2>3, LookingKeepsOverlaps
<1>4. CASE EndRow(t)
  <2>1. /\ txn'[t].phase = "ended" /\ txn[t].phase = "checked"
        /\ txn'[t].request = txn[t].request /\ txn'[t].missed = txn[t].missed
    BY <1>1, <1>4 DEF EndRow, Invocation
  <2>2. Looked(t)' => Looked(t)
    BY <2>1 DEF Looked
  <2>3. Looked(t)' =>
           \A r \in DependsOn(txn'[t].request.make) :
              ~ HasPath(DependsOn(Active \ (txn'[t].request.end \union txn'[t].missed)),
                        r.target, r.source)
    BY <2>1, <2>2 DEF OverlapInv, PendingClosesNothing
  <2> QED
    BY <1>2, <2>3, LookingKeepsOverlaps
<1>5. CASE InsertRow(t)
  <2>1. /\ (txn[t].phase = "checked" /\ txn[t].request.end = {}) \/ txn[t].phase = "ended"
        /\ Insertable(t)
        /\ txn'[t].phase = "inserted"
        /\ txn'[t].request = txn[t].request /\ txn'[t].missed = txn[t].missed
    BY <1>1, <1>5 DEF InsertRow, Invocation
  <2>2. CASE Trigger
    <3>1. Visible(t) = Active \ txn[t].request.end
      BY <2>1 DEF Visible
    <3>2. \A r \in DependsOn(txn[t].request.make) :
             ~ HasPath(DependsOn(Active \ txn[t].request.end), r.target, r.source)
      BY <2>1, <2>2, <3>1 DEF Insertable, DependsOn
    <3>3. DependsOn(Active \ (txn[t].request.end \union txn[t].missed))
             \subseteq DependsOn(Active \ txn[t].request.end)
      BY DEF DependsOn
    <3>4. \A r \in DependsOn(txn[t].request.make) :
             ~ HasPath(DependsOn(Active \ (txn[t].request.end \union txn[t].missed)),
                       r.target, r.source)
      BY <3>2, <3>3, VisitsStay
    <3> QED
      BY <1>2, <2>1, <3>4, LookingKeepsOverlaps
  <2>3. CASE ~ Trigger
    <3>1. Looked(t)
      BY <2>1, <2>3 DEF Looked
    <3>2. \A r \in DependsOn(txn[t].request.make) :
             ~ HasPath(DependsOn(Active \ (txn[t].request.end \union txn[t].missed)),
                       r.target, r.source)
      BY <3>1 DEF OverlapInv, PendingClosesNothing
    <3> QED
      BY <1>2, <2>1, <3>2, LookingKeepsOverlaps
  <2> QED
    BY <2>2, <2>3
<1>6. CASE Abort(t)
  <2>1. txn'[t].phase = "idle"
    BY <1>1, <1>6 DEF Abort, Idle
  <2>2. ~ Looked(t)'
    BY <2>1 DEF Looked
  <2> QED
    BY <1>2, <2>2, LookingKeepsOverlaps
<1> QED
  BY <1>3, <1>4, <1>5, <1>6

\* A commit puts the pending row among the active ones: with dependencies none
\* of which it passed, it closes no cycle.
LEMMA CommitKeepsOverlaps ==
    ASSUME OverlapInv, NEW t \in Txns, Commit(t), RelationsInv'
    PROVE  OverlapInv'
<1> DEFINE q == txn[t].request
<1>1. /\ txn[t].phase = "inserted" \/ q.make = {}
      /\ txn[t].phase # "idle"
      /\ row' = [r \in Relations |-> IF r \in q.make THEN "active"
                                     ELSE IF r \in q.end THEN "ended" ELSE row[r]]
      /\ passed' = [r \in Relations |->
            {d \in IF r \in q.make THEN txn[t].missed ELSE passed[r] : {d, r} \subseteq Active'}]
  BY DEF Commit
<1>2. /\ txn \in [Txns -> Invocation]
      /\ q \in Requests
  BY <1>1 DEF OverlapInv, RelationsInv, RelationTypes
<1>3. q.make \subseteq Relations /\ \A r, s \in q.make : r = s
  BY <1>2, RequestsAreSingle DEF Request
<1>4. Active' \subseteq (Active \ q.end) \union q.make
  BY <1>1, <1>3 DEF Active
<1>5. ASSUME NEW some \in SUBSET DependsOn(Active'), \A d, e \in some : d \notin passed'[e]
      PROVE  Ordered(some)
  <2>1. \A d \in some : d \in Active' /\ d \in Relations /\ d.type = "depends_on"
    BY DEF DependsOn, Active
  <2> DEFINE old == some \ q.make
  <2>2. Ordered(old)
    <3>1. old \in SUBSET DependsOn(Active)
      BY <1>4, <2>1 DEF DependsOn
    <3>2. \A d, e \in old : d \notin passed[e]
      BY <1>1, <1>5, <2>1
    <3> QED
      BY <3>1, <3>2 DEF OverlapInv, CyclesComeOfOverlaps
  <2>3. CASE some \intersect q.make = {}
    <3>1. some = old
      BY <2>3
    <3> HIDE DEF old
    <3> QED
      BY <2>2, <3>1
  <2>4. CASE some \intersect q.make # {}
    <3>1. PICK r \in some : r \in q.make
      BY <2>4
    <3>2. some = old \union {r} /\ r \in Relations /\ r \in DependsOn(q.make)
      BY <1>3, <2>1, <3>1 DEF DependsOn
    <3>3. \A d \in old : d \notin txn[t].missed
      BY <1>1, <1>5, <2>1, <3>1
    <3>4. old \subseteq DependsOn(Active \ (q.end \union txn[t].missed))
      BY <1>4, <2>1, <3>3 DEF DependsOn
    <3>5. Looked(t)
      BY <1>1, <3>1 DEF Looked
    <3>6. ~ HasPath(DependsOn(Active \ (q.end \union txn[t].missed)), r.target, r.source)
      BY <3>2, <3>5 DEF OverlapInv, PendingClosesNothing
    <3>7. old \in SUBSET Relations
      BY <2>1
    <3> HIDE DEF old, q
    <3>8. ~ HasPath(old, r.target, r.source)
      BY <3>4, <3>6, VisitsStay
    <3> QED
      BY <2>2, <3>2, <3>7, <3>8, EdgesKeepOrder
  <2> QED
    BY <2>3, <2>4
<1>6. CyclesComeOfOverlaps'
  BY <1>5 DEF CyclesComeOfOverlaps, DependsOn, Ordered
<1>7. ASSUME NEW u \in Txns, Looked(u)', NEW r \in DependsOn(txn'[u].request.make)
      PROVE  ~ HasPath(DependsOn(Active' \ (txn'[u].request.end \union txn'[u].missed)),
                       r.target, r.source)
  <2>1. txn'[t].phase = "idle"
    BY <1>2 DEF Commit, Idle
  <2>2. u # t
    BY <1>7, <2>1 DEF Looked
  <2>3. txn'[u].phase = txn[u].phase /\ txn'[u].request = txn[u].request
    BY <1>2, <2>2 DEF Commit, Invocation
  <2>4. Looked(u)
    BY <1>7, <2>3 DEF Looked
  <2>5. txn'[u].missed = txn[u].missed \union DependsOn(q.make)
    BY <1>2, <2>2, <2>4 DEF Commit, Invocation
  <2>6. ~ HasPath(DependsOn(Active \ (txn[u].request.end \union txn[u].missed)),
                  r.target, r.source)
    BY <1>7, <2>3, <2>4 DEF OverlapInv, PendingClosesNothing
  <2>7. DependsOn(Active' \ (txn'[u].request.end \union txn'[u].missed))
           \subseteq DependsOn(Active \ (txn[u].request.end \union txn[u].missed))
    BY <1>4, <2>3, <2>5 DEF DependsOn
  <2> QED
    BY <2>6, <2>7, VisitsStay
<1>8. PendingClosesNothing'
  BY <1>7 DEF PendingClosesNothing, DependsOn, HasPath, Visited
<1> QED
  BY <1>6, <1>8 DEF OverlapInv

\* Each step keeps the invariant.
LEMMA OverlapStep == OverlapInv /\ [Next]_vars => OverlapInv'
<1> SUFFICES ASSUME OverlapInv, [Next]_vars
             PROVE  OverlapInv'
  OBVIOUS
<1>1. RelationsInv'
  BY RelationsStep DEF OverlapInv
<1>2. CASE Next
  BY <1>1, <1>2, LooksCloseNothing, CommitKeepsOverlaps DEF Next
<1>3. CASE UNCHANGED vars
  <2>1. UNCHANGED <<row, txn, passed>> /\ Active' = Active
    BY <1>3 DEF vars, Active
  <2>2. CyclesComeOfOverlaps'
    BY <2>1 DEF OverlapInv, CyclesComeOfOverlaps, DependsOn, Ordered
  <2>3. PendingClosesNothing'
    <3>1. ASSUME NEW u \in Txns, Looked(u)', NEW r \in DependsOn(txn'[u].request.make)
          PROVE  ~ HasPath(DependsOn(Active' \ (txn'[u].request.end \union txn'[u].missed)),
                           r.target, r.source)
      <4>1. Looked(u)
        BY <2>1, <3>1 DEF Looked
      <4> QED
        BY <2>1, <3>1, <4>1 DEF OverlapInv, PendingClosesNothing
    <3> QED
      BY <3>1 DEF PendingClosesNothing, DependsOn, HasPath, Visited
  <2> QED
    BY <1>1, <2>2, <2>3 DEF OverlapInv
<1> QED
  BY <1>2, <1>3

\* No relation is an order of any nodes.
LEMMA NothingIsOrdered == Ordered({})
<1>1. Cardinality(Nodes) \in Nat
  BY NodesAreFinite, FS_CardinalityType
<1> DEFINE height == [x \in Nodes |-> 0]
<1>2. height \in [Nodes -> Nat]
  OBVIOUS
<1> HIDE DEF height
<1>3. \E order : order \in [Nodes -> 1 .. Cardinality(Nodes)]
  BY <1>2, HeightsAreOrders
<1> QED
  BY <1>3 DEF Ordered

\* At the beginning nothing is related.
LEMMA OverlapInit == Init => OverlapInv
<1> SUFFICES ASSUME Init
             PROVE  OverlapInv
  OBVIOUS
<1>1. DependsOn(Active) = {}
  BY DEF Init, DependsOn, Active
<1>2. \A t \in Txns : ~ Looked(t)
  BY DEF Init, Idle, Looked
<1>3. RelationsInv
  BY RelationsBegin
<1>4. \A some \in SUBSET DependsOn(Active) : Ordered(some)
  BY <1>1, NothingIsOrdered, FewerAreOrdered
<1> QED
  BY <1>2, <1>3, <1>4 DEF OverlapInv, PendingClosesNothing, CyclesComeOfOverlaps

\* With the trigger or without it, and under any number of commands that
\* create, end and replace relations across one another, a cycle of
\* dependencies comes of two commands that overlapped: one was committed after
\* the last look for a cycle with the other (createClaimRelation,
\* replaceClaimRelation, endClaimRelation, addTaskDependency,
\* assert_claim_dependency_acyclic).
THEOREM OnlyOverlapsCloseCycles == Spec => []CyclesComeOfOverlaps
<1>1. OverlapInv => CyclesComeOfOverlaps
  BY DEF OverlapInv
<1> QED
  BY <1>1, OverlapStep, OverlapInit, PTL DEF Spec

-----------------------------------------------------------------------------
(* The impact of a Challenge *)

\* The jobs read the relations and leave them to the commands, so that all that
\* is proved of the commands holds while the jobs run.
THEOREM JobsLeaveRelations == ImpactSpec => Spec
<1>1. ImpactInit => Init
  BY DEF ImpactInit
<1>2. [ImpactNext]_<<vars, impactVars>> => [Next]_vars
  <2> SUFFICES ASSUME [ImpactNext]_<<vars, impactVars>>
               PROVE  [Next]_vars
    OBVIOUS
  <2>1. CASE Rule \/ (\E c \in Closing : Close(c)) \/ UNCHANGED <<vars, impactVars>>
    BY <2>1 DEF Rule, Close
  <2>2. CASE \E j \in Jobs : JobStep(j)
    BY <2>2 DEF JobStep, Start, Walk, EndPhase, ReadClaim, MarkTainted, ListTasks, CreateTask, Fail
  <2>3. CASE Command
    BY <2>3 DEF Command
  <2> QED
    BY <2>1, <2>2, <2>3 DEF ImpactNext
<1> QED
  BY <1>1, <1>2, PTL DEF ImpactSpec, Spec

\* The rows of the jobs keep their types.
ImpactTypes ==
    /\ job \in [Jobs -> Job]
    /\ row \in [Relations -> {"absent", "active", "ended"}]

\* What a walk has got to, it has searched from or will; the dependencies that
\* stood throughout are still there to be found.
WalksSearch ==
    \A j \in Jobs : job[j].phase = "walking" =>
        /\ Target \in job[j].found /\ job[j].todo \subseteq job[j].found
        /\ job[j].standing \subseteq DependsOn(Active)
        /\ \A r \in job[j].standing :
              r.target \in job[j].found \ job[j].todo => r.source \in job[j].found

WalkInv == ImpactTypes /\ WalksSearch

\* The rows keep their types under any command, and what still stands is active.
LEMMA CommandKeepsWalks ==
    ASSUME WalkInv, Command
    PROVE  WalkInv'
<1>1. row' \in [Relations -> {"absent", "active", "ended"}]
  BY DEF Command, Next, Check, EndRow, InsertRow, Commit, Abort, WalkInv, ImpactTypes
<1>2. job' = [j \in Jobs |-> [job[j] EXCEPT !.standing = @ \intersect Active']]
  BY DEF Command
<1>3. ASSUME NEW j \in Jobs
      PROVE  /\ job'[j] \in Job
             /\ job'[j].phase = job[j].phase /\ job'[j].found = job[j].found
             /\ job'[j].todo = job[j].todo
             /\ job'[j].standing = job[j].standing \intersect Active'
  <2>1. job[j] \in Job
    BY DEF WalkInv, ImpactTypes
  <2>2. job'[j] = [job[j] EXCEPT !.standing = @ \intersect Active']
    BY <1>2
  <2> QED
    BY <2>1, <2>2 DEF Job
<1>4. ImpactTypes'
  <2>1. job' \in [Jobs -> Job]
    BY <1>2, <1>3
  <2> QED
    BY <1>1, <2>1 DEF ImpactTypes
<1>5. \A j \in Jobs : job[j].phase = "walking" => job'[j].standing \subseteq DependsOn(Active')
  BY <1>3 DEF WalkInv, WalksSearch, DependsOn
<1>6. WalksSearch'
  BY <1>3, <1>5 DEF WalkInv, WalksSearch, DependsOn
<1> QED
  BY <1>4, <1>6 DEF WalkInv

\* A step of one job leaves the others as they are.
LEMMA OneJobKeepsWalks ==
    ASSUME WalkInv, UNCHANGED vars, NEW j \in Jobs, NEW after \in Job,
           job' = [job EXCEPT ![j] = after],
           after.phase = "walking" =>
              /\ Target \in after.found /\ after.todo \subseteq after.found
              /\ after.standing \subseteq DependsOn(Active)
              /\ \A r \in after.standing :
                    r.target \in after.found \ after.todo => r.source \in after.found
    PROVE  WalkInv'
<1>1. UNCHANGED row /\ Active' = Active
  BY DEF vars, Active
<1>2. job'[j] = after /\ \A k \in Jobs : k # j => job'[k] = job[k]
  BY DEF WalkInv, ImpactTypes
<1>3. ImpactTypes'
  BY <1>1 DEF WalkInv, ImpactTypes
<1>4. WalksSearch'
  BY <1>1, <1>2 DEF WalkInv, WalksSearch, DependsOn
<1> QED
  BY <1>3, <1>4 DEF WalkInv

\* After the walk a job does not walk.
LEMMA LaterStepsWalkNot ==
    ASSUME ImpactTypes, NEW j \in Jobs, JobStep(j), ~ Start(j), ~ Walk(j)
    PROVE  \E after \in Job : job' = [job EXCEPT ![j] = after] /\ after.phase # "walking"
<1>1. job[j] \in Job /\ job \in [Jobs -> Job]
  BY DEF ImpactTypes
<1>2. ASSUME EndPhase(j)
      PROVE  \E after \in Job : job' = [job EXCEPT ![j] = after] /\ after.phase # "walking"
  <2> DEFINE next == Following[job[j].phase]
  <2> DEFINE todo == IF next = "done" THEN {} ELSE Impacted(j)
  <2> DEFINE after == [job[j] EXCEPT !.phase = next, !.standing = {}, !.todo = todo]
  <2>1. next \in {"tainting", "tasking", "done"}
    BY <1>2 DEF EndPhase, Following
  <2>2. todo \subseteq Nodes
    BY <1>1 DEF Job, Impacted
  <2>3. job' = [job EXCEPT ![j].phase = next, ![j].standing = {}, ![j].todo = todo]
    BY <1>2 DEF EndPhase
  <2> HIDE DEF next, todo
  <2>4. job' = [job EXCEPT ![j] = after]
    BY <1>1, <2>3 DEF Job
  <2>5. after \in Job /\ after.phase # "walking"
    BY <1>1, <2>1, <2>2 DEF Job, JobPhase
  <2> QED
    BY <2>4, <2>5
<1>3. ASSUME NEW c \in job[j].todo, NEW needed \in BOOLEAN, NEW phase \in {"marking", "creating"},
             Visit(j, c, needed, phase), job[j].phase # "walking"
      PROVE  \E after \in Job : job' = [job EXCEPT ![j] = after] /\ after.phase # "walking"
  <2> DEFINE then == IF needed THEN phase ELSE job[j].phase
  <2> DEFINE claim == IF needed THEN c ELSE NoClaim
  <2> DEFINE after == [job[j] EXCEPT !.todo = @ \ {c}, !.phase = then, !.claim = claim]
  <2>1. then \in JobPhase /\ then # "walking" /\ claim \in Nodes \union {NoClaim}
    BY <1>1, <1>3 DEF Job, JobPhase
  <2>2. job' = [job EXCEPT ![j].todo = @ \ {c}, ![j].phase = then, ![j].claim = claim]
    BY <1>3 DEF Visit
  <2> HIDE DEF then, claim
  <2>3. job' = [job EXCEPT ![j] = after]
    BY <1>1, <2>2 DEF Job
  <2>4. after \in Job /\ after.phase # "walking"
    BY <1>1, <2>1 DEF Job
  <2> QED
    BY <2>3, <2>4
<1>4. ASSUME ReadClaim(j)
      PROVE  \E after \in Job : job' = [job EXCEPT ![j] = after] /\ after.phase # "walking"
  <2>1. PICK c \in job[j].todo : Visit(j, c, state[c] # "dependency_tainted", "marking")
    BY <1>4 DEF ReadClaim
  <2> QED
    BY <1>3, <1>4, <2>1 DEF ReadClaim
<1>5. ASSUME ListTasks(j)
      PROVE  \E after \in Job : job' = [job EXCEPT ![j] = after] /\ after.phase # "walking"
  <2>1. PICK c \in job[j].todo : Visit(j, c, task[c] = 0, "creating")
    BY <1>5 DEF ListTasks
  <2> QED
    BY <1>3, <1>5, <2>1 DEF ListTasks
<1>6. ASSUME MarkTainted(j) \/ CreateTask(j)
      PROVE  \E after \in Job : job' = [job EXCEPT ![j] = after] /\ after.phase # "walking"
  <2>1. PICK phase \in {"tainting", "tasking"} :
           job' = [job EXCEPT ![j].phase = phase, ![j].claim = NoClaim]
    BY <1>6 DEF MarkTainted, CreateTask, Done
  <2> DEFINE after == [job[j] EXCEPT !.phase = phase, !.claim = NoClaim]
  <2>2. job' = [job EXCEPT ![j] = after]
    BY <1>1, <2>1 DEF Job
  <2>3. after \in Job /\ after.phase # "walking"
    BY <1>1 DEF Job, JobPhase
  <2> QED
    BY <2>2, <2>3
<1>7. ASSUME Fail(j)
      PROVE  \E after \in Job : job' = [job EXCEPT ![j] = after] /\ after.phase # "walking"
  <2>1. NoJob \in Job /\ NoJob.phase # "walking"
    BY DEF NoJob, Job, JobPhase
  <2> QED
    BY <1>7, <2>1 DEF Fail
<1> QED
  BY <1>2, <1>4, <1>5, <1>6, <1>7 DEF JobStep

\* A job that ends, fails or goes on after its walk walks no longer.
LEMMA WalkersKeepWalks ==
    ASSUME WalkInv, NEW j \in Jobs, JobStep(j)
    PROVE  WalkInv'
<1>1. job[j] \in Job /\ UNCHANGED vars
  BY DEF WalkInv, ImpactTypes, JobStep, Start, Walk, EndPhase, ReadClaim, MarkTainted, ListTasks,
         CreateTask, Fail
<1>2. CASE Start(j)
  <2> DEFINE after == IF ruling = "upheld"
          THEN [phase |-> "walking", found |-> {Target}, todo |-> {Target},
                claim |-> NoClaim, standing |-> DependsOn(Active)]
          ELSE [NoJob EXCEPT !.phase = "done"]
  <2>1. job' = [job EXCEPT ![j] = after]
    BY <1>2 DEF Start
  <2>2. after \in Job
    BY TargetIsAClaim DEF Job, JobPhase, NoJob, DependsOn, Active
  <2>3. after.phase = "walking" => /\ after.found = {Target} /\ after.todo = {Target}
                                   /\ after.standing = DependsOn(Active)
    BY DEF NoJob
  <2> HIDE DEF after
  <2> QED
    BY <1>1, <2>1, <2>2, <2>3, OneJobKeepsWalks
<1>3. CASE Walk(j)
  <2>1. job[j].phase = "walking"
    BY <1>3 DEF Walk
  <2>2. PICK c \in job[j].todo :
           job' = [job EXCEPT
                     ![j].todo = (@ \ {c}) \union (DirectDependents(c) \ job[j].found),
                     ![j].found = @ \union (DirectDependents(c) \ job[j].found)]
    BY <1>3 DEF Walk
  <2> DEFINE new == DirectDependents(c) \ job[j].found
  <2> DEFINE after == [job[j] EXCEPT !.todo = (@ \ {c}) \union new, !.found = @ \union new]
  <2>3. new \subseteq Nodes
    BY RelationsJoinNodes DEF DirectDependents, DependsOn, Active, Relation
  <2>4. \A r \in DependsOn(Active) : r.target = c => r.source \in job[j].found \union new
    BY DEF DirectDependents
  <2> HIDE DEF new
  <2>5. /\ after \in Job /\ after.phase = "walking"
        /\ after.todo = (job[j].todo \ {c}) \union new /\ after.found = job[j].found \union new
        /\ after.standing = job[j].standing
    BY <1>1, <2>1, <2>3 DEF Job
  <2>6. job' = [job EXCEPT ![j] = after]
    BY <1>1, <2>2 DEF WalkInv, ImpactTypes, Job, new
  <2>7. /\ Target \in job[j].found /\ job[j].todo \subseteq job[j].found
        /\ job[j].standing \subseteq DependsOn(Active)
        /\ \A r \in job[j].standing :
              r.target \in job[j].found \ job[j].todo => r.source \in job[j].found
    BY <2>1 DEF WalkInv, WalksSearch
  <2> HIDE DEF after
  <2>8. ASSUME NEW r \in after.standing, r.target \in after.found \ after.todo
        PROVE  r.source \in after.found
    <3>1. CASE r.target = c
      BY <2>4, <2>5, <2>7, <2>8, <3>1
    <3>2. CASE r.target # c
      BY <2>5, <2>7, <2>8, <3>2
    <3> QED
      BY <3>1, <3>2
  <2> QED
    BY <1>1, <2>5, <2>6, <2>7, <2>8, OneJobKeepsWalks
<1>4. CASE ~ Start(j) /\ ~ Walk(j)
  <2>1. PICK after \in Job : job' = [job EXCEPT ![j] = after] /\ after.phase # "walking"
    BY <1>1, <1>4, LaterStepsWalkNot DEF WalkInv
  <2> QED
    BY <1>1, <2>1, OneJobKeepsWalks
<1> QED
  BY <1>2, <1>3, <1>4

\* What a walk has not found leads to nothing it has found, when it has no
\* Claim left to search from.
LEMMA EndedWalksAreComplete ==
    ASSUME WalkInv
    PROVE  WalksAreComplete
<1>1. SUFFICES ASSUME NEW j \in Jobs, job[j].phase = "walking", job[j].todo = {}, NEW c \in Nodes,
                      HasPath(job[j].standing, c, Target), c \notin job[j].found
               PROVE  FALSE
  BY DEF WalksAreComplete
<1> DEFINE n == Cardinality(Nodes)
<1>2. n \in Nat
  BY VisitedInRounds
<1>3. PICK f : Rounds(job[j].standing, c, n, f) /\ Visited(job[j].standing, c) = f[n]
  BY VisitedInRounds
<1> HIDE DEF n
<1>4. /\ Target \in job[j].found
      /\ \A r \in job[j].standing : r.target \in job[j].found => r.source \in job[j].found
  BY <1>1 DEF WalkInv, WalksSearch
<1> DEFINE Good == {i \in 0 .. n : f[i] \intersect job[j].found = {}}
<1>5. 0 \in Good
  BY <1>1, <1>2, <1>3 DEF Rounds
<1>6. ASSUME NEW m \in 1 .. n, m - 1 \in Good
      PROVE  m \in Good
  <2>1. f[m] = Onto(job[j].standing, f[m - 1]) /\ m \in 0 .. n
    BY <1>2, <1>3 DEF Rounds
  <2>2. f[m - 1] \intersect job[j].found = {}
    BY <1>6
  <2>3. Onto(job[j].standing, f[m - 1]) \intersect job[j].found = {}
    BY <1>4, <2>2 DEF Onto
  <2> QED
    BY <2>1, <2>3
<1>7. n \in Good
  <2> HIDE DEF Good
  <2> QED
    BY <1>2, <1>5, <1>6, UpTo
<1> QED
  BY <1>1, <1>3, <1>4, <1>7 DEF HasPath

\* Nothing of the walks changes when only the Challenge or a Claim does.
LEMMA OthersKeepWalks ==
    ASSUME WalkInv, UNCHANGED <<vars, job>>
    PROVE  WalkInv'
BY DEF WalkInv, ImpactTypes, WalksSearch, DependsOn, Active, vars

\* Walks go on while relations come and go.
LEMMA WalkStep == WalkInv /\ [ImpactNext]_<<vars, impactVars>> => WalkInv'
<1> SUFFICES ASSUME WalkInv, [ImpactNext]_<<vars, impactVars>>
             PROVE  WalkInv'
  OBVIOUS
<1>1. CASE Rule \/ (\E c \in Closing : Close(c)) \/ UNCHANGED <<vars, impactVars>>
  <2>1. UNCHANGED <<vars, job>>
    BY <1>1 DEF Rule, Close, impactVars
  <2> QED
    BY <2>1, OthersKeepWalks
<1>2. CASE \E j \in Jobs : JobStep(j)
  BY <1>2, WalkersKeepWalks
<1>3. CASE Command
  BY <1>3, CommandKeepsWalks
<1> QED
  BY <1>1, <1>2, <1>3 DEF ImpactNext

\* At the beginning no job walks.
LEMMA WalkInit == ImpactInit => WalkInv
<1> SUFFICES ASSUME ImpactInit
             PROVE  WalkInv
  OBVIOUS
<1>1. NoJob \in Job /\ NoJob.phase # "walking"
  BY DEF NoJob, Job, JobPhase
<1>2. job = [j \in Jobs |-> NoJob] /\ row = [r \in Relations |-> "absent"]
  BY DEF ImpactInit, Init
<1> QED
  BY <1>1, <1>2 DEF WalkInv, ImpactTypes, WalksSearch

\* A walk that has ended has found all that depends on the target by relations
\* which stood throughout, however many jobs walk and commands change relations
\* meanwhile (calculateChallengeImpactJob).
THEOREM WalksFindWhatStood == ImpactSpec => []WalksAreComplete
<1>1. WalkInv => WalksAreComplete
  BY EndedWalksAreComplete
<1> QED
  BY <1>1, WalkInit, WalkStep, PTL DEF ImpactSpec

\* What the jobs have been through: what they read or wrote stays so.
PhasesAreDone ==
    /\ state \in [Nodes -> {"standing", "closed", "dependency_tainted"}]
    /\ task \in [Nodes -> {0, 1}]
    /\ \A j \in Jobs :
          /\ job[j].phase = "idle" => job[j].found = {}
          /\ job[j].phase \in {"marking", "creating"} => job[j].claim \in Nodes
          /\ job[j].phase \in {"tainting", "marking"} =>
                \A c \in Impacted(j) \ job[j].todo :
                    state[c] = "dependency_tainted" \/ (job[j].phase = "marking" /\ c = job[j].claim)
          /\ job[j].phase \in {"tasking", "creating", "done"} =>
                \A c \in Impacted(j) :
                    /\ state[c] = "dependency_tainted"
                    /\ \/ task[c] = 1 \/ c \in job[j].todo
                       \/ job[j].phase = "creating" /\ c = job[j].claim
          /\ job[j].phase = "creating" => task[job[j].claim] = 0
          /\ job[j].phase = "done" => job[j].todo = {}

ImpactInv == ImpactTypes /\ PhasesAreDone

\* A job's step gives what its phase promises.
LEMMA JobKeepsImpact ==
    ASSUME \A i, k \in Jobs : i = k, ImpactInv, NEW j \in Jobs, JobStep(j), ImpactTypes'
    PROVE  ImpactInv'
<1>1. job \in [Jobs -> Job] /\ job[j] \in Job /\ \A k \in Jobs : k = j
  BY DEF ImpactInv, ImpactTypes
<1>2. SUFFICES PhasesAreDone'
  BY DEF ImpactInv
<1>3. CASE Start(j)
  <2>1. UNCHANGED <<state, task>>
    BY <1>3 DEF Start
  <2>2. CASE ruling = "upheld"
    <3>1. job'[j].phase = "walking"
      BY <1>1, <1>3, <2>2 DEF Start
    <3> QED
      BY <1>1, <2>1, <3>1 DEF ImpactInv, PhasesAreDone
  <2>3. CASE ruling # "upheld"
    <3>1. job'[j].phase = "done" /\ job'[j].found = {} /\ job'[j].todo = {}
      BY <1>1, <1>3, <2>3 DEF Start, NoJob
    <3> QED
      BY <1>1, <2>1, <3>1 DEF ImpactInv, PhasesAreDone, Impacted
  <2> QED
    BY <2>2, <2>3
<1>4. CASE Walk(j)
  <2>1. job'[j].phase = "walking" /\ UNCHANGED <<state, task>>
    BY <1>1, <1>4 DEF Walk, Job
  <2> QED
    BY <1>1, <2>1 DEF ImpactInv, PhasesAreDone
<1>5. CASE EndPhase(j)
  <2> DEFINE next == Following[job[j].phase]
  <2> DEFINE todo == IF next = "done" THEN {} ELSE Impacted(j)
  <2>1. /\ job' = [job EXCEPT ![j].phase = next, ![j].standing = {}, ![j].todo = todo]
        /\ UNCHANGED <<state, task>> /\ job[j].todo = {}
    BY <1>5 DEF EndPhase
  <2>2. \/ job[j].phase = "walking" /\ next = "tainting"
        \/ job[j].phase = "tainting" /\ next = "tasking"
        \/ job[j].phase = "tasking" /\ next = "done"
    BY <1>5 DEF EndPhase, Following
  <2>3. (next = "done" => todo = {}) /\ (next # "done" => todo = Impacted(j))
    OBVIOUS
  <2> HIDE DEF next, todo
  <2>4. job'[j].phase = next /\ job'[j].found = job[j].found /\ job'[j].todo = todo
    BY <1>1, <2>1 DEF Job
  <2> QED
    BY <1>1, <2>1, <2>2, <2>3, <2>4 DEF ImpactInv, PhasesAreDone, Impacted
<1>6. CASE ReadClaim(j)
  <2>1. PICK c \in job[j].todo : Visit(j, c, state[c] # "dependency_tainted", "marking")
    BY <1>6 DEF ReadClaim
  <2>2. job[j].phase = "tainting" /\ UNCHANGED <<state, task>> /\ c \in Nodes
    BY <1>1, <1>6 DEF ReadClaim, Job
  <2>3. /\ job'[j].found = job[j].found /\ job'[j].todo = job[j].todo \ {c}
        /\ state[c] # "dependency_tainted" => job'[j].phase = "marking" /\ job'[j].claim = c
        /\ state[c] = "dependency_tainted" => job'[j].phase = "tainting"
    BY <1>1, <2>1, <2>2 DEF Visit, Job
  <2> QED
    BY <1>1, <2>2, <2>3 DEF ImpactInv, PhasesAreDone, Impacted
<1>7. CASE MarkTainted(j)
  <2>1. /\ job[j].phase = "marking" /\ UNCHANGED task
        /\ state' = [state EXCEPT ![job[j].claim] = "dependency_tainted"]
        /\ job' = [job EXCEPT ![j].phase = "tainting", ![j].claim = NoClaim]
    BY <1>7 DEF MarkTainted, Done
  <2>2. /\ job'[j].phase = "tainting" /\ job'[j].found = job[j].found
        /\ job'[j].todo = job[j].todo
    BY <1>1, <2>1 DEF Job
  <2>3. Impacted(j) \subseteq Nodes
    BY <1>1 DEF Impacted, Job
  <2> QED
    BY <1>1, <2>1, <2>2, <2>3 DEF ImpactInv, PhasesAreDone, Impacted
<1>8. CASE ListTasks(j)
  <2>1. PICK c \in job[j].todo : Visit(j, c, task[c] = 0, "creating")
    BY <1>8 DEF ListTasks
  <2>2. job[j].phase = "tasking" /\ UNCHANGED <<state, task>> /\ c \in Nodes
    BY <1>1, <1>8 DEF ListTasks, Job
  <2>3. /\ job'[j].found = job[j].found /\ job'[j].todo = job[j].todo \ {c}
        /\ task[c] = 0 => job'[j].phase = "creating" /\ job'[j].claim = c
        /\ task[c] # 0 => job'[j].phase = "tasking"
    BY <1>1, <2>1, <2>2 DEF Visit, Job
  <2>4. task[c] \in {0, 1}
    BY <2>2 DEF ImpactInv, PhasesAreDone
  <2> QED
    BY <1>1, <2>2, <2>3, <2>4 DEF ImpactInv, PhasesAreDone, Impacted
<1>9. CASE CreateTask(j)
  <2>1. /\ job[j].phase = "creating" /\ UNCHANGED state
        /\ task' = [task EXCEPT ![job[j].claim] = @ + 1]
        /\ job' = [job EXCEPT ![j].phase = "tasking", ![j].claim = NoClaim]
    BY <1>9 DEF CreateTask, Done
  <2>2. /\ job'[j].phase = "tasking" /\ job'[j].found = job[j].found
        /\ job'[j].todo = job[j].todo
    BY <1>1, <2>1 DEF Job
  <2>3. job[j].claim \in Nodes /\ task[job[j].claim] = 0 /\ task \in [Nodes -> {0, 1}]
    BY <2>1 DEF ImpactInv, PhasesAreDone
  <2>4. /\ task'[job[j].claim] = 1 /\ task' \in [Nodes -> {0, 1}]
        /\ \A c \in Nodes : c # job[j].claim => task'[c] = task[c]
    BY <2>1, <2>3
  <2>5. Impacted(j) \subseteq Nodes
    BY <1>1 DEF Impacted, Job
  <2> QED
    BY <1>1, <2>1, <2>2, <2>4, <2>5 DEF ImpactInv, PhasesAreDone, Impacted
<1>10. CASE Fail(j)
  <2>1. job'[j] = NoJob /\ UNCHANGED <<state, task>>
    BY <1>1, <1>10 DEF Fail
  <2> QED
    BY <1>1, <2>1 DEF ImpactInv, PhasesAreDone, NoJob
<1> QED
  BY <1>3, <1>4, <1>5, <1>6, <1>7, <1>8, <1>9, <1>10 DEF JobStep

\* With one job at a time, every impacted Claim
\* is tainted and has one re-verification Task when the jobs are through, after
\* however many failures (taintDependentClaimsJob,
\* createReverificationTasksJob).
THEOREM ImpactIsMarkedOnce ==
    ASSUME \A i, k \in Jobs : i = k
    PROVE  ImpactSpec => []ImpactedHaveOneTask
<1>1. ImpactInit => ImpactInv
  <2> SUFFICES ASSUME ImpactInit
               PROVE  ImpactInv
    OBVIOUS
  <2>1. ImpactTypes
    BY WalkInit DEF WalkInv
  <2>2. /\ \A j \in Jobs : job[j] = NoJob
        /\ state = [c \in Nodes |-> "standing"] /\ task = [c \in Nodes |-> 0]
    BY DEF ImpactInit
  <2> QED
    BY <2>1, <2>2 DEF ImpactInv, PhasesAreDone, NoJob
<1>2. WalkInv /\ ImpactInv /\ [ImpactNext]_<<vars, impactVars>> => ImpactInv'
  <2> SUFFICES ASSUME WalkInv, ImpactInv, [ImpactNext]_<<vars, impactVars>>
               PROVE  ImpactInv'
    OBVIOUS
  <2>1. ImpactTypes'
    BY WalkStep DEF WalkInv
  <2>2. CASE Rule \/ UNCHANGED <<vars, impactVars>>
    <3>1. UNCHANGED <<job, state, task>>
      BY <2>2 DEF Rule, impactVars
    <3> QED
      BY <2>1, <3>1 DEF ImpactInv, PhasesAreDone, Impacted
  <2>3. CASE \E c \in Closing : Close(c)
    <3>1. PICK c \in Closing : Close(c)
      BY <2>3
    <3>2. /\ UNCHANGED <<job, task>> /\ state[c] = "standing"
          /\ state' = [state EXCEPT ![c] = "closed"]
      BY <3>1 DEF Close
    <3>3. \A d \in Nodes : state[d] = "dependency_tainted" => state'[d] = "dependency_tainted"
      BY <3>2 DEF ImpactInv, PhasesAreDone
    <3>4. state' \in [Nodes -> {"standing", "closed", "dependency_tainted"}]
      BY <3>2 DEF ImpactInv, PhasesAreDone
    <3>5. \A j \in Jobs : Impacted(j) \subseteq Nodes
      BY DEF ImpactInv, ImpactTypes, Impacted, Job
    <3> QED
      BY <2>1, <3>2, <3>3, <3>4, <3>5 DEF ImpactInv, PhasesAreDone, Impacted
  <2>4. CASE \E j \in Jobs : JobStep(j)
    BY <2>1, <2>4, JobKeepsImpact
  <2>5. CASE Command
    <3>1. UNCHANGED <<state, task>>
          /\ job' = [j \in Jobs |-> [job[j] EXCEPT !.standing = @ \intersect Active']]
      BY <2>5 DEF Command
    <3>2. ASSUME NEW j \in Jobs
          PROVE  /\ job'[j].phase = job[j].phase /\ job'[j].found = job[j].found
                 /\ job'[j].todo = job[j].todo /\ job'[j].claim = job[j].claim
      <4>1. job[j] \in Job
        BY DEF ImpactInv, ImpactTypes
      <4>2. job'[j] = [job[j] EXCEPT !.standing = @ \intersect Active']
        BY <3>1
      <4> QED
        BY <4>1, <4>2 DEF Job
    <3> QED
      BY <2>1, <3>1, <3>2 DEF ImpactInv, PhasesAreDone, Impacted
  <2> QED
    BY <2>2, <2>3, <2>4, <2>5 DEF ImpactNext
<1>3. ImpactInv => ImpactedHaveOneTask
  BY DEF ImpactInv, PhasesAreDone, ImpactedHaveOneTask, ImpactTypes, Job, Impacted
<1> QED
  BY <1>1, <1>2, <1>3, WalkInit, WalkStep, PTL DEF ImpactSpec

-----------------------------------------------------------------------------
(* The graph of a Claim *)

\* SearchedFrom is as many rounds of a search as there are Claims.
LEMMA SearchedInRounds ==
    ASSUME NEW edges, NEW claim
    PROVE  /\ Cardinality(Claims) \in Nat
           /\ \E f : /\ Rounds(edges, claim, Cardinality(Claims), f)
                     /\ SearchedFrom(edges, claim) = f[Cardinality(Claims)]
<1>1. Cardinality(Claims) \in Nat
  BY ClaimsAreFinite, FS_CardinalityType
<1>2. SearchedFrom(edges, claim) = Search(edges, claim, Cardinality(Claims))[Cardinality(Claims)]
  BY DEF SearchedFrom, Search, Onto
<1> QED
  BY <1>1, <1>2, SearchIsInRounds

\* More edges, more paths.
LEMMA PathsStay ==
    ASSUME NEW few, NEW many, few \subseteq many, NEW from, NEW target,
           HasGraphPath(few, from, target)
    PROVE  HasGraphPath(many, from, target)
<1>1. PICK f : /\ Rounds(few, from, Cardinality(Claims), f)
               /\ SearchedFrom(few, from) = f[Cardinality(Claims)]
  BY SearchedInRounds
<1>2. PICK g : /\ Rounds(many, from, Cardinality(Claims), g)
               /\ SearchedFrom(many, from) = g[Cardinality(Claims)]
  BY SearchedInRounds
<1>3. f[Cardinality(Claims)] \subseteq g[Cardinality(Claims)]
  <2>1. Cardinality(Claims) \in Nat
    BY SearchedInRounds
  <2> HIDE DEF Rounds
  <2> QED
    BY <1>1, <1>2, <2>1, RoundsGrow
<1> QED
  BY <1>1, <1>2, <1>3 DEF HasGraphPath

\* A path that is more than a point starts with an edge and ends with one.
LEMMA PathsHaveEnds ==
    ASSUME NEW edges, NEW from, NEW target, from # target, HasGraphPath(edges, from, target)
    PROVE  (\E e \in edges : e.source = from) /\ (\E e \in edges : e.target = target)
<1>1. PICK f : /\ Rounds(edges, from, Cardinality(Claims), f)
               /\ SearchedFrom(edges, from) = f[Cardinality(Claims)]
  BY SearchedInRounds
<1>2. Cardinality(Claims) \in Nat
  BY SearchedInRounds
<1>3. /\ f[Cardinality(Claims)] \subseteq {from} \union {e.target : e \in edges}
      /\ (\A e \in edges : e.source # from) => f[Cardinality(Claims)] = {from}
  <2> HIDE DEF Rounds
  <2> QED
    BY <1>1, <1>2, RoundsStay
<1> QED
  BY <1>1, <1>3 DEF HasGraphPath

\* The reader's request and the relations keep their types.
GraphTypes ==
    /\ {"step", "direction", "depth", "found", "level", "next", "pending", "edges", "truncated"}
          \subseteq DOMAIN graph
    /\ graph.step \in {"idle", "asking", "walking", "done"}
    /\ graph.direction \in {Upstream, Downstream}
    /\ graph.depth \in Nat /\ graph.truncated \in BOOLEAN
    /\ graph.found \in [DOMAIN graph.found -> Nat]
    /\ graph.edges \subseteq Links /\ graph.pending \subseteq Links
    /\ link \in [Links -> {"absent", "active", "ended"}]
    /\ standing \subseteq ActiveLinks

\* The root was found first, and what an edge joins was found.
EdgesJoinFound ==
    /\ Root \in DOMAIN graph.found /\ graph.found[Root] = 0
    /\ \A e \in graph.edges : {e.source, e.target} \subseteq DOMAIN graph.found

FoundAt(depth) == {c \in DOMAIN graph.found : graph.found[c] = depth}
FoundUpTo(depth) == \A c \in DOMAIN graph.found : graph.found[c] <= depth

\* A level has the Claims found at its depth, and nothing deeper was found than
\* the level after it; an untruncated graph ends at an empty level or at the
\* greatest depth.
LevelsAreDepths ==
    /\ graph.step = "asking" =>
          /\ graph.level = FoundAt(graph.depth) /\ FoundUpTo(graph.depth)
          /\ graph.next = {} /\ graph.pending = {} /\ graph.depth < MaxDepth
    /\ graph.step = "walking" =>
          /\ graph.level = FoundAt(graph.depth) /\ FoundUpTo(graph.depth + 1)
          /\ graph.next = FoundAt(graph.depth + 1) /\ graph.depth < MaxDepth
          /\ \A l \in graph.pending : TraversalEndpoints(l, graph.direction).from \in graph.level
    /\ graph.step = "done" /\ ~ graph.truncated =>
          /\ graph.pending = {} /\ FoundUpTo(graph.depth)
          /\ graph.depth = MaxDepth \/ FoundAt(graph.depth) = {}

\* Where the relation leads was found, one level further at most.
Followed(l) ==
    LET ends == TraversalEndpoints(l, graph.direction)
    IN  Reached(ends.to) /\ graph.found[ends.to] <= graph.found[ends.from] + 1

\* The standing relations of the levels that were walked over were followed.
LevelsAreFollowed ==
    ~ graph.truncated =>
        \A l \in standing :
            LET from == TraversalEndpoints(l, graph.direction).from
            IN  Reached(from) =>
                  /\ graph.found[from] < graph.depth => Followed(l)
                  /\ graph.step = "walking" /\ graph.found[from] = graph.depth =>
                        l \in graph.pending \/ Followed(l)

\* A relation is in the graph, or would close a cycle in it.
TakenOrClosing(l, edges) == l \in edges \/ HasGraphPath(edges, l.target, l.source)

\* The standing relations of the root are in the graph or would close a cycle,
\* but those that are still to be walked over.
RootIsFollowed ==
    ~ graph.truncated /\ graph.step # "idle" =>
        \A l \in standing :
            TraversalEndpoints(l, graph.direction).from = Root =>
                \/ TakenOrClosing(l, graph.edges)
                \/ l \in graph.pending
                \/ graph.depth = 0 /\ graph.step = "asking"

GraphInv == GraphTypes /\ EdgesJoinFound /\ LevelsAreDepths /\ LevelsAreFollowed /\ RootIsFollowed

\* A relation leads from one of its ends to the other.
LEMMA EndsAreEnds ==
    ASSUME NEW l, NEW direction
    PROVE  \/ /\ TraversalEndpoints(l, direction).from = l.source
              /\ TraversalEndpoints(l, direction).to = l.target
           \/ /\ TraversalEndpoints(l, direction).from = l.target
              /\ TraversalEndpoints(l, direction).to = l.source
BY DEF TraversalEndpoints

\* A request that has not begun is in order.
LEMMA NoGraphIsInOrder ==
    ASSUME link' \in [Links -> {"absent", "active", "ended"}], graph' = NoGraph, standing' = {}
    PROVE  GraphInv'
<1>1. GraphTypes'
  BY DEF GraphTypes, NoGraph
<1>2. EdgesJoinFound'
  BY DEF EdgesJoinFound, NoGraph
<1>3. LevelsAreDepths' /\ LevelsAreFollowed' /\ RootIsFollowed'
  BY DEF LevelsAreDepths, LevelsAreFollowed, RootIsFollowed, NoGraph
<1> QED
  BY <1>1, <1>2, <1>3 DEF GraphInv

\* A change of the relations leaves what was read as it is.
LEMMA RelatingKeepsGraph ==
    ASSUME GraphInv, NEW l \in Links, Relate(l) \/ Unrelate(l)
    PROVE  GraphInv'
<1>1. UNCHANGED graph /\ standing' \subseteq standing
  BY DEF Relate, Unrelate
<1>2. GraphTypes'
  BY DEF GraphInv, GraphTypes, Relate, Unrelate, ActiveLinks
<1>3. EdgesJoinFound' /\ LevelsAreDepths'
  BY <1>1 DEF GraphInv, EdgesJoinFound, LevelsAreDepths, FoundAt, FoundUpTo
<1>4. LevelsAreFollowed'
  BY <1>1 DEF GraphInv, LevelsAreFollowed, Followed, Reached
<1>5. RootIsFollowed'
  BY <1>1 DEF GraphInv, RootIsFollowed, TakenOrClosing
<1> QED
  BY <1>2, <1>3, <1>4, <1>5 DEF GraphInv

\* A request starts at the root.
LEMMA AskKeepsGraph ==
    ASSUME GraphInv, NEW direction \in {Upstream, Downstream}, Ask(direction)
    PROVE  GraphInv'
<1>1. /\ graph' = [NoGraph EXCEPT !.step = "asking", !.direction = direction]
      /\ standing' = ActiveLinks /\ link' = link
  BY DEF Ask
<1>2. /\ DOMAIN graph' = DOMAIN NoGraph
      /\ graph'.step = "asking" /\ graph'.direction = direction /\ graph'.depth = 0
      /\ graph'.found = [c \in {Root} |-> 0] /\ graph'.level = {Root} /\ graph'.next = {}
      /\ graph'.pending = {} /\ graph'.edges = {} /\ graph'.truncated = FALSE
  BY <1>1 DEF NoGraph
<1>3. GraphTypes'
  BY <1>1, <1>2 DEF GraphInv, GraphTypes, NoGraph, ActiveLinks
<1>4. EdgesJoinFound'
  BY <1>2 DEF EdgesJoinFound
<1>5. LevelsAreDepths'
  BY <1>2, GraphBoundsAreNatural DEF LevelsAreDepths, FoundAt, FoundUpTo
<1>6. LevelsAreFollowed' /\ RootIsFollowed'
  BY <1>2 DEF LevelsAreFollowed, RootIsFollowed, Reached
<1> QED
  BY <1>3, <1>4, <1>5, <1>6 DEF GraphInv

\* The relations of a level are those that stand, unless there are too many.
LEMMA QueryKeepsGraph ==
    ASSUME GraphInv, QueryLevel
    PROVE  GraphInv'
<1>1. PICK got \in SUBSET Incident :
         /\ got = Incident \/ Cardinality(Incident) > MaxEdges
         /\ graph' = [graph EXCEPT
                !.step = "walking",
                !.truncated = @ \/ CutPage(Incident),
                !.pending = {l \in got :
                    TraversalEndpoints(l, graph.direction).from \in graph.level}]
  BY DEF QueryLevel
<1>2. UNCHANGED <<link, standing>> /\ graph.step = "asking"
  BY DEF QueryLevel
<1> DEFINE pending == {l \in got : TraversalEndpoints(l, graph.direction).from \in graph.level}
<1>3. /\ DOMAIN graph' = DOMAIN graph
      /\ graph'.step = "walking" /\ graph'.direction = graph.direction
      /\ graph'.depth = graph.depth /\ graph'.found = graph.found
      /\ graph'.level = graph.level /\ graph'.next = graph.next
      /\ graph'.pending = pending /\ graph'.edges = graph.edges
      /\ graph'.truncated = (graph.truncated \/ CutPage(Incident))
  BY <1>1 DEF GraphInv, GraphTypes
<1>4. pending \subseteq ActiveLinks /\ ActiveLinks \subseteq Links
  BY DEF Incident, ActiveLinks
<1>5. ~ graph'.truncated => ~ graph.truncated /\ got = Incident
  BY <1>1, <1>3 DEF CutPage
<1>6. ASSUME NEW l \in standing, ~ graph'.truncated,
             TraversalEndpoints(l, graph.direction).from \in graph.level
      PROVE  l \in pending
  <2>1. l \in Incident
    BY <1>6, EndsAreEnds DEF GraphInv, GraphTypes, Incident
  <2> QED
    BY <1>5, <1>6, <2>1
<1>7. \A l \in pending : TraversalEndpoints(l, graph.direction).from \in graph.level
  OBVIOUS
<1> HIDE DEF pending
<1>8. GraphTypes'
  BY <1>2, <1>3, <1>4 DEF GraphInv, GraphTypes, ActiveLinks, CutPage
<1>9. EdgesJoinFound'
  BY <1>3 DEF GraphInv, EdgesJoinFound
<1>10. LevelsAreDepths'
  <2>1. FoundAt(graph.depth + 1) = {} /\ FoundUpTo(graph.depth + 1)
    BY <1>2 DEF GraphInv, GraphTypes, LevelsAreDepths, FoundAt, FoundUpTo
  <2> QED
    BY <1>2, <1>3, <1>7, <2>1 DEF GraphInv, LevelsAreDepths, FoundAt, FoundUpTo
<1>11. LevelsAreFollowed'
  BY <1>2, <1>3, <1>5, <1>6 DEF GraphInv, LevelsAreDepths, LevelsAreFollowed, Followed, Reached, FoundAt
<1>12. RootIsFollowed'
  <2>1. SUFFICES ASSUME ~ graph'.truncated, NEW l \in standing,
                        TraversalEndpoints(l, graph.direction).from = Root
                 PROVE  TakenOrClosing(l, graph.edges) \/ l \in pending
    BY <1>2, <1>3 DEF RootIsFollowed, TakenOrClosing
  <2>2. graph.depth = 0 => Root \in graph.level
    BY <1>2 DEF GraphInv, EdgesJoinFound, LevelsAreDepths, FoundAt
  <2>3. graph.depth # 0 => TakenOrClosing(l, graph.edges)
    BY <1>2, <1>5, <2>1 DEF GraphInv, LevelsAreDepths, RootIsFollowed
  <2> QED
    BY <1>6, <2>1, <2>2, <2>3
<1> QED
  BY <1>8, <1>9, <1>10, <1>11, <1>12 DEF GraphInv

\* A relation that would close a cycle leads to a Claim that was found.
LEMMA ClosingEndsAreFound ==
    ASSUME GraphInv, NEW l \in Links, Closes(l)
    PROVE  Reached(l.source) /\ Reached(l.target)
<1>1. l.source # l.target
  BY LinksHaveNoLoops
<1>2. (\E e \in graph.edges : e.source = l.target) /\ (\E e \in graph.edges : e.target = l.source)
  BY <1>1, PathsHaveEnds DEF Closes
<1> QED
  BY <1>2 DEF GraphInv, EdgesJoinFound, Reached

\* Of the relations of a level one is less to be walked over.
LEMMA PassOverKeepsGraph ==
    ASSUME GraphInv, NEW l \in Links, PassOver(l)
    PROVE  GraphInv'
<1>1. /\ graph.step = "walking" /\ l \in graph.pending /\ Closes(l)
      /\ graph' = [graph EXCEPT !.pending = @ \ {l}]
      /\ UNCHANGED <<link, standing>>
  BY DEF PassOver
<1>2. /\ DOMAIN graph' = DOMAIN graph
      /\ graph'.step = graph.step /\ graph'.direction = graph.direction
      /\ graph'.depth = graph.depth /\ graph'.found = graph.found
      /\ graph'.level = graph.level /\ graph'.next = graph.next
      /\ graph'.pending = graph.pending \ {l} /\ graph'.edges = graph.edges
      /\ graph'.truncated = graph.truncated
  BY <1>1 DEF GraphInv, GraphTypes
<1>3. Reached(l.source) /\ Reached(l.target)
  BY <1>1, ClosingEndsAreFound
<1>4. GraphTypes'
  BY <1>1, <1>2 DEF GraphInv, GraphTypes, ActiveLinks
<1>5. EdgesJoinFound' /\ LevelsAreDepths'
  BY <1>1, <1>2 DEF GraphInv, EdgesJoinFound, LevelsAreDepths, FoundAt, FoundUpTo
<1>6. LevelsAreFollowed'
  <2>1. Reached(TraversalEndpoints(l, graph.direction).to)
    BY <1>3, EndsAreEnds
  <2>2. TraversalEndpoints(l, graph.direction).from \in graph.level
    BY <1>1 DEF GraphInv, LevelsAreDepths
  <2>3. Followed(l)
    BY <1>1, <2>1, <2>2 DEF GraphInv, GraphTypes, LevelsAreDepths, FoundAt, FoundUpTo, Followed, Reached
  <2> QED
    BY <1>1, <1>2, <2>3 DEF GraphInv, LevelsAreFollowed, Followed, Reached
<1>7. RootIsFollowed'
  BY <1>1, <1>2 DEF GraphInv, RootIsFollowed, TakenOrClosing, Closes
<1> QED
  BY <1>4, <1>5, <1>6, <1>7 DEF GraphInv

\* A graph that is given up is marked.
LEMMA GiveUpKeepsGraph ==
    ASSUME GraphInv, NEW l \in Links, GiveUp(l)
    PROVE  GraphInv'
<1>1. /\ graph' = [graph EXCEPT !.step = "done", !.truncated = TRUE, !.pending = {}]
      /\ UNCHANGED <<link, standing>>
  BY DEF GiveUp
<1>2. /\ DOMAIN graph' = DOMAIN graph
      /\ graph'.step = "done" /\ graph'.direction = graph.direction
      /\ graph'.depth = graph.depth /\ graph'.found = graph.found
      /\ graph'.pending = {} /\ graph'.edges = graph.edges
      /\ graph'.truncated = TRUE
  BY <1>1 DEF GraphInv, GraphTypes
<1>3. GraphTypes'
  BY <1>1, <1>2 DEF GraphInv, GraphTypes, ActiveLinks
<1>4. EdgesJoinFound'
  BY <1>2 DEF GraphInv, EdgesJoinFound
<1>5. LevelsAreDepths' /\ LevelsAreFollowed' /\ RootIsFollowed'
  BY <1>2 DEF LevelsAreDepths, LevelsAreFollowed, RootIsFollowed
<1> QED
  BY <1>3, <1>4, <1>5 DEF GraphInv

\* A Claim that an edge leads to is found on the next level, unless it was.
LEMMA TakeEdgeKeepsGraph ==
    ASSUME GraphInv, NEW l \in Links, TakeEdge(l)
    PROVE  GraphInv'
<1> DEFINE to == TraversalEndpoints(l, graph.direction).to
<1> DEFINE found == [c \in DOMAIN graph.found \union {to} |->
                        IF Reached(c) THEN graph.found[c] ELSE graph.depth + 1]
<1>1. /\ graph.step = "walking" /\ l \in graph.pending
      /\ UNCHANGED <<link, standing>>
  BY DEF TakeEdge
<1>2. /\ DOMAIN graph' = DOMAIN graph
      /\ graph'.step = graph.step /\ graph'.direction = graph.direction
      /\ graph'.depth = graph.depth /\ graph'.found = found
      /\ graph'.level = graph.level
      /\ graph'.next = IF Reached(to) THEN graph.next ELSE graph.next \union {to}
      /\ graph'.pending = graph.pending \ {l} /\ graph'.edges = graph.edges \union {l}
      /\ graph'.truncated = graph.truncated
  <2>1. graph' = [graph EXCEPT
              !.pending = @ \ {l},
              !.edges = @ \union {l},
              !.next = IF Reached(to) THEN @ ELSE @ \union {to},
              !.found = found]
    BY DEF TakeEdge
  <2> HIDE DEF found, to
  <2> QED
    BY <2>1 DEF GraphInv, GraphTypes
<1>3. /\ DOMAIN found = DOMAIN graph.found \union {to}
      /\ \A c \in DOMAIN graph.found : found[c] = graph.found[c]
      /\ to \notin DOMAIN graph.found => found[to] = graph.depth + 1
      /\ found = [c \in DOMAIN found |-> found[c]]
  BY DEF Reached
<1> DEFINE from == TraversalEndpoints(l, graph.direction).from
<1>4. from \in DOMAIN graph.found /\ graph.found[from] = graph.depth
  BY <1>1 DEF GraphInv, LevelsAreDepths, FoundAt
<1>5. {l.source, l.target} = {from, to}
  BY EndsAreEnds
<1> HIDE DEF found, to, from
<1>6. found \in [DOMAIN found -> Nat]
  BY <1>3 DEF GraphInv, GraphTypes
<1>7. GraphTypes'
  BY <1>1, <1>2, <1>6 DEF GraphInv, GraphTypes, ActiveLinks
<1>8. EdgesJoinFound'
  BY <1>2, <1>3, <1>4, <1>5 DEF GraphInv, EdgesJoinFound
<1>9. \A c \in DOMAIN found : found[c] <= graph.depth + 1
  BY <1>1, <1>3 DEF GraphInv, GraphTypes, LevelsAreDepths, FoundUpTo
<1>10. LevelsAreDepths'
  <2>1. graph.level = {c \in DOMAIN found : found[c] = graph.depth}
    BY <1>1, <1>3 DEF GraphInv, GraphTypes, LevelsAreDepths, FoundAt
  <2>2. graph'.next = {c \in DOMAIN found : found[c] = graph.depth + 1}
    BY <1>1, <1>2, <1>3 DEF GraphInv, LevelsAreDepths, FoundAt, Reached
  <2> QED
    BY <1>1, <1>2, <1>9, <2>1, <2>2 DEF GraphInv, LevelsAreDepths, FoundAt, FoundUpTo
<1>11. LevelsAreFollowed'
  <2>1. SUFFICES ASSUME ~ graph.truncated, NEW k \in standing,
                        NEW b, b = TraversalEndpoints(k, graph.direction).from,
                        NEW e, e = TraversalEndpoints(k, graph.direction).to,
                        b \in DOMAIN found
                 PROVE  /\ found[b] < graph.depth => e \in DOMAIN found /\ found[e] <= found[b] + 1
                        /\ found[b] = graph.depth =>
                              k \in graph.pending \ {l} \/ (e \in DOMAIN found /\ found[e] <= found[b] + 1)
    BY <1>1, <1>2 DEF LevelsAreFollowed, Followed, Reached
  <2>2. CASE b \in DOMAIN graph.found
    <3>1. /\ graph.found[b] < graph.depth => e \in DOMAIN graph.found /\ graph.found[e] <= graph.found[b] + 1
          /\ graph.found[b] = graph.depth =>
                k \in graph.pending \/ (e \in DOMAIN graph.found /\ graph.found[e] <= graph.found[b] + 1)
      BY <1>1, <2>1, <2>2 DEF GraphInv, LevelsAreFollowed, Followed, Reached
    <3>2. k = l => e \in DOMAIN found /\ found[e] <= graph.depth + 1
      BY <1>3, <1>9, <2>1 DEF to
    <3> QED
      BY <1>3, <2>2, <3>1, <3>2
  <2>3. CASE b \notin DOMAIN graph.found
    BY <1>3, <2>1, <2>3 DEF GraphInv, GraphTypes
  <2> QED
    BY <2>2, <2>3
<1>12. RootIsFollowed'
  <2>1. \A k : TakenOrClosing(k, graph.edges) => TakenOrClosing(k, graph.edges \union {l})
    BY PathsStay DEF TakenOrClosing
  <2>2. TakenOrClosing(l, graph.edges \union {l})
    BY DEF TakenOrClosing
  <2> QED
    BY <1>1, <1>2, <2>1, <2>2 DEF GraphInv, RootIsFollowed
<1> QED
  BY <1>7, <1>8, <1>10, <1>11, <1>12 DEF GraphInv

\* A level that was walked over is followed by the next.
LEMMA EndLevelKeepsGraph ==
    ASSUME GraphInv, EndLevel
    PROVE  GraphInv'
<1> DEFINE step == IF graph.next = {} \/ graph.depth + 1 = MaxDepth THEN "done" ELSE "asking"
<1>1. /\ graph.step = "walking" /\ graph.pending = {}
      /\ graph' = [graph EXCEPT !.step = step, !.depth = @ + 1, !.level = graph.next, !.next = {}]
      /\ UNCHANGED <<link, standing>>
  BY DEF EndLevel
<1>2. /\ step \in {"done", "asking"}
      /\ step = "done" => graph.next = {} \/ graph.depth + 1 = MaxDepth
      /\ step = "asking" => graph.depth + 1 # MaxDepth
  OBVIOUS
<1> HIDE DEF step
<1>3. /\ DOMAIN graph' = DOMAIN graph
      /\ graph'.step = step /\ graph'.direction = graph.direction
      /\ graph'.depth = graph.depth + 1 /\ graph'.found = graph.found
      /\ graph'.level = graph.next /\ graph'.next = {}
      /\ graph'.pending = graph.pending /\ graph'.edges = graph.edges
      /\ graph'.truncated = graph.truncated
  BY <1>1 DEF GraphInv, GraphTypes
<1>4. GraphTypes'
  BY <1>1, <1>2, <1>3 DEF GraphInv, GraphTypes, ActiveLinks
<1>5. EdgesJoinFound'
  BY <1>3 DEF GraphInv, EdgesJoinFound
<1>6. LevelsAreDepths'
  BY <1>1, <1>2, <1>3, GraphBoundsAreNatural
     DEF GraphInv, GraphTypes, LevelsAreDepths, FoundAt, FoundUpTo
<1>7. LevelsAreFollowed'
  BY <1>1, <1>2, <1>3 DEF GraphInv, GraphTypes, LevelsAreFollowed, Followed, Reached
<1>8. RootIsFollowed'
  BY <1>1, <1>3 DEF GraphInv, RootIsFollowed
<1> QED
  BY <1>4, <1>5, <1>6, <1>7, <1>8 DEF GraphInv

\* What the relations lead to, as edges from where they lead.
Led(links, direction) ==
    {[source |-> TraversalEndpoints(l, direction).from,
      target |-> TraversalEndpoints(l, direction).to] : l \in links}

\* Within is a search along what the relations lead to.
LEMMA WithinInRounds ==
    ASSUME NEW n \in Nat, NEW links, NEW direction
    PROVE  \E f : /\ Rounds(Led(links, direction), Root, n, f)
                  /\ Within(links, direction, n) = f[n]
<1> DEFINE By(S) == S \union {TraversalEndpoints(l, direction).to :
                      l \in {k \in links : TraversalEndpoints(k, direction).from \in S}}
<1> DEFINE Is(f) == f = [i \in 0 .. n |-> IF i = 0 THEN {Root} ELSE By(f[i - 1])]
<1> DEFINE f == CHOOSE f : Is(f)
<1>1. \A S : By(S) = Onto(Led(links, direction), S)
  <2> TAKE S
  <2>1. ASSUME NEW c \in By(S)
        PROVE  c \in Onto(Led(links, direction), S)
    <3>1. CASE c \in S
      BY <3>1 DEF Onto
    <3>2. CASE c \notin S
      <4>1. PICK l \in links : /\ TraversalEndpoints(l, direction).from \in S
                               /\ TraversalEndpoints(l, direction).to = c
        BY <2>1, <3>2
      <4>2. \E e \in Led(links, direction) : e.source \in S /\ e.target = c
        <5> DEFINE e == [source |-> TraversalEndpoints(l, direction).from,
                         target |-> TraversalEndpoints(l, direction).to]
        <5>1. e \in Led(links, direction)
          BY DEF Led
        <5>2. e.source \in S /\ e.target = c
          BY <4>1
        <5> HIDE DEF e
        <5> QED
          BY <5>1, <5>2
      <4> QED
        BY <4>2 DEF Onto
    <3> QED
      BY <3>1, <3>2
  <2>2. ASSUME NEW c \in Onto(Led(links, direction), S)
        PROVE  c \in By(S)
    BY DEF Onto, Led
  <2> HIDE DEF By
  <2> QED
    BY <2>1, <2>2
<1>2. Within(links, direction, n) = f[n]
  BY DEF Within
<1>3. Is(f)
  <2>1. PICK g : Rounds(Led(links, direction), Root, n, g)
    BY SearchesGoOn
  <2>2. DOMAIN g = 0 .. n /\ g = [i \in DOMAIN g |-> g[i]]
    BY <2>1 DEF Rounds
  <2>3. ASSUME NEW i \in 0 .. n
        PROVE  g[i] = IF i = 0 THEN {Root} ELSE By(g[i - 1])
    <3> HIDE DEF By
    <3>1. CASE i = 0
      BY <2>1, <3>1 DEF Rounds
    <3>2. CASE i # 0
      <4>1. i \in 1 .. n
        BY <3>2
      <4> QED
        BY <1>1, <2>1, <3>2, <4>1 DEF Rounds
    <3> QED
      BY <3>1, <3>2
  <2> HIDE DEF By
  <2>4. Is(g)
    BY <2>2, <2>3
  <2> HIDE DEF Is
  <2> QED
    BY <2>4
<1> HIDE DEF f, By
<1>4. DOMAIN f = 0 .. n /\ \A i \in 0 .. n : f[i] = IF i = 0 THEN {Root} ELSE By(f[i - 1])
  BY <1>3
<1>5. 0 \in 0 .. n /\ \A i \in 1 .. n : i \in 0 .. n /\ i # 0
  OBVIOUS
<1>6. f = [i \in DOMAIN f |-> f[i]]
  BY <1>3
<1>7. Rounds(Led(links, direction), Root, n, f)
  BY <1>1, <1>4, <1>5, <1>6 DEF Rounds
<1> QED
  BY <1>2, <1>7

\* What is within n relations of the root was found no deeper than n.
LEMMA FollowedWithin ==
    ASSUME NEW n \in Nat, NEW f, GraphInv,
           Rounds(Led(standing, graph.direction), Root, n, f),
           \A l \in standing :
              LET from == TraversalEndpoints(l, graph.direction).from
              IN  Reached(from) /\ graph.found[from] < n => Followed(l)
    PROVE  \A c \in f[n] : Reached(c) /\ graph.found[c] <= n
<1> DEFINE Good == {i \in 0 .. n : \A c \in f[i] : Reached(c) /\ graph.found[c] <= i}
<1>1. 0 \in Good
  BY DEF Rounds, GraphInv, EdgesJoinFound, Reached
<1>2. ASSUME NEW m \in 1 .. n, m - 1 \in Good
      PROVE  m \in Good
  <2>1. m \in 0 .. n /\ m - 1 < n /\ f[m] = Onto(Led(standing, graph.direction), f[m - 1])
    BY DEF Rounds
  <2>2. \A c \in f[m - 1] : Reached(c) /\ graph.found[c] \in Nat /\ graph.found[c] <= m - 1
    BY <1>2 DEF GraphInv, GraphTypes, Reached
  <2>3. ASSUME NEW c \in f[m], c \notin f[m - 1]
        PROVE  Reached(c) /\ graph.found[c] <= m
    <3>1. PICK l \in standing : /\ TraversalEndpoints(l, graph.direction).from \in f[m - 1]
                                /\ TraversalEndpoints(l, graph.direction).to = c
      BY <2>1, <2>3 DEF Onto, Led
    <3>2. Followed(l)
      BY <2>1, <2>2, <3>1
    <3>3. graph.found[c] \in Nat /\ Reached(c)
      BY <3>1, <3>2 DEF GraphInv, GraphTypes, Followed, Reached
    <3> QED
      BY <2>2, <3>1, <3>2, <3>3 DEF Followed
  <2> QED
    BY <2>1, <2>2, <2>3
<1>3. n \in Good
  <2> HIDE DEF Good
  <2> QED
    BY <1>1, <1>2, UpTo
<1> QED
  BY <1>3

\* The invariant of the reading gives its completeness.
LEMMA OrderedGraphsAreComplete ==
    ASSUME GraphInv
    PROVE  GraphIsComplete
<1>1. SUFFICES ASSUME graph.step = "done", ~ graph.truncated, NEW n \in 1 .. MaxDepth
               PROVE  \A c \in Within(standing, graph.direction, n) :
                         Reached(c) /\ graph.found[c] <= n
  BY DEF GraphIsComplete
<1>2. n \in Nat
  OBVIOUS
<1>3. PICK f : /\ Rounds(Led(standing, graph.direction), Root, n, f)
               /\ Within(standing, graph.direction, n) = f[n]
  BY <1>2, WithinInRounds
<1>4. ASSUME NEW l \in standing, NEW from,
             from = TraversalEndpoints(l, graph.direction).from,
             Reached(from), graph.found[from] < n
      PROVE  Followed(l)
  <2>1. graph.found[from] \in Nat /\ graph.found[from] < MaxDepth /\ graph.found[from] <= graph.depth
    BY <1>1, <1>4, GraphBoundsAreNatural DEF GraphInv, GraphTypes, LevelsAreDepths, FoundUpTo, Reached
  <2>2. graph.found[from] # graph.depth
    BY <1>1, <1>4, <2>1 DEF GraphInv, LevelsAreDepths, FoundAt, Reached
  <2>3. graph.found[from] < graph.depth
    BY <2>1, <2>2 DEF GraphInv, GraphTypes
  <2> QED
    BY <1>1, <1>4, <2>3 DEF GraphInv, LevelsAreFollowed
<1> QED
  <2> HIDE DEF Reached, Followed, GraphInv
  <2>1. \A c \in f[n] : Reached(c) /\ graph.found[c] <= n
    BY <1>2, <1>3, <1>4, FollowedWithin
  <2> QED
    BY <1>3, <2>1

\* Each step of the reader or of the relations keeps the graph in order.
LEMMA ServingKeepsGraph ==
    ASSUME GraphInv,
           \/ \E l \in Links : Relate(l) \/ Unrelate(l) \/ PassOver(l) \/ GiveUp(l) \/ TakeEdge(l)
           \/ QueryLevel \/ EndLevel
    PROVE  GraphInv'
BY RelatingKeepsGraph, PassOverKeepsGraph, GiveUpKeepsGraph, TakeEdgeKeepsGraph,
   QueryKeepsGraph, EndLevelKeepsGraph

\* Nothing of the graph changes while its variables stay.
LEMMA GraphStays ==
    ASSUME GraphInv, UNCHANGED graphVars
    PROVE  GraphInv'
BY DEF GraphInv, GraphTypes, EdgesJoinFound, LevelsAreDepths, LevelsAreFollowed, RootIsFollowed,
       Followed, TakenOrClosing, FoundAt, FoundUpTo, Reached, ActiveLinks, graphVars

\* A graph starts in order.
LEMMA GraphInitInv == GraphInit => GraphInv
<1> SUFFICES ASSUME GraphInit
             PROVE  GraphInv
  OBVIOUS
<1>1. graph = NoGraph /\ standing = {} /\ link \in [Links -> {"absent", "active", "ended"}]
  BY DEF GraphInit
<1> QED
  BY <1>1 DEF GraphInv, GraphTypes, EdgesJoinFound, LevelsAreDepths, LevelsAreFollowed,
              RootIsFollowed, NoGraph

\* Each graph is read level by level from the root.
THEOREM GraphsAreReadInOrder == GraphSpec => []GraphInv
<1>1. GraphInv /\ [GraphNext]_graphVars => GraphInv'
  <2> SUFFICES ASSUME GraphInv, [GraphNext]_graphVars
               PROVE  GraphInv'
    OBVIOUS
  <2>1. CASE \E direction \in {Upstream, Downstream} : Ask(direction)
    BY <2>1, AskKeepsGraph
  <2>2. CASE GraphNext /\ ~ \E direction \in {Upstream, Downstream} : Ask(direction)
    <3>1. \/ \E l \in Links : Relate(l) \/ Unrelate(l) \/ PassOver(l) \/ GiveUp(l) \/ TakeEdge(l)
          \/ QueryLevel \/ EndLevel
      BY <2>2 DEF GraphNext
    <3> QED
      BY <3>1, ServingKeepsGraph
  <2>3. CASE UNCHANGED graphVars
    BY <2>3, GraphStays
  <2> QED
    BY <2>1, <2>2, <2>3
<1> QED
  BY <1>1, GraphInitInv, PTL DEF GraphSpec

\* A graph that is not marked truncated has all that the standing relations
\* lead to, no deeper than they lead (claimGraph).
THEOREM UntruncatedGraphsAreComplete == GraphSpec => []GraphIsComplete
<1>1. GraphInv => GraphIsComplete
  BY OrderedGraphsAreComplete
<1> QED
  BY <1>1, GraphsAreReadInOrder, PTL

-----------------------------------------------------------------------------
(* The graph on a Claim's page *)

\* What the page has got was asked for, and joins what came with it.
ReadsAreOrdered ==
    /\ {"choice", "asked", "read"} \subseteq DOMAIN page
    /\ page.choice \in {"none", Both, Upstream, Downstream}
    /\ page.asked \in {"none", Upstream, Downstream}
    /\ page.asked # "none" => page.asked = graph.direction /\ page.asked \notin DOMAIN page.read
    /\ stood \subseteq Links
    /\ \A d \in DOMAIN page.read :
          /\ {"found", "edges", "truncated"} \subseteq DOMAIN page.read[d]
          /\ \A e \in page.read[d].edges : {e.source, e.target} \subseteq DOMAIN page.read[d].found

\* An untruncated read has the relations of the root that stood during it, or
\* they would close a cycle in it.
ReadsAreWhole ==
    \A d \in DOMAIN page.read : ~ page.read[d].truncated =>
        \A l \in stood : TraversalEndpoints(l, d).from = Root =>
            TakenOrClosing(l, page.read[d].edges)

ViewInv == GraphInv /\ ReadsAreOrdered /\ ReadsAreWhole

\* A step of the graph's own leaves the page as it is.
LEMMA ServeKeepsView ==
    ASSUME ViewInv, GraphInv', UNCHANGED <<page, stood>>,
           page.asked # "none" => graph'.direction = graph.direction
    PROVE  ViewInv'
<1>1. ReadsAreOrdered'
  BY DEF ViewInv, ReadsAreOrdered
<1>2. ReadsAreWhole'
  BY DEF ViewInv, ReadsAreWhole, TakenOrClosing
<1> QED
  BY <1>1, <1>2 DEF ViewInv

\* The direction of a request in hand stays.
LEMMA ServingKeepsDirection ==
    ASSUME GraphInv,
           \/ \E l \in Links : Relate(l) \/ Unrelate(l) \/ PassOver(l) \/ GiveUp(l) \/ TakeEdge(l)
           \/ QueryLevel \/ EndLevel
    PROVE  graph'.direction = graph.direction
BY DEF GraphInv, GraphTypes, Relate, Unrelate, PassOver, GiveUp, TakeEdge, QueryLevel, EndLevel

\* A choice forgets what was read.
LEMMA ChooseKeepsView ==
    ASSUME ViewInv, NEW choice \in {Both, Upstream, Downstream}, Choose(choice)
    PROVE  ViewInv'
<1>1. GraphInv'
  BY NoGraphIsInOrder DEF Choose, ViewInv, GraphInv, GraphTypes
<1>2. ReadsAreOrdered' /\ ReadsAreWhole'
  BY DEF Choose, ReadsAreOrdered, ReadsAreWhole, NoPage
<1> QED
  BY <1>1, <1>2 DEF ViewInv

\* A request is for a direction that was not read.
LEMMA RequestKeepsView ==
    ASSUME ViewInv, NEW direction \in {Upstream, Downstream}, RequestGraph(direction)
    PROVE  ViewInv'
<1>1. /\ Ask(direction) /\ page' = [page EXCEPT !.asked = direction]
      /\ direction \notin DOMAIN page.read /\ UNCHANGED stood
  BY DEF RequestGraph
<1>2. GraphInv' /\ graph'.direction = direction
  <2>1. GraphInv'
    BY <1>1, AskKeepsGraph DEF ViewInv
  <2>2. graph'.direction = direction
    BY <1>1 DEF Ask, NoGraph
  <2> QED
    BY <2>1, <2>2
<1>3. /\ DOMAIN page' = DOMAIN page
      /\ page'.choice = page.choice /\ page'.asked = direction /\ page'.read = page.read
  BY <1>1 DEF ViewInv, ReadsAreOrdered
<1>4. ReadsAreOrdered'
  BY <1>1, <1>2, <1>3 DEF ViewInv, ReadsAreOrdered
<1>5. ReadsAreWhole'
  BY <1>1, <1>3 DEF ViewInv, ReadsAreWhole, TakenOrClosing
<1> QED
  BY <1>2, <1>4, <1>5 DEF ViewInv

\* An answer is kept as the graph ended.
LEMMA ReceiveKeepsView ==
    ASSUME ViewInv, Receive
    PROVE  ViewInv'
<1> DEFINE answer == [found |-> graph.found, edges |-> graph.edges, truncated |-> graph.truncated]
<1> DEFINE read == [d \in DOMAIN page.read \union {page.asked} |->
                      IF d # page.asked THEN page.read[d] ELSE answer]
<1>1. /\ page.asked # "none" /\ graph.step = "done"
      /\ stood' = stood \intersect standing
      /\ graph' = NoGraph /\ standing' = {} /\ UNCHANGED link
  BY DEF Receive
<1>2. /\ DOMAIN page' = DOMAIN page
      /\ page'.choice = page.choice /\ page'.asked = "none" /\ page'.read = read
  <2>1. page' = [page EXCEPT !.asked = "none", !.read = read]
    BY DEF Receive
  <2> HIDE DEF read
  <2> QED
    BY <2>1 DEF ViewInv, ReadsAreOrdered
<1>3. /\ DOMAIN read = DOMAIN page.read \union {page.asked}
      /\ read[page.asked] = answer
      /\ \A d \in DOMAIN page.read : d # page.asked => read[d] = page.read[d]
  OBVIOUS
<1>4. /\ DOMAIN answer = {"found", "edges", "truncated"}
      /\ answer.found = graph.found /\ answer.edges = graph.edges
      /\ answer.truncated = graph.truncated
  OBVIOUS
<1> HIDE DEF read, answer
<1>5. GraphInv'
  BY <1>1, NoGraphIsInOrder DEF ViewInv, GraphInv, GraphTypes
<1>6. ReadsAreOrdered'
  BY <1>1, <1>2, <1>3, <1>4 DEF ViewInv, ReadsAreOrdered, GraphInv, EdgesJoinFound
<1>7. ReadsAreWhole'
  <2>1. SUFFICES ASSUME NEW d \in DOMAIN read, ~ read[d].truncated,
                        NEW l \in stood \intersect standing, TraversalEndpoints(l, d).from = Root
                 PROVE  TakenOrClosing(l, read[d].edges)
    BY <1>1, <1>2 DEF ReadsAreWhole, TakenOrClosing
  <2>2. CASE d = page.asked
    BY <1>1, <1>3, <1>4, <2>1, <2>2
       DEF ViewInv, ReadsAreOrdered, GraphInv, RootIsFollowed, LevelsAreDepths
  <2>3. CASE d # page.asked
    BY <1>3, <2>1, <2>3 DEF ViewInv, ReadsAreWhole
  <2> QED
    BY <2>2, <2>3
<1> QED
  BY <1>5, <1>6, <1>7 DEF ViewInv

\* Each view keeps what it read, as it was read.
THEOREM ViewsKeepWhatWasRead == ViewSpec => []ViewInv
<1>1. ViewInit => ViewInv
  BY GraphInitInv DEF ViewInit, ViewInv, ReadsAreOrdered, ReadsAreWhole, NoPage
<1>2. ViewInv /\ [ViewNext]_viewVars => ViewInv'
  <2> SUFFICES ASSUME ViewInv, [ViewNext]_viewVars
               PROVE  ViewInv'
    OBVIOUS
  <2>1. CASE \E choice \in {Both, Upstream, Downstream} : Choose(choice)
    BY <2>1, ChooseKeepsView
  <2>2. CASE \E direction \in {Upstream, Downstream} : RequestGraph(direction)
    BY <2>2, RequestKeepsView
  <2>3. CASE Receive
    BY <2>3, ReceiveKeepsView
  <2>4. CASE Serve \/ Change
    <3>1. \/ \E l \in Links : Relate(l) \/ Unrelate(l) \/ PassOver(l) \/ GiveUp(l) \/ TakeEdge(l)
          \/ QueryLevel \/ EndLevel
      BY <2>4 DEF Serve, Change
    <3>2. UNCHANGED <<page, stood>>
      BY <2>4 DEF Serve, Change
    <3> QED
      BY <3>1, <3>2, ServingKeepsGraph, ServingKeepsDirection, ServeKeepsView DEF ViewInv
  <2>5. CASE UNCHANGED viewVars
    <3>1. UNCHANGED graphVars /\ UNCHANGED <<page, stood>> /\ UNCHANGED graph
      BY <2>5 DEF viewVars, graphVars
    <3>2. GraphInv'
      BY <3>1, GraphStays DEF ViewInv
    <3> QED
      BY <3>1, <3>2, ServeKeepsView
  <2> QED
    BY <2>1, <2>2, <2>3, <2>4, <2>5 DEF ViewNext
<1> QED
  BY <1>1, <1>2, PTL DEF ViewSpec

\* The graphs that the page asks for, in either direction and however often it
\* is chosen anew, are complete unless they are marked.
THEOREM ViewedGraphsAreComplete == ViewSpec => []GraphIsComplete
<1>1. ViewInv => GraphIsComplete
  BY OrderedGraphsAreComplete DEF ViewInv
<1> QED
  BY <1>1, ViewsKeepWhatWasRead, PTL

\* Both ends of what was read were read with it.
LEMMA ReadEdgesAreMerged ==
    ASSUME ViewInv
    PROVE  Merged = ReadEdges
BY DEF ViewInv, ReadsAreOrdered, Merged, ReadEdges, ReadNodes

\* Every relation that was read is drawn (normalizeResearchNeighborhood).
THEOREM ReadRelationsAreDrawn == ViewSpec => []EveryRelationIsDrawn
<1>1. ViewInv => EveryRelationIsDrawn
  BY ReadEdgesAreMerged DEF EveryRelationIsDrawn
<1> QED
  BY <1>1, ViewsKeepWhatWasRead, PTL

\* A view that is called complete has every relation of the root that stood
\* while it was read (filterResearchNeighborhood).
THEOREM CompleteViewsShowTheRoot == ViewSpec => []CompleteViewsAreWhole
<1>1. ViewInv => CompleteViewsAreWhole
  <2>1. SUFFICES ASSUME ViewInv, Arrived, NEW kept \in Views, Complete(kept),
                        NEW l \in AtTheRoot(stood)
                 PROVE  l \in KeptEdges(kept) \/ HasGraphPath(Merged, l.target, l.source)
    BY DEF CompleteViewsAreWhole
  <2>2. PICK d \in DOMAIN page.read : TraversalEndpoints(l, d).from = Root
    BY <2>1 DEF AtTheRoot, Arrived
  <2>3. TakenOrClosing(l, page.read[d].edges)
    BY <2>1, <2>2 DEF ViewInv, ReadsAreWhole, AtTheRoot, Complete, Truncated
  <2>4. page.read[d].edges \subseteq Merged
    BY <2>1, ReadEdgesAreMerged DEF ReadEdges
  <2>5. l \in Merged \/ HasGraphPath(Merged, l.target, l.source)
    BY <2>3, <2>4, PathsStay DEF TakenOrClosing
  <2> QED
    BY <2>1, <2>5 DEF Complete
<1> QED
  BY <1>1, ViewsKeepWhatWasRead, PTL

=============================================================================
