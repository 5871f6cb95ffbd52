--------------------------- MODULE BackfillProofs ---------------------------
(***************************************************************************)
(* A migration that is complete has done what its plan says, and has taken *)
(* it from one snapshot of the tables: for any tables, pages, runners that *)
(* overlap or stop, and changes beside them.                               *)
(*                                                                         *)
(* The argument: once a plan is stored no other one is ever applied, so    *)
(* whatever is recorded stands as that plan says or comes from a dual      *)
(* write, which contradicts every plan; and a plan is made only of what    *)
(* was staged, after it was compared with the snapshot of its run.         *)
(***************************************************************************)
EXTENDS Backfill, FiniteSetTheorems, WellFoundedInduction, TLAPS

\* Among finitely many vertices one has the highest rank.
LEMMA SomeIsHighest ==
    ASSUME NEW V, IsFiniteSet(V), V # {}, NEW f, \A v \in V : f[v] \in Nat
    PROVE  \E v \in V : \A w \in V : f[w] <= f[v]
<1> DEFINE High(A) == \E v \in A : \A w \in A : f[w] <= f[v]
<1> DEFINE Low == {A \in SUBSET V : A # {} /\ ~High(A)}
<1>1. SUFFICES ASSUME Low # {}
               PROVE  FALSE
  OBVIOUS
<1>2. IsWellFoundedOn(StrictSubsetOrdering(V), SUBSET V)
  BY FS_StrictSubsetOrderingWellFounded, FS_FiniteSubsetsOfFinite
<1>3. PICK A \in Low : \A B \in Low : <<B, A>> \notin StrictSubsetOrdering(V)
  <2>1. Low \subseteq SUBSET V
    OBVIOUS
  <2> HIDE DEF Low
  <2> QED
    BY <1>1, <1>2, <2>1, WFMin
<1>4. PICK a \in A : TRUE
  BY <1>3
<1> DEFINE B == A \ {a}
<1>5. <<B, A>> \in StrictSubsetOrdering(V)
  BY <1>3, <1>4 DEF StrictSubsetOrdering
<1>6. B = {} \/ High(B)
  BY <1>3, <1>5
<1>7. High(A)
  <2>1. \A v \in A : f[v] \in Nat
    BY <1>3
  <2>2. CASE B = {}
    BY <1>4, <2>1, <2>2
  <2>3. CASE High(B)
    <3>1. PICK v \in B : \A w \in B : f[w] <= f[v]
      BY <2>3
    <3>2. CASE f[a] <= f[v]
      BY <3>1, <3>2
    <3>3. CASE ~(f[a] <= f[v])
      BY <1>4, <2>1, <3>1, <3>3
    <3> QED
      BY <3>2, <3>3
  <2> QED
    BY <1>6, <2>2, <2>3
<1> QED
  BY <1>3, <1>7

\* The highest commit rank is a number.
LEMMA TopIsNat ==
    ASSUME rank \in [Vertices -> Nat], Vertices # {}
    PROVE  Top \in Nat
<1> DEFINE Ranks == {rank[v] : v \in DOMAIN rank}
<1>1. PICK v \in Vertices : \A w \in Vertices : rank[w] <= rank[v]
  BY SomeIsHighest, GraphIsFinite
<1>2. \E n \in Ranks : \A w \in DOMAIN rank : rank[w] <= n
  BY <1>1
<1>3. Top \in Ranks
  BY <1>2 DEF Top
<1> QED
  BY <1>3

\* An order of a plan's nodes has each of them at some place.
LEMMA OrdersAreWhole ==
    ASSUME NEW plan, plan.registers \subseteq Refs, NEW order \in RegistrationOrders(plan),
           NEW ref \in plan.registers
    PROVE  (CHOOSE i \in DOMAIN order : order[i] = ref) \in Nat \ {0}
<1> DEFINE S == plan.registers
<1> DEFINE n == Cardinality(S)
<1>1. S \subseteq Vertices
  BY DEF Vertices
<1>2. IsFiniteSet(S)
  BY <1>1, GraphIsFinite, FS_Subset
<1>3. n \in Nat
  BY <1>2, FS_CardinalityType
<1>4. order \in SetToSeqs(S)
  BY DEF RegistrationOrders
<1>5. order \in [1 .. n -> S] /\ \A i, j \in 1 .. n : i # j => order[i] # order[j]
  BY <1>4 DEF SetToSeqs
<1>6. order \in Injection(1 .. n, S)
  BY <1>5 DEF Injection, IsInjective
<1>7. Cardinality(1 .. n) = n
  BY <1>3, FS_Interval
<1>8. order \in Surjection(1 .. n, S)
  BY <1>2, <1>6, <1>7, FS_Injection
<1>9. \E i \in DOMAIN order : order[i] = ref
  BY <1>5, <1>8 DEF Surjection
<1> HIDE DEF n
<1>10. DOMAIN order \subseteq Nat \ {0}
  BY <1>3, <1>5
<1> QED
  BY <1>9, <1>10

-----------------------------------------------------------------------------
(***************************************************************************)
(* The inductive invariant.                                                *)
(***************************************************************************)

\* A plan takes each row's content from what was staged, and registers what it maps.
IsPlan(plan) ==
    /\ plan.staged \in Contents
    /\ plan.registers \subseteq Refs
    /\ \A x \in NodeRows : plan.status[x] = "mapped" => Describes[x] \in plan.registers

\* A checkpoint has one plan at most.
IsCheckpoint(c) ==
    /\ {"phase", "cursor", "done", "parity", "plan"} \subseteq DOMAIN c
    /\ \A p \in c.plan : IsPlan(p) /\ c.plan = {p}

InGraph(x) == EdgesOf(x) \subseteq edges /\ (x \in NodeRows => Describes[x] \in Registered)

\* Row x stands as the plan says.
AsPlanned(x, plan) ==
    /\ records[x].status = plan.status[x]
    /\ records[x].content = plan.staged[x]
    /\ plan.status[x] = "mapped" => InGraph(x)

IsComplete == Phase = "complete"
OneCheckpoint == checkpoint = {} \/ \E c : checkpoint = {c} /\ IsCheckpoint(c)
TablesAreTyped == legacy \in Contents /\ staging \in Contents
GraphIsTyped == rank \in [Vertices -> Nat] /\ DOMAIN records = Rows

\* What a runner has in hand at each of its steps.
InHand(r) ==
    /\ {"at", "failure", "snapshot", "checkpoint", "seen", "known", "listed", "plan"} \subseteq DOMAIN run[r]
    /\ run[r].snapshot \in Contents /\ run[r].seen \in Contents
    /\ IsCheckpoint(run[r].checkpoint)
    /\ run[r].at = "audit" => run[r].listed = run[r].snapshot
    /\ run[r].at \in {"mark", "apply"} =>
          \E p : run[r].plan = {p} /\ IsPlan(p) /\ p.staged = run[r].snapshot
    /\ run[r].at = "apply" => run[r].checkpoint.plan = run[r].plan
RunsAreInHand == DOMAIN run = Runners /\ \A r \in Runners : InHand(r)

\* A copy is of a complete checkpoint only if that is complete.
CopiesAreNotAhead ==
    \A r \in Runners : run[r].checkpoint.phase = "complete" => IsComplete


\* A run that overlaps the one that completes may go on to record rows that are new since.
RecordsAreOfThePlan ==
    ~IsComplete => \A x \in Rows :
        records[x].status # "none" /\ records[x].content # "event" =>
            \E plan \in StoredPlan : AsPlanned(x, plan)
CompleteIsAsPlanned ==
    IsComplete => \A plan \in StoredPlan : \A x \in Rows :
        plan.status[x] # "none" => records[x].status # "none" /\ AsPlanned(x, plan)

BackfillInv ==
    /\ OneCheckpoint
    /\ TablesAreTyped
    /\ GraphIsTyped
    /\ RunsAreInHand
    /\ CopiesAreNotAhead
    /\ RecordsAreOfThePlan
    /\ CompleteIsAsPlanned

\* What is stored of a single checkpoint.
LEMMA StoredOfOne ==
    ASSUME NEW c, checkpoint = {c}
    PROVE  Phase = c.phase /\ StoredPlan = c.plan
BY DEF Phase, StoredPlan

\* Nothing is stored without a checkpoint.
LEMMA StoredOfNone ==
    ASSUME checkpoint = {}
    PROVE  Phase = "scanning" /\ StoredPlan = {}
BY DEF Phase, StoredPlan

-----------------------------------------------------------------------------
(***************************************************************************)
(* What the checkpoint and the graph do in a step.                         *)
(***************************************************************************)

\* The stored plan stays, and so does a complete checkpoint.
PlanStays ==
    /\ OneCheckpoint'
    /\ StoredPlan \subseteq StoredPlan'
    /\ IsComplete => checkpoint' = checkpoint

\* What is recorded stays, and what is in the graph stays there.
RecordsStay ==
    /\ GraphIsTyped'
    /\ \A x \in Rows : records[x].status # "none" => records'[x] = records[x]
    /\ edges \subseteq edges'
    /\ Registered \subseteq Registered'

\* A checkpoint that is left alone stays.
LEMMA PlanLeft ==
    ASSUME OneCheckpoint, checkpoint' = checkpoint
    PROVE  PlanStays /\ (IsComplete' <=> IsComplete)
BY DEF PlanStays, OneCheckpoint, StoredPlan, IsComplete, Phase

\* A graph that is left alone stays.
LEMMA RecordsLeft ==
    ASSUME GraphIsTyped, UNCHANGED kernel
    PROVE  RecordsStay
BY DEF RecordsStay, GraphIsTyped, kernel, Registered

\* A row that stands as a plan says goes on to do so.
LEMMA PlannedStays ==
    ASSUME RecordsStay, NEW x \in Rows, NEW plan, records[x].status # "none", AsPlanned(x, plan)
    PROVE  AsPlanned(x, plan)'
<1>1. InGraph(x) => InGraph(x)'
  BY DEF RecordsStay, InGraph
<1> QED
  BY <1>1 DEF RecordsStay, AsPlanned

\* An update that the database accepts keeps the stored plan.
LEMMA UpdateKeepsPlan ==
    ASSUME OneCheckpoint, NEW c, IsCheckpoint(c), Updatable(c), Update(c)
    PROVE  /\ PlanStays
           /\ ~IsComplete => checkpoint' = {c} /\ StoredPlan' = c.plan /\ (IsComplete' <=> c.phase = "complete")
<1>1. CASE IsComplete
  <2>1. checkpoint' = checkpoint
    BY <1>1 DEF Update, IsComplete
  <2> QED
    BY <1>1, <2>1, PlanLeft
<1>2. CASE ~IsComplete
  <2>1. checkpoint' = {c} /\ StoredPlan \subseteq c.plan
    BY <1>2 DEF Update, Updatable, IsComplete
  <2>2. StoredPlan' = c.plan /\ Phase' = c.phase
    BY <2>1 DEF StoredPlan, Phase
  <2>3. OneCheckpoint'
    BY <2>1 DEF OneCheckpoint
  <2> QED
    BY <1>2, <2>1, <2>2, <2>3 DEF PlanStays, IsComplete
<1> QED
  BY <1>1, <1>2

\* A complete migration stays complete.
LEMMA CompleteStays ==
    ASSUME PlanStays
    PROVE  IsComplete => IsComplete'
BY DEF PlanStays, IsComplete, Phase

\* While the graph stays and nothing becomes complete, a step that leaves each runner what it must
\* have in hand keeps the invariant.
LEMMA StayingKeeps ==
    ASSUME BackfillInv, PlanStays, RecordsStay, IsComplete' => IsComplete,
           TablesAreTyped', RunsAreInHand', CopiesAreNotAhead',
           \A x \in Rows : ~IsComplete /\ records[x].status = "none" /\ records'[x] # records[x] =>
               records'[x].content = "event"
    PROVE  BackfillInv' /\ (IsComplete' => IsComplete)
<1>1. RecordsAreOfThePlan'
  <2> SUFFICES ASSUME ~IsComplete', NEW x \in Rows, records'[x].status # "none", records'[x].content # "event"
               PROVE  \E plan \in StoredPlan' : AsPlanned(x, plan)'
    BY DEF RecordsAreOfThePlan
  <2>0. ~IsComplete
    BY CompleteStays
  <2>1. records[x].status # "none"
    BY <2>0
  <2>2. records'[x] = records[x]
    BY <2>1 DEF RecordsStay
  <2>3. PICK plan \in StoredPlan : AsPlanned(x, plan)
    BY <2>0, <2>1, <2>2 DEF BackfillInv, RecordsAreOfThePlan
  <2> QED
    BY <2>1, <2>3, PlannedStays DEF PlanStays
<1>2. CompleteIsAsPlanned'
  <2> SUFFICES ASSUME IsComplete', NEW plan \in StoredPlan', NEW x \in Rows, plan.status[x] # "none"
               PROVE  records'[x].status # "none" /\ AsPlanned(x, plan)'
    BY DEF CompleteIsAsPlanned
  <2>1. plan \in StoredPlan
    BY DEF PlanStays, StoredPlan
  <2>2. records[x].status # "none" /\ AsPlanned(x, plan)
    BY <2>1 DEF BackfillInv, CompleteIsAsPlanned
  <2> QED
    BY <2>2, PlannedStays DEF RecordsStay
<1> QED
  BY <1>1, <1>2 DEF BackfillInv, PlanStays, RecordsStay

-----------------------------------------------------------------------------
(***************************************************************************)
(* The steps of a runner that leave the graph alone.                       *)
(***************************************************************************)

\* Only runner r goes on, and has in hand what it must have.
GoesOn(r) ==
    /\ DOMAIN run' = Runners
    /\ \A s \in Runners : s # r => run'[s] = run[s]
    /\ InHand(r)'
    /\ run'[r].checkpoint.phase = "complete" => IsComplete

\* A runner that goes on leaves every runner what it must have.
LEMMA OthersGoOn ==
    ASSUME BackfillInv, PlanStays, NEW r \in Runners, GoesOn(r)
    PROVE  RunsAreInHand' /\ CopiesAreNotAhead'
<1>1. \A s \in Runners : s # r => InHand(s)'
  BY DEF BackfillInv, RunsAreInHand, GoesOn, InHand
<1>2. RunsAreInHand'
  BY <1>1 DEF RunsAreInHand, GoesOn
<1>3. CopiesAreNotAhead'
  BY CompleteStays DEF BackfillInv, CopiesAreNotAhead, GoesOn
<1> QED
  BY <1>2, <1>3

\* A runner that goes on beside the graph keeps the invariant.
LEMMA GoingOnKeeps ==
    ASSUME BackfillInv, NEW r \in Runners, GoesOn(r), PlanStays, IsComplete' => IsComplete,
           TablesAreTyped', UNCHANGED kernel
    PROVE  BackfillInv' /\ (IsComplete' => IsComplete)
<1>1. RecordsStay
  BY RecordsLeft DEF BackfillInv
<1> QED
  BY <1>1, OthersGoOn, StayingKeeps DEF kernel

\* The checkpoint that a migration starts with.
LEMMA InitialIsCheckpoint ==
    IsCheckpoint(InitialCheckpoint) /\ InitialCheckpoint.phase = "scanning" /\ InitialCheckpoint.plan = {}
BY DEF InitialCheckpoint, IsCheckpoint

\* No content is content.
LEMMA NothingIsContents == Nothing \in Contents
BY DEF Nothing, Contents, Content

\* A runner that fails or stops has nothing in hand.
LEMMA FailGoesOn ==
    ASSUME BackfillInv, NEW r \in Runners, NEW failure, Fail(r, failure)
    PROVE  GoesOn(r) /\ run'[r].at = "idle"
<1>1. run' = [run EXCEPT ![r] = Idle(failure)] /\ DOMAIN run = Runners
  BY DEF Fail, BackfillInv, RunsAreInHand
<1>2. run'[r] = Idle(failure)
  BY <1>1
<1>3. /\ DOMAIN run' = Runners
      /\ \A s \in Runners : s # r => run'[s] = run[s]
  BY <1>1
<1>4. run'[r].at = "idle" /\ run'[r].checkpoint = InitialCheckpoint
  BY <1>2 DEF Idle
<1>5. InHand(r)'
  BY <1>2, <1>4, InitialIsCheckpoint, NothingIsContents DEF Idle, InHand
<1> QED
  BY <1>3, <1>4, <1>5, InitialIsCheckpoint DEF GoesOn

\* A failure that leaves the stores alone keeps the invariant.
LEMMA FailKeeps ==
    ASSUME BackfillInv, NEW r \in Runners, NEW failure, Fail(r, failure),
           UNCHANGED <<stored, kernel, world>>
    PROVE  BackfillInv' /\ (IsComplete' => IsComplete)
<1>1. PlanStays /\ (IsComplete' <=> IsComplete) /\ TablesAreTyped'
  BY PlanLeft DEF BackfillInv, stored, world, TablesAreTyped
<1> QED
  BY <1>1, FailGoesOn, GoingOnKeeps

\* A transaction that stores a checkpoint keeps the invariant, whether it is refused or not.
LEMMA StoreKeeps ==
    ASSUME BackfillInv, NEW r \in Runners, NEW c, IsCheckpoint(c),
           c.phase = "complete" => IsComplete,
           NEW at \in {"scan", "apply"}, StoreAndGoOn(r, c, at),
           at = "apply" => run[r].at = "mark" /\ c.plan = run[r].plan,
           TablesAreTyped', UNCHANGED kernel
    PROVE  BackfillInv' /\ (IsComplete' => IsComplete)
<1>1. CASE Updatable(c)
  <2>1. Update(c) /\ run' = [run EXCEPT ![r].checkpoint = c, ![r].at = at]
    BY <1>1 DEF StoreAndGoOn
  <2>2. PlanStays /\ (IsComplete' => IsComplete)
    BY <1>1, <2>1, UpdateKeepsPlan, CompleteStays DEF BackfillInv
  <2>3. InHand(r) /\ DOMAIN run = Runners
    BY DEF BackfillInv, RunsAreInHand
  <2>4. /\ DOMAIN run' = Runners
        /\ \A s \in Runners : s # r => run'[s] = run[s]
        /\ DOMAIN run'[r] = DOMAIN run[r]
        /\ run'[r].checkpoint = c /\ run'[r].at = at
        /\ run'[r].snapshot = run[r].snapshot /\ run'[r].seen = run[r].seen
        /\ run'[r].plan = run[r].plan
    BY <2>1, <2>3 DEF InHand
  <2>5. InHand(r)'
    BY <2>3, <2>4 DEF InHand
  <2>6. GoesOn(r)
    BY <2>4, <2>5 DEF GoesOn
  <2> QED
    BY <2>2, <2>6, GoingOnKeeps
<1>2. CASE ~Updatable(c)
  <2>1. Fail(r, "refused") /\ checkpoint' = checkpoint
    BY <1>2 DEF StoreAndGoOn
  <2>2. PlanStays /\ (IsComplete' <=> IsComplete)
    BY <2>1, PlanLeft DEF BackfillInv
  <2> QED
    BY <2>1, <2>2, FailGoesOn, GoingOnKeeps
<1> QED
  BY <1>1, <1>2

\* A checkpoint that is there is one.
LEMMA TheCheckpoint ==
    ASSUME OneCheckpoint, checkpoint # {}
    PROVE  /\ (CHOOSE c \in checkpoint : TRUE) \in checkpoint
           /\ IsCheckpoint(CHOOSE c \in checkpoint : TRUE)
           /\ (CHOOSE c \in checkpoint : TRUE).phase = Phase
BY DEF OneCheckpoint, Phase

\* A run that begins takes its snapshot and a copy of the checkpoint.
LEMMA BeginKeeps ==
    ASSUME BackfillInv, NEW r \in Runners, Begin(r)
    PROVE  BackfillInv' /\ (IsComplete' => IsComplete)
<1> DEFINE at == IF checkpoint = {} THEN "ensure" ELSE "scan"
<1> DEFINE copy == IF checkpoint = {} THEN InitialCheckpoint ELSE CHOOSE c \in checkpoint : TRUE
<1> DEFINE seen == staging
<1> DEFINE known == Registered
<1>1. run' = [run EXCEPT ![r] = [Idle("no") EXCEPT !.at = at, !.snapshot = legacy, !.checkpoint = copy,
                                                   !.seen = seen, !.known = known]]
  BY DEF Begin
<1>2. seen \in Contents /\ legacy \in Contents
  BY NothingIsContents DEF BackfillInv, TablesAreTyped
<1>3. IsCheckpoint(copy) /\ copy.phase # "complete"
  BY TheCheckpoint, InitialIsCheckpoint DEF Begin, BackfillInv
<1>4. at \in {"ensure", "scan"}
  OBVIOUS
<1> HIDE DEF at, copy, seen, known
<1>5. DOMAIN run = Runners
  BY DEF BackfillInv, RunsAreInHand
<1>6. run'[r] = [Idle("no") EXCEPT !.at = at, !.snapshot = legacy, !.checkpoint = copy,
                                   !.seen = seen, !.known = known]
  BY <1>1, <1>5
<1>7. /\ run'[r].at = at /\ run'[r].snapshot = legacy /\ run'[r].checkpoint = copy /\ run'[r].seen = seen
      /\ {"at", "failure", "snapshot", "checkpoint", "seen", "known", "listed", "plan"} \subseteq DOMAIN run'[r]
  BY <1>6 DEF Idle
<1>8. InHand(r)'
  BY <1>2, <1>3, <1>4, <1>7 DEF InHand
<1>9. GoesOn(r)
  BY <1>1, <1>3, <1>5, <1>7, <1>8 DEF GoesOn
<1>10. PlanStays /\ (IsComplete' <=> IsComplete) /\ TablesAreTyped' /\ UNCHANGED kernel
  BY PlanLeft DEF Begin, BackfillInv, stored, world, TablesAreTyped
<1> QED
  BY <1>9, <1>10, GoingOnKeeps

\* A run that finds no checkpoint stores one, or takes the one that is there by now.
LEMMA EnsureKeeps ==
    ASSUME BackfillInv, NEW r \in Runners, Ensure(r)
    PROVE  BackfillInv' /\ (IsComplete' => IsComplete)
<1> DEFINE copy == CHOOSE c \in checkpoint' : TRUE
<1>1. checkpoint' = IF checkpoint = {} THEN {InitialCheckpoint} ELSE checkpoint
  BY DEF Ensure
<1>2. OneCheckpoint' /\ checkpoint' # {}
  BY <1>1, InitialIsCheckpoint DEF BackfillInv, OneCheckpoint
<1>3. PlanStays /\ (IsComplete' <=> IsComplete)
  <2>1. CASE checkpoint = {}
    <3>1. Phase = "scanning" /\ StoredPlan = {}
      BY <2>1, StoredOfNone
    <3>2. Phase' = "scanning"
      BY <1>1, <2>1, InitialIsCheckpoint DEF Phase
    <3> QED
      BY <1>2, <3>1, <3>2 DEF PlanStays, IsComplete
  <2>2. CASE checkpoint # {}
    BY <1>1, <2>2, PlanLeft DEF BackfillInv
  <2> QED
    BY <2>1, <2>2
<1>4. IsCheckpoint(copy) /\ (copy.phase = "complete" => IsComplete)
  BY <1>2, <1>3 DEF OneCheckpoint, IsComplete, Phase
<1>5. run' = [run EXCEPT ![r].at = "scan", ![r].checkpoint = copy]
  BY DEF Ensure
<1> HIDE DEF copy
<1>6. InHand(r) /\ DOMAIN run = Runners
  BY DEF BackfillInv, RunsAreInHand
<1>7. /\ DOMAIN run' = Runners
      /\ \A s \in Runners : s # r => run'[s] = run[s]
      /\ DOMAIN run'[r] = DOMAIN run[r]
      /\ run'[r].checkpoint = copy /\ run'[r].at = "scan"
      /\ run'[r].snapshot = run[r].snapshot /\ run'[r].seen = run[r].seen
  BY <1>5, <1>6 DEF InHand
<1>8. GoesOn(r)
  BY <1>4, <1>6, <1>7 DEF GoesOn, InHand
<1>9. TablesAreTyped' /\ UNCHANGED kernel
  BY DEF Ensure, BackfillInv, TablesAreTyped, world
<1> QED
  BY <1>3, <1>8, <1>9, GoingOnKeeps

\* A runner's copy of the checkpoint is one, and not ahead of it.
LEMMA TheCopy ==
    ASSUME BackfillInv, NEW r \in Runners
    PROVE  /\ InHand(r) /\ DOMAIN run = Runners
           /\ IsCheckpoint(run[r].checkpoint)
           /\ run[r].checkpoint.phase = "complete" => IsComplete
BY DEF BackfillInv, RunsAreInHand, InHand, CopiesAreNotAhead

\* A page is staged with the contents of the run's snapshot.
LEMMA StagePageKeeps ==
    ASSUME BackfillInv, NEW r \in Runners, StagePage(r)
    PROVE  BackfillInv' /\ (IsComplete' => IsComplete)
<1> DEFINE c == run[r].checkpoint
<1> DEFINE s == Current(c)
<1> DEFINE page == Page(After(r, s))
<1> DEFINE rows == {Scan[s][i] : i \in page}
<1> DEFINE more == page # After(r, s)
<1> DEFINE last == CHOOSE i \in page : \A j \in page : j <= i
<1> DEFINE cursor == IF more THEN last ELSE 0
<1> DEFINE done == IF more THEN c.done ELSE c.done \union {s}
<1> DEFINE next == [c EXCEPT !.cursor[s] = cursor, !.done = done]
<1>1. /\ \/ Fail(r, "source") /\ UNCHANGED stored
         \/ /\ StoreAndGoOn(r, next, "scan")
            /\ staging' = IF Updatable(next)
                          THEN [x \in Rows |-> IF x \in rows THEN run[r].snapshot[x] ELSE staging[x]]
                          ELSE staging
      /\ UNCHANGED <<kernel, world, crashes>>
  BY DEF StagePage
<1>2. next = [c EXCEPT !.cursor[s] = cursor, !.done = done]
  OBVIOUS
<1> HIDE DEF s, page, rows, more, last, cursor, done, next
<1>3. IsCheckpoint(c) /\ (c.phase = "complete" => IsComplete) /\ InHand(r)
  BY TheCopy
<1>4. DOMAIN next = DOMAIN c /\ next.phase = c.phase /\ next.plan = c.plan
  BY <1>2, <1>3 DEF IsCheckpoint
<1>5. IsCheckpoint(next) /\ (next.phase = "complete" => IsComplete)
  BY <1>3, <1>4 DEF IsCheckpoint
<1>6. CASE Fail(r, "source") /\ UNCHANGED stored
  BY <1>1, <1>6, FailKeeps
<1>7. CASE /\ StoreAndGoOn(r, next, "scan")
           /\ staging' = IF Updatable(next)
                         THEN [x \in Rows |-> IF x \in rows THEN run[r].snapshot[x] ELSE staging[x]]
                         ELSE staging
  <2>1. run[r].snapshot \in Contents /\ staging \in Contents
    BY <1>3 DEF InHand, BackfillInv, TablesAreTyped
  <2>2. staging' \in Contents
    BY <1>7, <2>1 DEF Contents
  <2>3. TablesAreTyped'
    BY <1>1, <2>2 DEF BackfillInv, TablesAreTyped, world
  <2> QED
    BY <1>1, <1>5, <1>7, <2>3, StoreKeeps
<1> QED
  BY <1>1, <1>6, <1>7

\* A runner that only reads keeps the invariant if it then has in hand what it must have.
LEMMA ReadingKeeps ==
    ASSUME BackfillInv, NEW r \in Runners, NEW at, NEW listed, NEW plan,
           run' = [run EXCEPT ![r].at = at, ![r].listed = listed, ![r].plan = plan],
           at \in {"store", "audit", "mark"},
           at = "audit" => listed = run[r].snapshot,
           at = "mark" => \E p : plan = {p} /\ IsPlan(p) /\ p.staged = run[r].snapshot,
           UNCHANGED <<stored, kernel, world>>
    PROVE  BackfillInv' /\ (IsComplete' => IsComplete)
<1>1. InHand(r) /\ DOMAIN run = Runners /\ (run[r].checkpoint.phase = "complete" => IsComplete)
  BY TheCopy
<1>2. /\ DOMAIN run' = Runners
      /\ \A s \in Runners : s # r => run'[s] = run[s]
      /\ DOMAIN run'[r] = DOMAIN run[r]
      /\ run'[r].at = at /\ run'[r].listed = listed /\ run'[r].plan = plan
      /\ run'[r].snapshot = run[r].snapshot /\ run'[r].seen = run[r].seen
      /\ run'[r].checkpoint = run[r].checkpoint
  BY <1>1 DEF InHand
<1>3. GoesOn(r)
  BY <1>1, <1>2 DEF GoesOn, InHand
<1>4. PlanStays /\ (IsComplete' <=> IsComplete) /\ TablesAreTyped'
  BY PlanLeft DEF BackfillInv, stored, world, TablesAreTyped
<1> QED
  BY <1>3, <1>4, GoingOnKeeps

\* The rows of a source are listed, and stored as its parity.
LEMMA ParityKeeps ==
    ASSUME BackfillInv, NEW r \in Runners, ListSource(r) \/ StoreParity(r)
    PROVE  BackfillInv' /\ (IsComplete' => IsComplete)
<1> DEFINE s == Current(run[r].checkpoint)
<1>1. InHand(r) /\ DOMAIN run = Runners /\ IsCheckpoint(run[r].checkpoint)
      /\ (run[r].checkpoint.phase = "complete" => IsComplete)
  BY TheCopy
<1>2. CASE ListSource(r)
  <2> DEFINE listed == Restricted(StagedSeenBy(r), s)
  <2>1. run' = [run EXCEPT ![r].at = "store", ![r].listed = listed]
    BY <1>2 DEF ListSource
  <2> HIDE DEF s, listed
  <2>2. run' = [run EXCEPT ![r].at = "store", ![r].listed = listed, ![r].plan = run[r].plan]
    BY <1>1, <2>1 DEF InHand
  <2>3. UNCHANGED <<stored, kernel, world>>
    BY <1>2 DEF ListSource
  <2> QED
    BY <2>2, <2>3, ReadingKeeps
<1>3. CASE StoreParity(r)
  <2> DEFINE next == [run[r].checkpoint EXCEPT !.parity[s] = {run[r].listed}]
  <2>1. StoreAndGoOn(r, next, "scan") /\ UNCHANGED <<staging, kernel, world>>
    BY <1>3 DEF StoreParity
  <2> HIDE DEF s
  <2>2. IsCheckpoint(next) /\ next.phase = run[r].checkpoint.phase
    BY <1>1 DEF IsCheckpoint
  <2> HIDE DEF next
  <2>3. TablesAreTyped'
    BY <2>1 DEF BackfillInv, TablesAreTyped, world
  <2> QED
    BY <1>1, <2>1, <2>2, <2>3, StoreKeeps
<1> QED
  BY <1>2, <1>3

\* A run goes on to its audit only with what its snapshot holds.
LEMMA RescanKeeps ==
    ASSUME BackfillInv, NEW r \in Runners, Rescan(r)
    PROVE  BackfillInv' /\ (IsComplete' => IsComplete)
<1>1. InHand(r) /\ DOMAIN run = Runners
  BY TheCopy
<1>2. CASE StagedSeenBy(r) = run[r].snapshot
  <2>1. run' = [run EXCEPT ![r].at = "audit", ![r].listed = run[r].snapshot]
    BY <1>2 DEF Rescan
  <2>2. run' = [run EXCEPT ![r].at = "audit", ![r].listed = run[r].snapshot, ![r].plan = run[r].plan]
    BY <1>1, <2>1 DEF InHand
  <2> QED
    BY <2>2, ReadingKeeps DEF Rescan
<1>3. CASE StagedSeenBy(r) # run[r].snapshot
  BY <1>3, FailKeeps DEF Rescan
<1> QED
  BY <1>2, <1>3

\* What the audit makes of contents is a plan for them, which maps a node only if it registers it.
LEMMA BuiltIsPlan ==
    ASSUME NEW staged \in Contents, NEW known
    PROVE  IsPlan(BuiltPlan(staged, known)) /\ BuiltPlan(staged, known).staged = staged
<1> DEFINE accepted == Accepted(staged, known)
<1> DEFINE cyclic == Cyclic(staged)
<1> DEFINE missing == [x \in RelationRows |->
                          IF x \in Live(staged)
                          THEN {Joins[x].source, Joins[x].target} \ (known \union accepted)
                          ELSE {}]
<1> DEFINE status(x) ==
            CASE staged[x] = "absent" -> "none"
              [] staged[x] = "unanchored" -> "quarantined"
              [] staged[x] = "deleted" -> "archived"
              [] x \in NodeRows /\ Describes[x] \notin accepted -> "quarantined"
              [] x \in RelationRows /\ (x \in cyclic \/ missing[x] # {}) -> "quarantined"
              [] OTHER -> "mapped"
<1> DEFINE plan == [staged |-> staged, status |-> [x \in Rows |-> status(x)],
                    missing |-> missing, registers |-> accepted]
<1>1. BuiltPlan(staged, known) = plan
  BY DEF BuiltPlan
<1>2. accepted \subseteq Refs
  BY DEF Accepted, Candidates, Refs
<1>3. \A x \in NodeRows : status(x) = "mapped" => Describes[x] \in accepted
  <2> SUFFICES ASSUME NEW x \in NodeRows, Describes[x] \notin accepted
               PROVE  status(x) \in {"none", "quarantined", "archived"}
    OBVIOUS
  <2> HIDE DEF accepted, cyclic, missing
  <2> QED
    OBVIOUS
<1> HIDE DEF accepted, cyclic, missing, status
<1>4. \A x \in NodeRows : plan.status[x] = status(x)
  BY DEF Rows
<1>5. plan.staged = staged /\ plan.registers = accepted
  OBVIOUS
<1> HIDE DEF plan
<1> QED
  BY <1>1, <1>2, <1>3, <1>4, <1>5 DEF IsPlan

\* An audit that agrees with the checkpoint leaves its runner with the plan of its snapshot.
LEMMA AuditKeeps ==
    ASSUME BackfillInv, NEW r \in Runners, Audit(r)
    PROVE  BackfillInv' /\ (IsComplete' => IsComplete)
<1> DEFINE plan == BuiltPlan(run[r].listed, KnownTo(r))
<1>1. /\ \/ \E failure : Fail(r, failure)
         \/ run' = [run EXCEPT ![r].at = "mark", ![r].plan = {plan}]
      /\ UNCHANGED <<stored, kernel, world>>
  BY DEF Audit
<1>2. InHand(r) /\ DOMAIN run = Runners
  BY TheCopy
<1>3. run[r].listed = run[r].snapshot /\ run[r].listed \in Contents
  BY <1>2 DEF InHand, Audit
<1>4. IsPlan(plan) /\ plan.staged = run[r].snapshot
  BY <1>3, BuiltIsPlan
<1> HIDE DEF plan
<1>5. CASE \E failure : Fail(r, failure)
  BY <1>1, <1>5, FailKeeps
<1>6. CASE run' = [run EXCEPT ![r].at = "mark", ![r].plan = {plan}]
  <2>1. run' = [run EXCEPT ![r].at = "mark", ![r].listed = run[r].listed, ![r].plan = {plan}]
    BY <1>2, <1>6 DEF InHand
  <2>2. \E p : {plan} = {p} /\ IsPlan(p) /\ p.staged = run[r].snapshot
    BY <1>4
  <2> QED
    BY <1>1, <2>1, <2>2, ReadingKeeps
<1> QED
  BY <1>1, <1>5, <1>6

\* The plan that is stored is the runner's.
LEMMA MarkKeeps ==
    ASSUME BackfillInv, NEW r \in Runners, MarkApplying(r)
    PROVE  BackfillInv' /\ (IsComplete' => IsComplete)
<1> DEFINE next == [run[r].checkpoint EXCEPT !.phase = "applying", !.plan = run[r].plan]
<1>1. StoreAndGoOn(r, next, "apply") /\ UNCHANGED <<staging, kernel, world>> /\ run[r].at = "mark"
  BY DEF MarkApplying
<1>2. InHand(r) /\ IsCheckpoint(run[r].checkpoint)
  BY TheCopy
<1>3. DOMAIN next = DOMAIN run[r].checkpoint /\ next.phase = "applying" /\ next.plan = run[r].plan
  BY <1>2 DEF IsCheckpoint
<1>4. IsCheckpoint(next)
  BY <1>1, <1>2, <1>3 DEF IsCheckpoint, InHand
<1> HIDE DEF next
<1>5. TablesAreTyped'
  BY <1>1 DEF BackfillInv, TablesAreTyped, world
<1> QED
  BY <1>1, <1>3, <1>4, <1>5, StoreKeeps

-----------------------------------------------------------------------------
(***************************************************************************)
(* What writes to the graph.                                               *)
(***************************************************************************)

\* Whatever is registered has a rank, and keeps it.
LEMMA RanksStay ==
    ASSUME GraphIsTyped, NEW plan, IsPlan(plan), NEW order \in RegistrationOrders(plan),
           NEW v \in Vertices
    PROVE  /\ RanksAfter(plan, order)[v] \in Nat
           /\ rank[v] # 0 => RanksAfter(plan, order)[v] = rank[v]
           /\ v \in plan.registers => RanksAfter(plan, order)[v] # 0
<1> DEFINE place == CHOOSE i \in DOMAIN order : order[i] = v
<1>1. Top \in Nat /\ rank[v] \in Nat
  BY TopIsNat DEF GraphIsTyped
<1>2. v \in plan.registers => place \in Nat \ {0}
  BY OrdersAreWhole DEF IsPlan
<1>3. Len(order) \in Nat
  <2>1. order \in [1 .. Cardinality(plan.registers) -> plan.registers]
    BY DEF RegistrationOrders, SetToSeqs
  <2>2. Cardinality(plan.registers) \in Nat
    <3>1. plan.registers \subseteq Vertices
      BY DEF IsPlan, Vertices
    <3> QED
      BY <3>1, GraphIsFinite, FS_Subset, FS_CardinalityType
  <2> QED
    BY <2>1, <2>2
<1>4. RanksAfter(plan, order)[v] =
        CASE rank[v] # 0 -> rank[v]
          [] rank[v] = 0 /\ v \in plan.registers -> Top + place
          [] rank[v] = 0 /\ v \in NewMotifs(plan) -> Top + Len(order) + 1
          [] OTHER -> 0
  BY DEF RanksAfter
<1> HIDE DEF place
<1>5. CASE rank[v] # 0
  BY <1>1, <1>4, <1>5
<1>6. CASE rank[v] = 0 /\ v \in plan.registers /\ v \notin NewMotifs(plan)
  <2>1. RanksAfter(plan, order)[v] = Top + place
    BY <1>4, <1>6
  <2> QED
    BY <1>1, <1>2, <1>6, <2>1
<1>7. CASE rank[v] = 0 /\ v \notin plan.registers /\ v \in NewMotifs(plan)
  <2>1. RanksAfter(plan, order)[v] = Top + Len(order) + 1
    BY <1>4, <1>7
  <2> QED
    BY <1>1, <1>3, <1>7, <2>1
<1>8. CASE rank[v] = 0 /\ v \notin plan.registers /\ v \notin NewMotifs(plan)
  BY <1>4, <1>8
<1>9. CASE rank[v] = 0 /\ v \in plan.registers /\ v \in NewMotifs(plan)
  <2>1. RanksAfter(plan, order)[v] \in {Top + place, Top + Len(order) + 1}
    BY <1>4, <1>9
  <2> QED
    BY <1>1, <1>2, <1>3, <1>9, <2>1
<1> QED
  BY <1>5, <1>6, <1>7, <1>8, <1>9

\* A plan that is applied leaves what is recorded and records the rest as it says.
LEMMA ApplyRecords ==
    ASSUME GraphIsTyped, NEW plan, IsPlan(plan), NEW order \in RegistrationOrders(plan),
           rank' = RanksAfter(plan, order), edges' = edges \union NewEdges(plan),
           records' = Recordings(plan)
    PROVE  RecordsStay /\ \A x \in Unrecorded(plan) : AsPlanned(x, plan)'
<1>1. DOMAIN rank' = Vertices /\ DOMAIN records' = Rows
  BY DEF RanksAfter, Recordings
<1>2. rank' \in [Vertices -> Nat]
  <2>1. \A v \in Vertices : rank'[v] \in Nat
    BY RanksStay
  <2>2. rank' = [v \in Vertices |-> rank'[v]]
    BY DEF RanksAfter
  <2> QED
    BY <2>1, <2>2
<1>3. Registered \subseteq Registered'
  BY RanksStay DEF Registered, Vertices
<1>4. \A x \in Rows : records[x].status # "none" => records'[x] = records[x]
  BY DEF Recordings, Unrecorded
<1>5. RecordsStay
  BY <1>1, <1>2, <1>3, <1>4 DEF RecordsStay, GraphIsTyped
<1>6. ASSUME NEW x \in Unrecorded(plan)
      PROVE  AsPlanned(x, plan)'
  <2>1. x \in Rows /\ records'[x] = [content |-> plan.staged[x], status |-> plan.status[x]]
    BY <1>6 DEF Recordings, Unrecorded
  <2>2. ASSUME plan.status[x] = "mapped"
        PROVE  InGraph(x)'
    <3>1. EdgesOf(x) \subseteq NewEdges(plan)
      BY <1>6, <2>2 DEF NewEdges
    <3>2. EdgesOf(x)' = EdgesOf(x)
      BY DEF EdgesOf
    <3>3. x \in NodeRows => Describes[x] \in Refs /\ Describes[x] \in plan.registers
      BY <2>2 DEF IsPlan, Refs
    <3>4. x \in NodeRows => Describes[x] \in Registered'
      BY <3>3, RanksStay DEF Registered, Vertices
    <3> QED
      BY <3>1, <3>2, <3>4 DEF InGraph
  <2> QED
    BY <2>1, <2>2 DEF AsPlanned
<1> QED
  BY <1>5, <1>6

\* A plan that is applied is the one that is stored, or the migration was complete before.
LEMMA ApplyKeeps ==
    ASSUME BackfillInv, NEW r \in Runners, Apply(r)
    PROVE  BackfillInv'
<1>1. InHand(r) /\ IsCheckpoint(run[r].checkpoint) /\ run[r].at = "apply"
  BY TheCopy DEF Apply
<1>2. PICK plan \in run[r].plan : \E order \in RegistrationOrders(plan) :
        LET final == [run[r].checkpoint EXCEPT !.phase = IF Blocked(plan) THEN "blocked" ELSE "complete"]
        IN  \/ \E failure : Fail(r, failure) /\ UNCHANGED <<checkpoint, kernel>>
            \/ /\ ~Contradicted(plan) /\ Updatable(final)
               /\ rank' = RanksAfter(plan, order)
               /\ edges' = edges \union NewEdges(plan)
               /\ records' = Recordings(plan)
               /\ Update(final)
               /\ run' = [run EXCEPT ![r] = Idle("no")]
  <2>1. PICK plan \in run[r].plan : \E order \in RegistrationOrders(plan) :
        LET final == [run[r].checkpoint EXCEPT !.phase = IF Blocked(plan) THEN "blocked" ELSE "complete"]
            ranks == RanksAfter(plan, order)
            failures == IF Obstacles(plan, ranks) = {} /\ ~Updatable(final) THEN {"refused"}
                        ELSE Obstacles(plan, ranks)
        IN  IF failures # {}
            THEN (\E f \in failures : Fail(r, f)) /\ UNCHANGED <<checkpoint, kernel>>
            ELSE /\ rank' = ranks
                 /\ edges' = edges \union NewEdges(plan)
                 /\ records' = Recordings(plan)
                 /\ Update(final)
                 /\ run' = [run EXCEPT ![r] = Idle("no")]
    BY DEF Apply
  <2>2. \A ranks : Obstacles(plan, ranks) = {} => ~Contradicted(plan)
    BY DEF Obstacles
  <2> QED
    BY <2>1, <2>2
<1> DEFINE final == [run[r].checkpoint EXCEPT !.phase = IF Blocked(plan) THEN "blocked" ELSE "complete"]
<1>3. UNCHANGED <<staging, world>>
  BY DEF Apply
<1>4. run[r].plan = {plan} /\ IsPlan(plan) /\ run[r].checkpoint.plan = {plan}
  BY <1>1, <1>2 DEF InHand
<1>5. DOMAIN final = DOMAIN run[r].checkpoint /\ final.plan = {plan}
  BY <1>1, <1>4 DEF IsCheckpoint
<1>6. IsCheckpoint(final)
  BY <1>1, <1>4, <1>5 DEF IsCheckpoint
<1>7. TablesAreTyped'
  BY <1>3 DEF BackfillInv, TablesAreTyped, world
<1>8. CASE \E failure : Fail(r, failure) /\ UNCHANGED <<checkpoint, kernel>>
  BY <1>3, <1>8, FailKeeps DEF stored
<1>9. CASE ~\E failure : Fail(r, failure) /\ UNCHANGED <<checkpoint, kernel>>
  <2>1. PICK order \in RegistrationOrders(plan) :
          /\ ~Contradicted(plan) /\ Updatable(final)
          /\ rank' = RanksAfter(plan, order)
          /\ edges' = edges \union NewEdges(plan)
          /\ records' = Recordings(plan)
          /\ Update(final)
          /\ run' = [run EXCEPT ![r] = Idle("no")]
    BY <1>2, <1>9
  <2> HIDE DEF final
  <2>2. PlanStays
        /\ (~IsComplete => checkpoint' = {final} /\ StoredPlan' = final.plan /\ (IsComplete' <=> final.phase = "complete"))
    BY <1>6, <2>1, UpdateKeepsPlan DEF BackfillInv
  <2>3. RecordsStay /\ \A x \in Unrecorded(plan) : AsPlanned(x, plan)'
    BY <1>4, <2>1, ApplyRecords DEF BackfillInv
  <2>4. GoesOn(r)
    BY <2>1, FailGoesOn DEF Fail
  <2>5. RunsAreInHand' /\ CopiesAreNotAhead'
    BY <2>2, <2>4, OthersGoOn
  <2>6. CASE IsComplete
    BY <1>7, <2>2, <2>3, <2>5, <2>6, StayingKeeps
  <2>7. CASE ~IsComplete
    <3>1. StoredPlan' = {plan} /\ StoredPlan \subseteq {plan}
      BY <1>5, <2>2, <2>7 DEF PlanStays
    <3>2. ASSUME NEW x \in Rows, records[x].status # "none", records[x].content # "event"
          PROVE  AsPlanned(x, plan)'
      <4>1. AsPlanned(x, plan)
        BY <2>7, <3>1, <3>2 DEF BackfillInv, RecordsAreOfThePlan
      <4> QED
        BY <2>3, <3>2, <4>1, PlannedStays
    <3>3. ASSUME NEW x \in Rows, plan.status[x] # "none"
          PROVE  AsPlanned(x, plan)' /\ records'[x].status # "none"
      <4>1. CASE x \in Unrecorded(plan)
        BY <2>3, <3>3, <4>1 DEF AsPlanned
      <4>2. CASE x \notin Unrecorded(plan)
        <5>1. records[x].status # "none" /\ records[x].content = plan.staged[x]
          BY <2>1, <3>3, <4>2 DEF Contradicted, Recorded, Unrecorded
        <5>2. plan.staged[x] # "event"
          BY <1>4 DEF IsPlan, Contents, Content
        <5>3. AsPlanned(x, plan)'
          BY <3>2, <5>1, <5>2
        <5> QED
          BY <3>3, <5>3 DEF AsPlanned
      <4> QED
        BY <4>1, <4>2
    <3>4. RecordsAreOfThePlan'
      <4> SUFFICES ASSUME NEW x \in Rows, records'[x].status # "none", records'[x].content # "event"
                   PROVE  AsPlanned(x, plan)'
        BY <3>1 DEF RecordsAreOfThePlan
      <4>1. CASE records[x].status # "none"
        BY <2>3, <3>2, <4>1 DEF RecordsStay
      <4>2. CASE records[x].status = "none"
        <5>1. x \in Unrecorded(plan)
          BY <2>1, <4>2 DEF Recordings, Unrecorded
        <5> QED
          BY <2>3, <5>1
      <4> QED
        BY <4>1, <4>2
    <3>5. CompleteIsAsPlanned'
      BY <3>1, <3>3 DEF CompleteIsAsPlanned
    <3> QED
      BY <1>7, <2>2, <2>3, <2>5, <3>4, <3>5 DEF BackfillInv, PlanStays, RecordsStay
  <2> QED
    BY <2>6, <2>7
<1> QED
  BY <1>8, <1>9

\* A legacy command leaves the migration what it must have.
LEMMA LegacyWriteKeeps ==
    ASSUME BackfillInv, NEW x \in Rows, LegacyWrite(x)
    PROVE  BackfillInv' /\ (IsComplete' => IsComplete)
<1>1. PICK content \in Content : legacy' = [legacy EXCEPT ![x] = content]
  BY DEF LegacyWrite, Change, Content
<1>2. UNCHANGED <<stored, kernel, run>>
  BY DEF LegacyWrite
<1>3. TablesAreTyped'
  BY <1>1, <1>2 DEF BackfillInv, TablesAreTyped, Contents, stored
<1>4. PlanStays /\ (IsComplete' <=> IsComplete)
  BY <1>2, PlanLeft DEF BackfillInv, stored
<1>5. RecordsStay
  BY <1>2, RecordsLeft DEF BackfillInv
<1>6. RunsAreInHand' /\ CopiesAreNotAhead'
  BY <1>2, <1>4 DEF BackfillInv, RunsAreInHand, InHand, CopiesAreNotAhead
<1> QED
  BY <1>2, <1>3, <1>4, <1>5, <1>6, StayingKeeps DEF kernel

\* A dual write registers what it writes beside every plan, which its record contradicts.
LEMMA DualWriteKeeps ==
    ASSUME BackfillInv, NEW x \in Rows, DualWrite(x)
    PROVE  BackfillInv' /\ (IsComplete' => IsComplete)
<1>1. UNCHANGED <<stored, run>> /\ records[x].status = "none"
  BY DEF DualWrite
<1>2. TablesAreTyped'
  BY <1>1 DEF DualWrite, Change, BackfillInv, TablesAreTyped, Contents, Content, stored
<1>3. PlanStays /\ (IsComplete' <=> IsComplete)
  BY <1>1, PlanLeft DEF BackfillInv, stored
<1>4. PICK v \in Vertices : rank' = [rank EXCEPT ![v] = Top + 1]
  <2>1. CASE x \in NodeRows /\ rank' = [rank EXCEPT ![Describes[x]] = Top + 1]
    BY <2>1 DEF Vertices, Refs
  <2>2. CASE x \in RelationRows /\ rank' = [rank EXCEPT ![Motif(x)] = Top + 1]
    BY <2>2 DEF Vertices
  <2> QED
    BY <2>1, <2>2 DEF DualWrite
<1>5. rank \in [Vertices -> Nat] /\ Top \in Nat
  BY TopIsNat DEF BackfillInv, GraphIsTyped
<1> HIDE DEF Top
<1>6. rank' \in [Vertices -> Nat] /\ \A w \in Vertices : rank[w] # 0 => rank'[w] # 0
  BY <1>4, <1>5
<1>7. DOMAIN records = Rows /\ records' = [records EXCEPT ![x] = [content |-> "event", status |-> "mapped"]]
  BY DEF BackfillInv, GraphIsTyped, DualWrite
<1>8. /\ DOMAIN records' = Rows /\ records'[x].content = "event"
      /\ \A y \in Rows : y # x => records'[y] = records[y]
  BY <1>7
<1>9. RecordsStay
  BY <1>1, <1>6, <1>8 DEF RecordsStay, GraphIsTyped, Registered, Vertices, DualWrite
<1>10. RunsAreInHand' /\ CopiesAreNotAhead'
  BY <1>1, <1>3 DEF BackfillInv, RunsAreInHand, InHand, CopiesAreNotAhead
<1> QED
  BY <1>2, <1>3, <1>8, <1>9, <1>10, StayingKeeps

-----------------------------------------------------------------------------
(***************************************************************************)
(* The theorems.                                                           *)
(***************************************************************************)

\* Whatever is not a runner's application of a plan leaves the migration as complete as it was.
LEMMA OthersKeep ==
    ASSUME BackfillInv, Next, \A r \in Runners : ~Apply(r)
    PROVE  BackfillInv' /\ (IsComplete' => IsComplete)
<1>1. CASE \E r \in Runners : Work(r)
  <2>1. PICK r \in Runners : Work(r)
    BY <1>1
  <2>2. \/ Begin(r) \/ Ensure(r) \/ StagePage(r) \/ ListSource(r) \/ StoreParity(r)
        \/ Rescan(r) \/ Audit(r) \/ MarkApplying(r)
    BY <2>1 DEF Work
  <2> QED
    BY <2>2, BeginKeeps, EnsureKeeps, StagePageKeeps, ParityKeeps, RescanKeeps, AuditKeeps, MarkKeeps
<1>2. CASE \E r \in Runners : Stop(r)
  <2>1. PICK r \in Runners : Stop(r)
    BY <1>2
  <2>2. Fail(r, "no") /\ UNCHANGED <<stored, kernel, world>>
    BY <2>1 DEF Stop, Fail
  <2> QED
    BY <2>2, FailKeeps
<1> QED
  BY <1>1, <1>2, LegacyWriteKeeps, DualWriteKeeps DEF Next

\* Nothing is stored when a migration starts.
LEMMA InitBackfill == Init => BackfillInv
<1> SUFFICES ASSUME Init
             PROVE  BackfillInv
  OBVIOUS
<1>1. OneCheckpoint /\ TablesAreTyped /\ GraphIsTyped
  BY TablesAreContents, NothingIsContents DEF Init, OneCheckpoint, TablesAreTyped, GraphIsTyped
<1>2. DOMAIN run = Runners /\ \A r \in Runners : run[r] = Idle("no")
  BY DEF Init
<1>3. RunsAreInHand /\ CopiesAreNotAhead
  BY <1>2, InitialIsCheckpoint, NothingIsContents DEF RunsAreInHand, InHand, CopiesAreNotAhead, Idle
<1>4. ~IsComplete /\ \A x \in Rows : records[x].status = "none"
  BY StoredOfNone DEF Init, IsComplete
<1> QED
  BY <1>1, <1>3, <1>4 DEF BackfillInv, RecordsAreOfThePlan, CompleteIsAsPlanned

\* Every step keeps the invariant.
LEMMA NextBackfill == BackfillInv /\ [Next]_vars => BackfillInv'
<1> SUFFICES ASSUME BackfillInv, [Next]_vars
             PROVE  BackfillInv'
  OBVIOUS
<1>1. CASE Next
  BY <1>1, OthersKeep, ApplyKeeps
<1>2. CASE UNCHANGED vars
  BY <1>2 DEF vars, stored, kernel, world, BackfillInv, OneCheckpoint, TablesAreTyped, GraphIsTyped,
     RunsAreInHand, InHand, CopiesAreNotAhead, RecordsAreOfThePlan, CompleteIsAsPlanned, AsPlanned,
     InGraph, Registered, IsComplete, Phase, StoredPlan
<1> QED
  BY <1>1, <1>2

\* One plan is stored at most, and what is recorded while the migration is not complete stands as
\* it says or comes from a dual write.
THEOREM MigrationsAreOfOnePlan == Spec => []BackfillInv
<1>1. Init => BackfillInv
  BY InitBackfill
<1>2. BackfillInv /\ [Next]_vars => BackfillInv'
  BY NextBackfill
<1> QED
  BY <1>1, <1>2, PTL DEF Spec

\* A migration that is complete has recorded and registered what its plan says of each row
\* (apply_research_graph_backfill: the plan in one transaction, then the checkpoint).
THEOREM CompleteMigrationsAreWhole == Spec => []CompleteIsWhole
<1>1. BackfillInv => CompleteIsWhole
  BY DEF BackfillInv, CompleteIsAsPlanned, CompleteIsWhole, AsPlanned, InGraph, IsComplete
<1> QED
  BY <1>1, MigrationsAreOfOnePlan, PTL

\* A run that completes the migration does so with the tables of its own snapshot.
LEMMA ApplyCompletesOneSnapshot ==
    ASSUME BackfillInv, NEW r \in Runners, Apply(r), ~IsComplete, IsComplete'
    PROVE  /\ run[r].at = "apply" /\ run'[r].at = "idle"
           /\ \A c \in checkpoint' : \A p \in c.plan : p.staged = run[r].snapshot
<1>1. InHand(r) /\ IsCheckpoint(run[r].checkpoint) /\ run[r].at = "apply"
  BY TheCopy DEF Apply
<1>2. PICK plan \in run[r].plan :
        LET final == [run[r].checkpoint EXCEPT !.phase = IF Blocked(plan) THEN "blocked" ELSE "complete"]
        IN  \/ checkpoint' = checkpoint
            \/ Update(final) /\ run' = [run EXCEPT ![r] = Idle("no")]
  BY DEF Apply
<1> DEFINE final == [run[r].checkpoint EXCEPT !.phase = IF Blocked(plan) THEN "blocked" ELSE "complete"]
<1>3. checkpoint' # checkpoint
  BY PlanLeft DEF BackfillInv
<1>4. Update(final) /\ Fail(r, "no")
  BY <1>2, <1>3 DEF Fail
<1>5. checkpoint' = {final}
  BY <1>4 DEF Update, IsComplete
<1>6. run[r].plan = {plan} /\ plan.staged = run[r].snapshot /\ run[r].checkpoint.plan = {plan}
  BY <1>1, <1>2 DEF InHand
<1>7. final.plan = {plan}
  BY <1>1, <1>6 DEF IsCheckpoint
<1> HIDE DEF final
<1>8. run'[r].at = "idle"
  BY <1>4, FailGoesOn
<1> QED
  BY <1>1, <1>5, <1>6, <1>7, <1>8

\* Rows that several runs staged, at different times, complete the migration only as the tables
\* stood in one snapshot (the rescan before the audit, and the plan that no update replaces).
THEOREM MigrationsCompleteOneSnapshot == Spec => CompletesOneSnapshot
<1> DEFINE Completes == Phase # "complete" /\ (checkpoint' # {} /\ (CHOOSE c \in checkpoint' : TRUE).phase = "complete")
<1> DEFINE FromOne == \E r \in Runners : /\ run[r].at = "apply" /\ run'[r].at = "idle"
                                         /\ \A c \in checkpoint' : \A p \in c.plan : p.staged = run[r].snapshot
<1>1. BackfillInv /\ [Next]_vars => [Completes => FromOne]_vars
  <2> SUFFICES ASSUME BackfillInv, Next, Completes
               PROVE  FromOne
    OBVIOUS
  <2>1. ~IsComplete /\ IsComplete'
    BY DEF IsComplete, Phase
  <2>2. PICK r \in Runners : Apply(r)
    BY <2>1, OthersKeep
  <2> QED
    BY <2>1, <2>2, ApplyCompletesOneSnapshot
<1> QED
  BY <1>1, MigrationsAreOfOnePlan, PTL DEF Spec, CompletesOneSnapshot

=============================================================================
