------------------------------ MODULE EventProofs ------------------------------
(***************************************************************************)
(* Proofs about what happens to a research event after it is signed, for   *)
(* any script of commands and any number of importers, jobs and passes.    *)
(*                                                                         *)
(* The log (Chronicle): transactions and their times, the chain of         *)
(* snapshots, the order of the log and its pages, replays, Merkle trees    *)
(* and what their roots commit to, checkpoints, and the bundles that are   *)
(* exported and imported.  Then the delivery of published frontiers to     *)
(* their mirror (MirrorOutbox).                                            *)
(***************************************************************************)
EXTENDS Chronicle, MirrorOutbox, FiniteSetTheorems, WellFoundedInduction, TLAPS

\* Induction up to n: a set of numbers that has 0, and each successor, has them all.
LEMMA UpTo ==
    ASSUME NEW n \in Nat, NEW Good, 0 \in Good, \A m \in 1 .. n : m - 1 \in Good => m \in Good
    PROVE  0 .. n \subseteq Good
<1> DEFINE Bad == {m \in 0 .. n : m \notin Good}
<1> DEFINE Less == {ss \in Nat \X Nat : ss[1] < ss[2]}
<1>1. IsWellFoundedOn(Less, Nat)
  BY NatLessThanWellFounded DEF OpToRel
<1>2. ASSUME Bad # {}
      PROVE  FALSE
  <2>1. Bad \subseteq Nat
    OBVIOUS
  <2>2. PICK m \in Bad : \A k \in Bad : <<k, m>> \notin Less
    <3> HIDE DEF Bad, Less
    <3> QED
      BY <1>1, <1>2, <2>1, WFMin
  <2>3. m \in 1 .. n
    OBVIOUS
  <2>4. m - 1 \in 0 .. n /\ m \in Nat /\ m - 1 \in Nat /\ m - 1 < m
    BY <2>3
  <2>5. <<m - 1, m>> \in Less
    BY <2>4
  <2>6. m - 1 \notin Bad
    <3> HIDE DEF Less
    <3> QED
      BY <2>2, <2>5
  <2> QED
    BY <2>3, <2>4, <2>6
<1> QED
  BY <1>2

-----------------------------------------------------------------------------
(* Transactions *)

Phases == {"new", "open", "made", "inserted", "stored", "refused"}
Begun == {"open", "made", "inserted", "stored"}
Named == {"made", "inserted", "stored"}

\* A transaction that has begun has a start of its own, and one that has made
\* its event has given it an id.
WritersAreTyped ==
    /\ script \in Scripts /\ clock \in Nat \ {0}
    /\ writer \in [Writers -> [phase : Phases, start : Nat, id : Nat]]
TimesAreDrawn ==
    /\ \A w \in Writers : writer[w].phase \in Begun => writer[w].start \in 1 .. clock - 1
    /\ \A w \in Writers : writer[w].phase \in Named => writer[w].id \in 1 .. clock - 1
    /\ \A v, w \in Writers : /\ v # w
                             /\ writer[v].phase \in Begun /\ writer[w].phase \in Begun
                             => writer[v].start # writer[w].start
LogInv == WritersAreTyped /\ TimesAreDrawn

\* The steps of a transaction.
Moves(w) == Begin(w) \/ MakeEvent(w) \/ Insert(w) \/ Commit(w) \/ Abort(w)

\* Only the steps of a transaction change the times and the transactions.
LEMMA OnlyTransactionsMove ==
    ASSUME [Next]_vars
    PROVE  script' = script /\ (UNCHANGED <<clock, writer>> \/ \E w \in Writers : Moves(w))
<1>1. CASE \E w \in Writers : Moves(w)
  BY <1>1 DEF Moves, Begin, MakeEvent, Insert, Commit, Abort
<1>2. CASE \E w \in Writers : ExportProof(w)
  BY <1>2 DEF ExportProof, source
<1>3. CASE \E v, w \in Stored : CreateCheckpoint(v, w)
  BY <1>3 DEF CreateCheckpoint
<1>4. CASE \E k \in checkpoints : ImportWitness(k)
  BY <1>4 DEF ImportWitness, source
<1>5. CASE ListEvents \/ ReadEvents \/ FinishExport
  BY <1>5 DEF ListEvents, ReadEvents, FinishExport, source
<1>6. CASE \E s \in Snapshots : OpenExport(s)
  BY <1>6 DEF OpenExport, source
<1>7. CASE \E i \in Importers : Precheck(i) \/ Import(i)
  BY <1>7 DEF Precheck, Import, source
<1>8. CASE UNCHANGED vars
  BY <1>8 DEF vars, source
<1> QED
  BY <1>1, <1>2, <1>3, <1>4, <1>5, <1>6, <1>7, <1>8 DEF Next, Moves

\* The transactions are numbered by the commands of the script.
LEMMA WritersAreCommands ==
    ASSUME script \in Scripts
    PROVE  /\ Len(script.commands) \in Nat /\ Writers = 1 .. Len(script.commands)
           /\ script.given \in Nat /\ script.given <= Len(script.commands)
           /\ \A w \in Writers : Command(w) \in ToSet(script.commands)
<1>1. script.commands \in Seq(ToSet(script.commands)) /\ script.given \in 0 .. Len(script.commands)
  BY ScriptsAreHistories
<1> DEFINE S == ToSet(script.commands)
<1> HIDE DEF S
<1>2. script.commands \in Seq(S)
  BY <1>1 DEF S
<1>3. Len(script.commands) \in Nat /\ \A i \in 1 .. Len(script.commands) : script.commands[i] \in S
  BY <1>2
<1> QED
  BY <1>1, <1>3 DEF Writers, Command, S

\* The given events are stored with the times 1, 2, 3, ...
LEMMA InitLog == Init => LogInv
<1> SUFFICES ASSUME Init
             PROVE  LogInv
  OBVIOUS
<1>1. script \in Scripts /\ clock = 2 * script.given + 1
  BY DEF Init
<1>2. Writers \subseteq Nat /\ script.given \in Nat
  BY <1>1, WritersAreCommands
<1> DEFINE first(w) == IF w <= script.given
                       THEN [phase |-> "stored", start |-> 2 * w - 1, id |-> 2 * w]
                       ELSE [phase |-> "new", start |-> None, id |-> None]
<1>3. \A w \in Writers : writer[w] = first(w)
  BY DEF Init
<1>4. \A w \in Writers : first(w) \in [phase : Phases, start : Nat, id : Nat]
  <2> TAKE w \in Writers
  <2>0. w \in Nat /\ w # 0
    BY <1>1, WritersAreCommands
  <2>1. CASE w <= script.given
    BY <2>0, <2>1 DEF Phases
  <2>2. CASE ~(w <= script.given)
    BY <2>2 DEF Phases, None
  <2> QED
    BY <2>1, <2>2
<1>5. writer \in [Writers -> [phase : Phases, start : Nat, id : Nat]]
  <2>1. writer = [w \in Writers |-> first(w)]
    BY DEF Init
  <2> HIDE DEF first
  <2> QED
    BY <1>4, <2>1
<1>6. \A w \in Writers : writer[w].phase \in Begun =>
         w <= script.given /\ writer[w].start = 2 * w - 1 /\ writer[w].id = 2 * w
  <2> TAKE w \in Writers
  <2>1. writer[w] = first(w) /\ "new" \notin Begun
    BY <1>3 DEF Begun
  <2>2. CASE w <= script.given
    BY <2>1, <2>2
  <2>3. CASE ~(w <= script.given)
    BY <2>1, <2>3
  <2> QED
    BY <2>2, <2>3
<1>7. \A w \in Writers : w \in Nat /\ w # 0
  BY <1>1, WritersAreCommands
<1>8. TimesAreDrawn
  <2>1. Named \subseteq Begun
    BY DEF Named, Begun
  <2>2. \A w \in Writers : writer[w].phase \in Begun =>
           writer[w].start \in 1 .. clock - 1 /\ writer[w].id \in 1 .. clock - 1
    BY <1>1, <1>2, <1>6, <1>7
  <2>3. \A v, w \in Writers : v # w /\ writer[v].phase \in Begun /\ writer[w].phase \in Begun
                              => writer[v].start # writer[w].start
    BY <1>6, <1>7
  <2> QED
    BY <2>1, <2>2, <2>3 DEF TimesAreDrawn
<1> QED
  BY <1>1, <1>2, <1>5, <1>8 DEF LogInv, WritersAreTyped

\* What a step makes of the row of its transaction.
LEMMA RowsMove ==
    ASSUME LogInv, NEW w \in Writers, Moves(w)
    PROVE  \E row \in [phase : Phases, start : Nat, id : Nat] :
              /\ writer' = [writer EXCEPT ![w] = row]
              /\ clock' \in Nat /\ clock <= clock'
              /\ row.phase \in Begun => row.start \in 1 .. clock' - 1
              /\ row.phase \in Named => row.id \in 1 .. clock' - 1
              /\ row.phase \in Begun /\ writer[w].phase \notin Begun => row.start = clock
              /\ row.phase \in Begun /\ writer[w].phase \in Begun => row.start = writer[w].start
              /\ writer[w].phase \notin {"stored", "refused"}
<1>1. writer[w] \in [phase : Phases, start : Nat, id : Nat] /\ clock \in Nat
  BY DEF LogInv, WritersAreTyped
<1>2. /\ writer[w].phase \in Begun => writer[w].start \in 1 .. clock - 1
      /\ writer[w].phase \in Named => writer[w].id \in 1 .. clock - 1
  BY DEF LogInv, TimesAreDrawn
<1>3. CASE Begin(w)
  <2> DEFINE row == IF MayRun(Command(w)) THEN [writer[w] EXCEPT !.phase = "open", !.start = clock]
                    ELSE [writer[w] EXCEPT !.phase = "refused"]
  <2>1. writer' = [writer EXCEPT ![w] = row] /\ clock' = clock + 1 /\ writer[w].phase = "new"
    BY <1>3 DEF Begin
  <2>2. row \in [phase : Phases, start : Nat, id : Nat] /\ row.phase \in {"open", "refused"}
        /\ (row.phase = "open" => row.start = clock)
    BY <1>1 DEF Phases
  <2> HIDE DEF row
  <2>3. clock \in Nat \ {0}
    BY DEF LogInv, WritersAreTyped
  <2>4. clock' \in Nat /\ clock <= clock' /\ clock \in 1 .. clock' - 1
    BY <2>1, <2>3
  <2> QED
    BY <2>1, <2>2, <2>4 DEF Begun, Named
<1>4. CASE MakeEvent(w)
  <2> DEFINE row == IF Admissible(Command(w)) THEN [writer[w] EXCEPT !.phase = "made", !.id = clock]
                    ELSE [writer[w] EXCEPT !.phase = "refused"]
  <2>1. writer' = [writer EXCEPT ![w] = row] /\ clock' = clock + 1 /\ writer[w].phase = "open"
    BY <1>4 DEF MakeEvent
  <2>2. row \in [phase : Phases, start : Nat, id : Nat] /\ row.phase \in {"made", "refused"}
        /\ (row.phase = "made" => row.id = clock /\ row.start = writer[w].start)
    BY <1>1 DEF Phases
  <2> HIDE DEF row
  <2>3. clock \in Nat \ {0}
    BY DEF LogInv, WritersAreTyped
  <2>4. clock' \in Nat /\ clock <= clock' /\ clock \in 1 .. clock' - 1
    BY <2>1, <2>3
  <2>5. writer[w].start \in 1 .. clock' - 1
    BY <1>2, <2>1, <2>3, <2>4 DEF Begun
  <2> QED
    BY <2>1, <2>2, <2>4, <2>5 DEF Begun, Named
<1>5. CASE Insert(w) \/ Commit(w) \/ Abort(w)
  <2>1. \E phase \in {"inserted", "stored", "refused"} :
           /\ writer' = [writer EXCEPT ![w].phase = phase] /\ clock' = clock
           /\ writer[w].phase \in {"made", "inserted"}
    <3>1. CASE Insert(w)
      <4> DEFINE phase == IF Insertable(Command(w)) THEN "inserted" ELSE "refused"
      <4>1. writer' = [writer EXCEPT ![w].phase = phase] /\ clock' = clock /\ writer[w].phase = "made"
        BY <3>1 DEF Insert
      <4>2. phase \in {"inserted", "stored", "refused"}
        OBVIOUS
      <4> HIDE DEF phase
      <4> QED
        BY <4>1, <4>2
    <3>2. CASE Commit(w) \/ Abort(w)
      BY <3>2 DEF Commit, Abort
    <3> QED
      BY <1>5, <3>1, <3>2
  <2>2. PICK phase \in {"inserted", "stored", "refused"} :
           /\ writer' = [writer EXCEPT ![w].phase = phase] /\ clock' = clock
           /\ writer[w].phase \in {"made", "inserted"}
    BY <2>1
  <2> DEFINE row == [writer[w] EXCEPT !.phase = phase]
  <2>3. writer' = [writer EXCEPT ![w] = row]
    BY <2>2
  <2>4. row \in [phase : Phases, start : Nat, id : Nat] /\ row.phase = phase
        /\ row.id = writer[w].id /\ row.start = writer[w].start
    BY <1>1 DEF Phases
  <2> HIDE DEF row
  <2>5. writer[w].start \in 1 .. clock' - 1 /\ writer[w].id \in 1 .. clock' - 1 /\ writer[w].phase \in Begun
    BY <1>2, <2>2 DEF Begun, Named
  <2>6. clock' \in Nat /\ clock <= clock' /\ writer[w].phase \notin {"stored", "refused"}
    BY <1>1, <2>2
  <2> QED
    BY <2>3, <2>4, <2>5, <2>6
<1> QED
  BY <1>3, <1>4, <1>5 DEF Moves

\* Every step keeps the transactions typed and their starts distinct.
LEMMA LogStep ==
    ASSUME LogInv, [Next]_vars
    PROVE  LogInv'
<1>1. script' = script /\ Writers' = Writers
  BY OnlyTransactionsMove DEF Writers
<1>2. CASE UNCHANGED <<clock, writer>>
  BY <1>1, <1>2 DEF LogInv, WritersAreTyped, TimesAreDrawn
<1>3. CASE \E w \in Writers : Moves(w)
  <2>1. PICK w \in Writers : Moves(w)
    BY <1>3
  <2>2. PICK row \in [phase : Phases, start : Nat, id : Nat] :
              /\ writer' = [writer EXCEPT ![w] = row]
              /\ clock' \in Nat /\ clock <= clock'
              /\ row.phase \in Begun => row.start \in 1 .. clock' - 1
              /\ row.phase \in Named => row.id \in 1 .. clock' - 1
              /\ row.phase \in Begun /\ writer[w].phase \notin Begun => row.start = clock
              /\ row.phase \in Begun /\ writer[w].phase \in Begun => row.start = writer[w].start
              /\ writer[w].phase \notin {"stored", "refused"}
    BY <2>1, RowsMove
  <2>3. clock \in Nat \ {0} /\ writer \in [Writers -> [phase : Phases, start : Nat, id : Nat]]
    BY DEF LogInv, WritersAreTyped
  <2>4. writer'[w] = row /\ \A v \in Writers : v # w => writer'[v] = writer[v]
    BY <2>2, <2>3
  <2>5. WritersAreTyped'
    <3>1. clock' \in Nat \ {0}
      BY <2>2, <2>3
    <3> QED
      BY <1>1, <2>2, <2>3, <3>1 DEF LogInv, WritersAreTyped
  <2>6. \A v \in Writers : v # w =>
           /\ writer[v].phase \in Begun => writer[v].start \in 1 .. clock - 1
           /\ writer[v].phase \in Named => writer[v].id \in 1 .. clock - 1
    BY DEF LogInv, TimesAreDrawn
  <2>7. \A v \in Writers : writer[v].start \in Nat /\ writer[v].id \in Nat
    BY <2>3
  <2>8. \A v \in Writers : /\ writer'[v].phase \in Begun => writer'[v].start \in 1 .. clock' - 1
                           /\ writer'[v].phase \in Named => writer'[v].id \in 1 .. clock' - 1
    BY <2>2, <2>3, <2>4, <2>6, <2>7
  <2>9. ASSUME NEW u \in Writers, NEW v \in Writers, u # v,
               writer'[u].phase \in Begun, writer'[v].phase \in Begun
        PROVE  writer'[u].start # writer'[v].start
    <3>1. \A x \in Writers : x # w /\ writer'[x].phase \in Begun /\ row.phase \in Begun =>
             writer[x].start # row.start
      BY <2>2, <2>3, <2>4, <2>6, <2>7 DEF LogInv, TimesAreDrawn
    <3>2. CASE u = w
      BY <2>4, <2>9, <3>1, <3>2
    <3>3. CASE v = w
      BY <2>4, <2>9, <3>1, <3>3
    <3>4. CASE u # w /\ v # w
      BY <2>4, <2>9, <3>4 DEF LogInv, TimesAreDrawn
    <3> QED
      BY <3>2, <3>3, <3>4
  <2> QED
    BY <1>1, <2>5, <2>8, <2>9 DEF LogInv, TimesAreDrawn
<1> QED
  BY <1>2, <1>3, OnlyTransactionsMove

\* What is stored stays as it is.
LEMMA StoredStay ==
    ASSUME LogInv, [Next]_vars
    PROVE  /\ script' = script /\ Writers' = Writers /\ Stored \subseteq Stored'
           /\ \A w \in Stored : writer'[w] = writer[w]
<1>1. script' = script /\ Writers' = Writers
  BY OnlyTransactionsMove DEF Writers
<1>2. CASE UNCHANGED <<clock, writer>>
  BY <1>1, <1>2 DEF Stored
<1>3. CASE \E w \in Writers : Moves(w)
  <2>1. PICK w \in Writers : Moves(w)
    BY <1>3
  <2>2. PICK row : writer' = [writer EXCEPT ![w] = row] /\ writer[w].phase \notin {"stored", "refused"}
    BY <2>1, RowsMove
  <2>3. \A v \in Writers : v # w => writer'[v] = writer[v]
    BY <2>2 DEF LogInv, WritersAreTyped
  <2> QED
    BY <1>1, <2>2, <2>3 DEF Stored
<1> QED
  BY <1>1, <1>2, <1>3, OnlyTransactionsMove
-----------------------------------------------------------------------------
(***************************************************************************)
(* The chain of snapshots.  A snapshot's number was the next one when its  *)
(* command looked, so it is at most the next one when it is inserted; its  *)
(* row is alone with that number, so nobody has taken it.                  *)
(***************************************************************************)

SnapshotsInHand ==
    \A w \in Writers : Command(w).kind = "snapshot" /\ writer[w].phase \in {"made", "inserted"} =>
        /\ Command(w).sequence \in 1 .. Latest + 1
        /\ Command(w).proposal \in Ready
InsertedAreAlone ==
    \A w \in Writers : writer[w].phase = "inserted" =>
        \A v \in Writers : v # w /\ writer[v].phase \in {"inserted", "stored"} =>
            ~Conflict(Command(w), Command(v))
ChainInv == LogInv /\ SnapshotsInHand /\ InsertedAreAlone /\ FrontiersAreContiguous

\* What Latest chooses among 1 .. n is n.
LEMMA LastOfInterval ==
    ASSUME NEW n \in Nat, NEW S, S = 1 .. n
    PROVE  (IF S = {} THEN 0 ELSE CHOOSE m \in S : \A k \in S : k <= m) = n
<1>1. CASE n = 0
  BY <1>1
<1>2. CASE n # 0
  <2>1. n \in S /\ S # {} /\ \A k \in S : k \in Nat /\ k <= n
    BY <1>2
  <2> DEFINE last == CHOOSE m \in S : \A k \in S : k <= m
  <2>2. last \in S /\ \A k \in S : k <= last
    BY <2>1
  <2> HIDE DEF last
  <2>3. last = n
    BY <2>1, <2>2
  <2> QED
    BY <2>1, <2>3 DEF last
<1> QED
  BY <1>1, <1>2

\* Of snapshots numbered without a gap, the latest has their number.
LEMMA LatestIsTheCount ==
    ASSUME NEW n \in Nat, Sequences = 1 .. n
    PROVE  Latest = n
<1> DEFINE S == Sequences
<1>1. (IF S = {} THEN 0 ELSE CHOOSE m \in S : \A k \in S : k <= m) = n
  <2> HIDE DEF S
  <2>1. S = 1 .. n
    BY DEF S
  <2> QED
    BY <2>1, LastOfInterval, SMTT(60)
<1> QED
  BY <1>1 DEF Latest

\* A log is finite.
LEMMA StoredAreFinite ==
    ASSUME script \in Scripts
    PROVE  IsFiniteSet(Stored) /\ \A kind : IsFiniteSet(Of(kind))
<1>1. IsFiniteSet(Writers)
  BY WritersAreCommands, FS_Interval
<1>2. Stored \subseteq Writers /\ \A kind : Of(kind) \subseteq Writers
  BY DEF Stored, Of
<1> QED
  BY <1>1, <1>2, FS_Subset

\* The given snapshots are numbered without a gap (ScriptsAreHistories).
LEMMA InitChain == Init => ChainInv
<1> SUFFICES ASSUME Init
             PROVE  ChainInv
  OBVIOUS
<1>1. script \in Scripts /\ LogInv
  BY InitLog DEF Init
<1>2. PICK n \in Nat : n = script.given /\ n <= Len(script.commands)
  BY <1>1, WritersAreCommands
<1>3. Writers = 1 .. Len(script.commands) /\ Len(script.commands) \in Nat
  BY <1>1, WritersAreCommands
<1>4. \A w \in Writers : /\ w <= n => writer[w].phase = "stored"
                         /\ ~(w <= n) => writer[w].phase = "new"
  BY <1>2 DEF Init
<1>5. Stored = 1 .. n
  BY <1>2, <1>3, <1>4 DEF Stored
<1> DEFINE Taken(m) == {v \in 1 .. m : Command(v).kind = "snapshot"}
<1> DEFINE Good == {m \in 0 .. n : /\ Cardinality(Taken(m)) \in Nat
                                  /\ {Command(v).sequence : v \in Taken(m)} = 1 .. Cardinality(Taken(m))}
<1>6. \A m \in 1 .. n : Command(m).kind = "snapshot" =>
        /\ Command(m).sequence = Cardinality(Taken(m - 1)) + 1
        /\ \E v \in 1 .. m - 1 : /\ Command(v).kind = "proposal" /\ Command(v).status = "ready"
                                  /\ Command(v).proposal = Command(m).proposal
  <2> TAKE m \in 1 .. n
  <2> HAVE Command(m).kind = "snapshot"
  <2> DEFINE earlier(kind) == {v \in 1 .. m - 1 : script.commands[v].kind = kind}
  <2>3. script \in Scripts /\ m \in 1 .. script.given /\ script.commands[m].kind = "snapshot"
    BY <1>1, <1>2 DEF Command
  <2>1. /\ script.commands[m].sequence = Cardinality(earlier("snapshot")) + 1
        /\ \E v \in earlier("proposal") : /\ script.commands[v].status = "ready"
                                          /\ script.commands[v].proposal = script.commands[m].proposal
    BY <2>3, ScriptsAreHistories, ZenonT(30)
  <2>2. earlier("snapshot") = Taken(m - 1)
    BY DEF Command
  <2> QED
    BY <2>1, <2>2 DEF Command
<1>7. 0 \in Good
  <2>1. Taken(0) = {}
    OBVIOUS
  <2> QED
    BY <2>1, FS_EmptySet
<1>8. ASSUME NEW m \in 1 .. n, m - 1 \in Good
      PROVE  m \in Good
  <2> DEFINE k == Cardinality(Taken(m - 1))
  <2>1. k \in Nat /\ {Command(v).sequence : v \in Taken(m - 1)} = 1 .. k /\ m \in 0 .. n
    BY <1>8
  <2>2. CASE Command(m).kind = "snapshot"
    <3>1. Taken(m) = Taken(m - 1) \union {m} /\ m \notin Taken(m - 1)
      BY <2>2
    <3>2. IsFiniteSet(Taken(m - 1))
      <4>1. IsFiniteSet(1 .. m - 1) /\ Taken(m - 1) \subseteq 1 .. m - 1
        BY FS_Interval
      <4> QED
        BY <4>1, FS_Subset
    <3>3. Cardinality(Taken(m)) = k + 1
      <4> DEFINE B == Taken(m - 1)
      <4>1. Cardinality(B \union {m}) = Cardinality(B) + 1
        <5> HIDE DEF B
        <5>1. IsFiniteSet(B) /\ m \notin B
          BY <3>1, <3>2 DEF B
        <5> QED
          BY <5>1, FS_AddElement
      <4> QED
        BY <3>1, <4>1
    <3>4. {Command(v).sequence : v \in Taken(m)} =
             {Command(v).sequence : v \in Taken(m - 1)} \union {Command(m).sequence}
      BY <3>1
    <3>5. Command(m).sequence = k + 1
      BY <1>6, <2>2
    <3> HIDE DEF k, Taken
    <3>6. {Command(v).sequence : v \in Taken(m)} = 1 .. k + 1
      BY <2>1, <3>4, <3>5
    <3> QED
      BY <2>1, <3>3, <3>6
  <2>3. CASE Command(m).kind # "snapshot"
    <3>1. Taken(m) = Taken(m - 1)
      BY <2>3
    <3> HIDE DEF Taken
    <3> QED
      BY <2>1, <3>1
  <2> QED
    BY <2>2, <2>3
<1>9. n \in Good
  <2> HIDE DEF Good
  <2> QED
    BY <1>7, <1>8, UpTo
<1>10. Of("snapshot") = Taken(n)
  BY <1>5 DEF Of
<1>11. Sequences = 1 .. Cardinality(Of("snapshot"))
  BY <1>9, <1>10 DEF Sequences
<1>12. \A w \in Of("snapshot") : Command(w).proposal \in Ready
  <2> TAKE w \in Of("snapshot")
  <2>1. w \in 1 .. n /\ Command(w).kind = "snapshot"
    BY <1>5 DEF Of
  <2>2. PICK v \in 1 .. w - 1 : /\ Command(v).kind = "proposal" /\ Command(v).status = "ready"
                                /\ Command(v).proposal = Command(w).proposal
    BY <1>6, <2>1
  <2>3. v \in Stored
    BY <1>5, <2>1
  <2> QED
    BY <2>2, <2>3 DEF Ready, Of
<1>13. \A w \in Writers : writer[w].phase \in {"stored", "new"}
  BY <1>4
<1> QED
  BY <1>1, <1>11, <1>12, <1>13 DEF ChainInv, SnapshotsInHand, InsertedAreAlone, FrontiersAreContiguous

\* Rows conflict with each other.
LEMMA ConflictIsMutual ==
    ASSUME NEW c, NEW d
    PROVE  Conflict(c, d) <=> Conflict(d, c)
BY DEF Conflict, SameSnapshot, SameMember

\* A step that stores nothing leaves the snapshots as they are.
LEMMA SnapshotsStay ==
    ASSUME script' = script, Stored' = Stored
    PROVE  /\ Of("snapshot")' = Of("snapshot") /\ Sequences' = Sequences /\ Latest' = Latest
           /\ Ready' = Ready /\ \A w : Command(w)' = Command(w)
           /\ FrontiersAreContiguous => FrontiersAreContiguous'
<1>1. \A w : Command(w)' = Command(w)
  BY DEF Command
<1>2. Of("snapshot")' = Of("snapshot") /\ Of("proposal")' = Of("proposal")
  BY <1>1 DEF Of
<1>3. Sequences' = Sequences /\ Ready' = Ready
  BY <1>1, <1>2 DEF Sequences, Ready
<1>4. Latest' = Latest
  BY <1>3 DEF Latest
<1> QED
  BY <1>1, <1>2, <1>3, <1>4 DEF FrontiersAreContiguous

\* A transaction that begins or aborts leaves the snapshots alone.
LEMMA BeginKeepsChain ==
    ASSUME ChainInv, NEW w \in Writers, Begin(w) \/ Abort(w), LogInv'
    PROVE  ChainInv'
<1>1. script' = script /\ Writers' = Writers
  BY DEF Begin, Abort, Writers
<1>2. \E row : writer' = [writer EXCEPT ![w] = row] /\ row.phase \in {"open", "refused"}
      /\ writer[w].phase # "stored"
  <2>1. writer[w] \in [phase : Phases, start : Nat, id : Nat]
    BY DEF ChainInv, LogInv, WritersAreTyped
  <2>2. CASE Begin(w)
    <3> DEFINE row == IF MayRun(Command(w)) THEN [writer[w] EXCEPT !.phase = "open", !.start = clock]
                      ELSE [writer[w] EXCEPT !.phase = "refused"]
    <3>1. writer' = [writer EXCEPT ![w] = row] /\ writer[w].phase # "stored"
      BY <2>2 DEF Begin
    <3>2. row.phase \in {"open", "refused"}
      BY <2>1
    <3> HIDE DEF row
    <3> QED
      BY <3>1, <3>2
  <2>3. CASE Abort(w)
    <3> DEFINE row == [writer[w] EXCEPT !.phase = "refused"]
    <3>1. writer' = [writer EXCEPT ![w] = row] /\ writer[w].phase # "stored"
      BY <2>3 DEF Abort
    <3>2. row.phase \in {"open", "refused"}
      BY <2>1
    <3> HIDE DEF row
    <3> QED
      BY <3>1, <3>2
  <2> QED
    BY <2>2, <2>3
<1>3. PICK row : /\ writer' = [writer EXCEPT ![w] = row] /\ row.phase \in {"open", "refused"}
                 /\ writer[w].phase # "stored"
  BY <1>2
<1>4. writer'[w] = row /\ \A v \in Writers : v # w => writer'[v] = writer[v]
  BY <1>3 DEF ChainInv, LogInv, WritersAreTyped
<1>5. Stored' = Stored
  BY <1>1, <1>3, <1>4 DEF Stored
<1>6. SnapshotsInHand'
  BY <1>1, <1>3, <1>4, <1>5, SnapshotsStay DEF ChainInv, SnapshotsInHand
<1>7. InsertedAreAlone'
  BY <1>1, <1>3, <1>4, <1>5, SnapshotsStay DEF ChainInv, InsertedAreAlone
<1> QED
  BY <1>1, <1>5, <1>6, <1>7, SnapshotsStay DEF ChainInv

\* What a transaction finds admissible is the snapshot after the last.
LEMMA MakeEventKeepsChain ==
    ASSUME ChainInv, NEW w \in Writers, MakeEvent(w), LogInv'
    PROVE  ChainInv'
<1>1. script' = script /\ Writers' = Writers
  BY DEF MakeEvent, Writers
<1> DEFINE row == IF Admissible(Command(w)) THEN [writer[w] EXCEPT !.phase = "made", !.id = clock]
                  ELSE [writer[w] EXCEPT !.phase = "refused"]
<1>2. writer' = [writer EXCEPT ![w] = row] /\ writer[w].phase = "open"
  BY DEF MakeEvent
<1>3. writer[w] \in [phase : Phases, start : Nat, id : Nat]
  BY DEF ChainInv, LogInv, WritersAreTyped
<1>4. row.phase \in {"made", "refused"} /\ (row.phase = "made" => Admissible(Command(w)))
  BY <1>3
<1> HIDE DEF row
<1>5. writer'[w] = row /\ \A v \in Writers : v # w => writer'[v] = writer[v]
  BY <1>2 DEF ChainInv, LogInv, WritersAreTyped
<1>6. Stored' = Stored
  BY <1>1, <1>2, <1>4, <1>5 DEF Stored
<1>7. Cardinality(Of("snapshot")) \in Nat
  BY StoredAreFinite, FS_CardinalityType DEF ChainInv, LogInv, WritersAreTyped
<1>8. Latest \in Nat
  BY <1>7, LatestIsTheCount DEF ChainInv, FrontiersAreContiguous
<1>9. Command(w).kind = "snapshot" /\ row.phase = "made" =>
         Command(w).sequence \in 1 .. Latest + 1 /\ Command(w).proposal \in Ready
  BY <1>4, <1>8 DEF Admissible, SnapshotFollows
<1>10. SnapshotsInHand'
  BY <1>1, <1>4, <1>5, <1>6, <1>9, SnapshotsStay DEF ChainInv, SnapshotsInHand
<1>11. InsertedAreAlone'
  BY <1>1, <1>4, <1>5, <1>6, SnapshotsStay DEF ChainInv, InsertedAreAlone
<1> QED
  BY <1>1, <1>6, <1>10, <1>11, SnapshotsStay DEF ChainInv

\* An inserted snapshot is the only one of its number.
LEMMA InsertKeepsChain ==
    ASSUME ChainInv, NEW w \in Writers, Insert(w), LogInv'
    PROVE  ChainInv'
<1>1. script' = script /\ Writers' = Writers
  BY DEF Insert, Writers
<1> DEFINE phase == IF Insertable(Command(w)) THEN "inserted" ELSE "refused"
<1>2. /\ writer' = [writer EXCEPT ![w].phase = phase] /\ writer[w].phase = "made"
      /\ \A v \in Writers : writer[v].phase = "inserted" => ~Conflict(Command(w), Command(v))
  BY DEF Insert
<1>3. phase \in {"inserted", "refused"} /\ (phase = "inserted" => Insertable(Command(w)))
  OBVIOUS
<1> HIDE DEF phase
<1>4. writer'[w].phase = phase /\ \A v \in Writers : v # w => writer'[v] = writer[v]
  BY <1>2 DEF ChainInv, LogInv, WritersAreTyped
<1>5. Stored' = Stored
  BY <1>1, <1>2, <1>3, <1>4 DEF Stored
<1>6. SnapshotsInHand'
  BY <1>1, <1>2, <1>3, <1>4, <1>5, SnapshotsStay DEF ChainInv, SnapshotsInHand
<1>7. InsertedAreAlone'
  <2> SUFFICES ASSUME NEW u \in Writers, NEW v \in Writers, u # v, writer'[u].phase = "inserted",
                      writer'[v].phase \in {"inserted", "stored"}
               PROVE  ~Conflict(Command(u), Command(v))
    BY <1>1, <1>5, SnapshotsStay DEF InsertedAreAlone
  <2>1. \A x \in Writers : /\ x # w /\ phase = "inserted" /\ writer[x].phase \in {"inserted", "stored"}
                           => ~Conflict(Command(w), Command(x))
    BY <1>2, <1>3 DEF Insertable, Stored
  <2>2. CASE u = w
    BY <1>4, <2>1, <2>2
  <2>3. CASE v = w
    BY <1>3, <1>4, <2>1, <2>3, ConflictIsMutual
  <2>4. CASE u # w /\ v # w
    BY <1>4, <2>4 DEF ChainInv, InsertedAreAlone
  <2> QED
    BY <2>2, <2>3, <2>4
<1> QED
  BY <1>1, <1>5, <1>6, <1>7, SnapshotsStay DEF ChainInv

\* A commit adds the snapshot after the last, or none.
LEMMA CommitKeepsChain ==
    ASSUME ChainInv, NEW w \in Writers, Commit(w), LogInv'
    PROVE  ChainInv'
<1>1. script' = script /\ Writers' = Writers /\ \A v : Command(v)' = Command(v)
  BY DEF Commit, Writers, Command
<1>2. writer' = [writer EXCEPT ![w].phase = "stored"] /\ writer[w].phase = "inserted"
  BY DEF Commit
<1>3. writer'[w].phase = "stored" /\ \A v \in Writers : v # w => writer'[v] = writer[v]
  BY <1>2 DEF ChainInv, LogInv, WritersAreTyped
<1>4. Stored' = Stored \union {w} /\ w \notin Stored
  BY <1>1, <1>2, <1>3 DEF Stored
<1>5. Ready \subseteq Ready'
  BY <1>1, <1>4 DEF Ready, Of
<1> DEFINE n == Cardinality(Of("snapshot"))
<1>6. IsFiniteSet(Of("snapshot")) /\ n \in Nat /\ Sequences = 1 .. n /\ Latest = n
  BY StoredAreFinite, FS_CardinalityType, LatestIsTheCount
     DEF ChainInv, LogInv, WritersAreTyped, FrontiersAreContiguous
<1>7. \A v \in Stored : ~Conflict(Command(w), Command(v))
  BY <1>2, <1>4 DEF ChainInv, InsertedAreAlone, Stored
<1>8. FrontiersAreContiguous' /\ Latest' \in Nat /\ Latest <= Latest'
  <2>1. CASE Command(w).kind = "snapshot"
    <3>1. Command(w).sequence \in 1 .. n + 1 /\ Command(w).proposal \in Ready
      BY <1>2, <1>6, <2>1 DEF ChainInv, SnapshotsInHand
    <3>2. Command(w).sequence \notin Sequences
      BY <1>7, <2>1 DEF Sequences, Of, Conflict, SameSnapshot
    <3>3. Command(w).sequence = n + 1
      BY <1>6, <3>1, <3>2
    <3>4. Of("snapshot")' = Of("snapshot") \union {w} /\ w \notin Of("snapshot")
      BY <1>1, <1>4, <2>1 DEF Of
    <3>5. Cardinality(Of("snapshot")') = n + 1
      BY <1>6, <3>4, FS_AddElement
    <3>6. Sequences' = Sequences \union {n + 1}
      BY <1>1, <3>3, <3>4 DEF Sequences
    <3>7. Sequences' = 1 .. n + 1
      BY <1>6, <3>6
    <3>8. Latest' = n + 1
      <4> DEFINE S == Sequences'
      <4>1. (IF S = {} THEN 0 ELSE CHOOSE m \in S : \A k \in S : k <= m) = n + 1
        <5> HIDE DEF S, n
        <5>1. PICK next \in Nat : next = n + 1
          BY <1>6
        <5>2. S = 1 .. next
          BY <3>7, <5>1 DEF S
        <5> QED
          BY <5>1, <5>2, LastOfInterval
      <4> QED
        BY <4>1 DEF Latest
    <3>9. \A v \in Of("snapshot")' : Command(v)'.proposal \in Ready'
      BY <1>1, <1>5, <3>1, <3>4 DEF ChainInv, FrontiersAreContiguous
    <3> HIDE DEF n
    <3> QED
      BY <1>6, <3>5, <3>7, <3>8, <3>9 DEF FrontiersAreContiguous
  <2>2. CASE Command(w).kind # "snapshot"
    <3>1. Of("snapshot")' = Of("snapshot")
      BY <1>1, <1>4, <2>2 DEF Of
    <3>2. Sequences' = Sequences
      BY <1>1, <3>1 DEF Sequences
    <3>3. Latest' = Latest
      BY <3>2 DEF Latest
    <3> HIDE DEF n
    <3> QED
      BY <1>1, <1>5, <1>6, <3>1, <3>2, <3>3 DEF ChainInv, FrontiersAreContiguous
  <2> QED
    BY <2>1, <2>2
<1>9. SnapshotsInHand'
  <2> SUFFICES ASSUME NEW v \in Writers, Command(v).kind = "snapshot", writer'[v].phase \in {"made", "inserted"}
               PROVE  Command(v).sequence \in 1 .. Latest' + 1 /\ Command(v).proposal \in Ready'
    BY <1>1 DEF SnapshotsInHand
  <2>1. v # w /\ writer[v].phase \in {"made", "inserted"}
    BY <1>3
  <2>2. Command(v).sequence \in 1 .. Latest + 1 /\ Command(v).proposal \in Ready
    BY <2>1 DEF ChainInv, SnapshotsInHand
  <2> HIDE DEF n
  <2> QED
    BY <1>5, <1>6, <1>8, <2>2
<1>10. InsertedAreAlone'
  <2> SUFFICES ASSUME NEW u \in Writers, NEW v \in Writers, u # v, writer'[u].phase = "inserted",
                      writer'[v].phase \in {"inserted", "stored"}
               PROVE  ~Conflict(Command(u), Command(v))
    BY <1>1 DEF InsertedAreAlone
  <2>1. u # w /\ writer[u].phase = "inserted"
    BY <1>3
  <2>2. writer[v].phase \in {"inserted", "stored"}
    BY <1>2, <1>3
  <2> QED
    BY <2>1, <2>2 DEF ChainInv, InsertedAreAlone
<1> QED
  BY <1>8, <1>9, <1>10 DEF ChainInv

\* The inductive invariant of the chain of snapshots
\* (frontier-snapshot-command.mjs, frontier_snapshots_project_sequence_idx):
\* what a transaction has decided stays true until it commits.
THEOREM SnapshotsAreNext == Spec => []ChainInv
<1>1. ChainInv /\ [Next]_vars => ChainInv'
  <2> SUFFICES ASSUME ChainInv, [Next]_vars
               PROVE  ChainInv'
    OBVIOUS
  <2>1. LogInv'
    BY LogStep DEF ChainInv
  <2>2. CASE UNCHANGED <<clock, writer>>
    <3>1. script' = script /\ Writers' = Writers
      BY OnlyTransactionsMove DEF Writers
    <3>2. Stored' = Stored
      BY <2>2, <3>1 DEF Stored
    <3> QED
      BY <2>1, <2>2, <3>1, <3>2, SnapshotsStay DEF ChainInv, SnapshotsInHand, InsertedAreAlone
  <2>3. CASE \E w \in Writers : Moves(w)
    BY <2>1, <2>3, BeginKeepsChain, MakeEventKeepsChain, InsertKeepsChain, CommitKeepsChain DEF Moves
  <2> QED
    BY <2>2, <2>3, OnlyTransactionsMove
<1> QED
  BY <1>1, InitChain, PTL DEF Spec

\* However creations overlap, the snapshots are numbered without a gap or a
\* fork, for any commands and scripts (assertFrontierChain).
THEOREM FrontiersStayContiguous == Spec => []FrontiersAreContiguous
<1>1. ChainInv => FrontiersAreContiguous
  BY DEF ChainInv
<1> QED
  BY <1>1, SnapshotsAreNext, PTL

-----------------------------------------------------------------------------
(***************************************************************************)
(* The order of the log, and the pages of it.  Starts are drawn one after  *)
(* the other, so they order the events; what was delivered started no      *)
(* later than the cursor, and what was there and was not delivered, later. *)
(***************************************************************************)

\* Rows are put in the order of their starts, each once.
Sorts(s, rows) ==
    /\ Cardinality(rows) \in Nat
    /\ s \in Seq(rows) /\ Len(s) = Cardinality(rows) /\ DOMAIN s = 1 .. Cardinality(rows)
    /\ \A w \in rows : \E i \in 1 .. Cardinality(rows) : s[i] = w
    /\ \A i, j \in 1 .. Cardinality(rows) : i < j => writer[s[i]].start < writer[s[j]].start

\* The order of the log is the order of the starts; ids decide nothing.
LEMMA StartsOrder ==
    ASSUME LogInv
    PROVE  /\ \A w \in Stored : writer[w].start \in Nat \ {0} /\ writer[w].id \in Nat
           /\ \A v, w \in Stored : writer[v].start = writer[w].start => v = w
           /\ \A v, w \in Stored : Before(v, w) <=> writer[v].start < writer[w].start
<1>1. \A w \in Stored : w \in Writers /\ writer[w].phase \in Begun
  BY DEF Stored, Begun
<1>2. \A w \in Writers : writer[w].start \in Nat /\ writer[w].id \in Nat
  BY DEF LogInv, WritersAreTyped
<1>3. \A w \in Stored : writer[w].start # 0
  BY <1>1 DEF LogInv, TimesAreDrawn
<1>4. \A v, w \in Stored : writer[v].start = writer[w].start => v = w
  BY <1>1 DEF LogInv, TimesAreDrawn
<1>5. \A v, w \in Stored : Before(v, w) <=> writer[v].start < writer[w].start
  BY <1>1, <1>2, <1>4 DEF Before
<1> QED
  BY <1>1, <1>2, <1>3, <1>4, <1>5

\* Ordered lists each of its rows once, by start.
LEMMA OrderedSorts ==
    ASSUME LogInv, NEW rows, rows \subseteq Stored
    PROVE  Sorts(Ordered(rows), rows) /\ \A w \in rows : /\ PlaceIn(rows, w) \in 1 .. Cardinality(rows)
                                                        /\ Ordered(rows)[PlaceIn(rows, w)] = w
<1> DEFINE n == Cardinality(rows)
<1> DEFINE Ahead(w) == {v \in rows : Before(v, w)}
<1>1. IsFiniteSet(rows) /\ n \in Nat
  BY StoredAreFinite, FS_Subset, FS_CardinalityType DEF LogInv, WritersAreTyped
<1>2. /\ \A w \in rows : writer[w].start \in Nat
      /\ \A v, w \in rows : writer[v].start = writer[w].start => v = w
      /\ \A v, w \in rows : Before(v, w) <=> writer[v].start < writer[w].start
  BY StartsOrder
<1>3. \A w \in rows : /\ IsFiniteSet(Ahead(w)) /\ Cardinality(Ahead(w)) \in Nat
                      /\ Cardinality(Ahead(w)) < n
  <2> TAKE w \in rows
  <2>1. Ahead(w) \subseteq rows /\ Ahead(w) # rows
    BY <1>2
  <2> HIDE DEF Ahead
  <2> QED
    BY <1>1, <2>1, FS_Subset, FS_CardinalityType
<1>4. \A v, w \in rows : Before(v, w) => Cardinality(Ahead(v)) < Cardinality(Ahead(w))
  <2> SUFFICES ASSUME NEW v \in rows, NEW w \in rows, Before(v, w)
               PROVE  Cardinality(Ahead(v)) < Cardinality(Ahead(w))
    OBVIOUS
  <2>1. Ahead(v) \subseteq Ahead(w) /\ Ahead(v) # Ahead(w)
    BY <1>2
  <2>2. /\ IsFiniteSet(Ahead(w)) /\ Cardinality(Ahead(w)) \in Nat /\ Cardinality(Ahead(v)) \in Nat
    BY <1>3
  <2> HIDE DEF Ahead
  <2> QED
    BY <2>1, <2>2, FS_Subset
<1> DEFINE place == [w \in rows |-> Cardinality(Ahead(w)) + 1]
<1>5. \A w \in rows : place[w] = PlaceIn(rows, w) /\ place[w] \in 1 .. n
  <2> TAKE w \in rows
  <2>1. place[w] = Cardinality(Ahead(w)) + 1 /\ PlaceIn(rows, w) = Cardinality(Ahead(w)) + 1
    BY DEF PlaceIn
  <2>2. Cardinality(Ahead(w)) \in Nat /\ Cardinality(Ahead(w)) < n
    BY <1>3
  <2> HIDE DEF Ahead, n, place
  <2> QED
    BY <1>1, <2>1, <2>2
<1>6. \A v, w \in rows : /\ Before(v, w) => place[v] < place[w]
                         /\ place[v] = place[w] => v = w
                         /\ place[v] < place[w] => writer[v].start < writer[w].start
  <2>1. \A w \in rows : place[w] = Cardinality(Ahead(w)) + 1 /\ Cardinality(Ahead(w)) \in Nat
    BY <1>3
  <2> HIDE DEF Ahead, place
  <2>2. \A v, w \in rows : Before(v, w) => place[v] < place[w]
    BY <1>4, <2>1
  <2>3. \A v, w \in rows : v = w \/ Before(v, w) \/ Before(w, v)
    BY <1>2
  <2>4. \A w \in rows : place[w] \in Nat
    BY <2>1
  <2> QED
    BY <1>2, <2>2, <2>3, <2>4
<1>7. place \in Injection(rows, 1 .. n)
  <2>1. place \in [rows -> 1 .. n]
    BY <1>5
  <2> HIDE DEF place
  <2> QED
    BY <1>6, <2>1 DEF Injection, IsInjective
<1>8. IsFiniteSet(1 .. n) /\ Cardinality(1 .. n) = n
  <2> HIDE DEF n
  <2> QED
    BY <1>1, FS_Interval
<1>9. place \in Surjection(rows, 1 .. n)
  <2>1. Cardinality(rows) = Cardinality(1 .. n)
    BY <1>8
  <2> HIDE DEF n, place
  <2> QED
    BY <1>7, <1>8, <2>1, FS_Injection
<1>10. \A i \in 1 .. n : \E w \in rows : place[w] = i
  <2> HIDE DEF n, place
  <2> QED
    BY <1>9 DEF Surjection
<1> DEFINE s == Ordered(rows)
<1>11. DOMAIN s = 1 .. n /\ s = [i \in 1 .. n |-> s[i]]
       /\ \A i \in 1 .. n : s[i] = CHOOSE w \in rows : PlaceIn(rows, w) = i
  BY DEF Ordered
<1> HIDE DEF n, s, place, Ahead
<1>12. \A i \in 1 .. n : s[i] \in rows /\ place[s[i]] = i
  <2> TAKE i \in 1 .. n
  <2>1. \E w \in rows : PlaceIn(rows, w) = i
    BY <1>5, <1>10
  <2>2. s[i] = CHOOSE w \in rows : PlaceIn(rows, w) = i
    BY <1>11
  <2>3. s[i] \in rows /\ PlaceIn(rows, s[i]) = i
    BY <2>1, <2>2
  <2> QED
    BY <1>5, <2>3
<1>13. s \in Seq(rows) /\ Len(s) = n
  <2>1. s \in [1 .. n -> rows]
    BY <1>11, <1>12
  <2> QED
    BY <1>1, <2>1
<1>14. \A w \in rows : s[place[w]] = w
  BY <1>5, <1>6, <1>12
<1>15. \A i, j \in 1 .. n : i < j => writer[s[i]].start < writer[s[j]].start
  BY <1>6, <1>12
<1>16. \A w \in rows : PlaceIn(rows, w) \in 1 .. n /\ s[PlaceIn(rows, w)] = w
  BY <1>5, <1>14
<1> QED
  BY <1>1, <1>5, <1>11, <1>13, <1>14, <1>15, <1>16 DEF Sorts, n, s

\* The minimum of two numbers.
LEMMA SmallerOfTwo ==
    ASSUME NEW a \in Nat, NEW b \in Nat
    PROVE  Min({a, b}) = IF a <= b THEN a ELSE b
<1> DEFINE least == IF a <= b THEN a ELSE b
<1>1. least \in {a, b} /\ \A x \in {a, b} : least <= x
  OBVIOUS
<1> DEFINE m == CHOOSE x \in {a, b} : \A y \in {a, b} : x <= y
<1>2. m \in {a, b} /\ \A y \in {a, b} : m <= y
  BY <1>1
<1>3. Min({a, b}) = m
  BY DEF Min
<1> HIDE DEF m
<1> QED
  BY <1>1, <1>2, <1>3

\* The first rows.
LEMMA LimitedRows ==
    ASSUME NEW S, NEW rows \in Seq(S), NEW n \in Nat
    PROVE  LET k == IF n <= Len(rows) THEN n ELSE Len(rows)
           IN  /\ k \in Nat /\ k <= Len(rows) /\ k <= n
               /\ Limited(rows, n) \in Seq(S) /\ Len(Limited(rows, n)) = k
               /\ \A i \in 1 .. k : Limited(rows, n)[i] = rows[i]
<1>1. Len(rows) \in Nat
  OBVIOUS
<1> DEFINE k == IF n <= Len(rows) THEN n ELSE Len(rows)
<1>2. k \in Nat /\ k <= Len(rows) /\ k <= n
  BY <1>1
<1>3. Limited(rows, n) = SubSeq(rows, 1, k)
  BY <1>1, SmallerOfTwo DEF Limited
<1> HIDE DEF k
<1>4. SubSeq(rows, 1, k) \in Seq(S) /\ Len(SubSeq(rows, 1, k)) = k
      /\ \A i \in 1 .. k : SubSeq(rows, 1, k)[i] = rows[i]
  BY <1>1, <1>2
<1> QED
  BY <1>2, <1>3, <1>4 DEF k

\* A page of a list of rows.
LEMMA PageOfRows ==
    ASSUME NEW S, NEW rows \in Seq(S)
    PROVE  LET page == Paginate(Limited(rows, PageLimit + 1))
           IN  \E k \in Nat :
                  /\ k <= Len(rows) /\ page.items \in Seq(S) /\ Len(page.items) = k
                  /\ \A i \in 1 .. k : page.items[i] = rows[i]
                  /\ ~page.more => k = Len(rows)
<1> DEFINE some == Limited(rows, PageLimit + 1)
<1> DEFINE items == Limited(some, PageLimit)
<1>1. PageLimit \in Nat /\ PageLimit + 1 \in Nat /\ Len(rows) \in Nat
  BY LimitsAssumption
<1> DEFINE l == IF PageLimit + 1 <= Len(rows) THEN PageLimit + 1 ELSE Len(rows)
<1>2. l \in Nat /\ l <= Len(rows) /\ some \in Seq(S) /\ Len(some) = l /\ \A i \in 1 .. l : some[i] = rows[i]
  BY <1>1, LimitedRows
<1> DEFINE k == IF PageLimit <= l THEN PageLimit ELSE l
<1>3. k \in Nat /\ k <= l /\ items \in Seq(S) /\ Len(items) = k /\ \A i \in 1 .. k : items[i] = some[i]
  <2> HIDE DEF some, l
  <2>1. some \in Seq(S) /\ Len(some) = l
    BY <1>2
  <2> QED
    BY <1>1, <2>1, LimitedRows
<1> DEFINE page == Paginate(some)
<1>4. page.items = items /\ (page.more <=> Len(some) > PageLimit)
  BY DEF Paginate
<1>5. k <= Len(rows) /\ \A i \in 1 .. k : items[i] = rows[i]
  <2> HIDE DEF some, items, l, k
  <2> QED
    BY <1>1, <1>2, <1>3
<1>6. ~(Len(some) > PageLimit) => k = Len(rows)
  <2> HIDE DEF some, items
  <2> QED
    BY <1>1, <1>2
<1> HIDE DEF some, items, l, k, page
<1>7. page.items \in Seq(S) /\ Len(page.items) = k /\ (\A i \in 1 .. k : page.items[i] = rows[i])
      /\ (~page.more => k = Len(rows))
  BY <1>3, <1>4, <1>5, <1>6
<1> QED
  BY <1>3, <1>5, <1>7 DEF page, some

\* What follows a sequence in another.
LEMMA MembersOfConcat ==
    ASSUME NEW S, NEW s \in Seq(S), NEW t \in Seq(S)
    PROVE  ToSet(s \o t) = ToSet(s) \union {t[i] : i \in 1 .. Len(t)}
<1>1. /\ s \o t \in Seq(S) /\ Len(s \o t) = Len(s) + Len(t) /\ Len(s) \in Nat /\ Len(t) \in Nat
      /\ DOMAIN (s \o t) = 1 .. Len(s) + Len(t) /\ DOMAIN s = 1 .. Len(s)
      /\ \A i \in 1 .. Len(s) + Len(t) : (s \o t)[i] = IF i <= Len(s) THEN s[i] ELSE t[i - Len(s)]
  OBVIOUS
<1> DEFINE all == s \o t
<1> HIDE DEF all
<1>2. ASSUME NEW x \in ToSet(all)
      PROVE  x \in ToSet(s) \union {t[i] : i \in 1 .. Len(t)}
  <2>1. PICK i \in 1 .. Len(s) + Len(t) : x = all[i]
    BY <1>1, <1>2 DEF ToSet, all
  <2>2. CASE i <= Len(s)
    <3>1. i \in DOMAIN s /\ x = s[i]
      BY <1>1, <2>1, <2>2 DEF all
    <3> QED
      BY <3>1 DEF ToSet
  <2>3. CASE ~(i <= Len(s))
    <3>1. i - Len(s) \in 1 .. Len(t) /\ x = t[i - Len(s)]
      BY <1>1, <2>1, <2>3 DEF all
    <3> QED
      BY <3>1
  <2> QED
    BY <2>2, <2>3
<1>3. ASSUME NEW i \in 1 .. Len(s)
      PROVE  s[i] \in ToSet(all)
  <2>1. i \in DOMAIN all /\ all[i] = s[i]
    BY <1>1 DEF all
  <2> QED
    BY <2>1 DEF ToSet
<1>4. ASSUME NEW i \in 1 .. Len(t)
      PROVE  t[i] \in ToSet(all)
  <2>1. Len(s) + i \in 1 .. Len(s) + Len(t) /\ ~(Len(s) + i <= Len(s)) /\ Len(s) + i - Len(s) = i
    BY <1>1
  <2>2. Len(s) + i \in DOMAIN all /\ all[Len(s) + i] = t[i]
    BY <1>1, <2>1 DEF all
  <2> QED
    BY <2>2 DEF ToSet
<1>5. ToSet(s) = {s[i] : i \in 1 .. Len(s)}
  BY <1>1 DEF ToSet
<1> QED
  BY <1>2, <1>3, <1>4, <1>5 DEF all

ReaderIsTyped ==
    /\ reader.delivered \in Seq(Stored) /\ reader.old \subseteq Stored
    /\ reader.cursor = <<0, 0>> \/ \E w \in Stored : reader.cursor = Key(w)
    /\ reader.step = "idle" => reader.cursor = <<0, 0>>
DeliveredBeforeCursor ==
    \A i \in DOMAIN reader.delivered : writer[reader.delivered[i]].start <= reader.cursor[1]
OldIsAhead ==
    \A w \in reader.old : w \in ToSet(reader.delivered) \/ writer[w].start > reader.cursor[1]
PageInv == LogInv /\ ReaderIsTyped /\ DeliveredBeforeCursor /\ OldIsAhead /\ PagesDeliver

\* A cursor asks for what started after it.
LEMMA CursorAsksForLater ==
    ASSUME LogInv, NEW cursor, cursor = <<0, 0>> \/ \E w \in Stored : cursor = Key(w)
    PROVE  /\ cursor[1] \in Nat
           /\ \A w \in Stored : cursor = <<0, 0>> \/ After(w, cursor) <=> writer[w].start > cursor[1]
<1>1. CASE cursor = <<0, 0>>
  <2>1. cursor[1] = 0
    BY <1>1
  <2> QED
    BY <1>1, <2>1, StartsOrder
<1>2. CASE cursor # <<0, 0>>
  <2>1. PICK v \in Stored : cursor = Key(v)
    BY <1>2
  <2>2. cursor[1] = writer[v].start /\ cursor[2] = writer[v].id
    BY <2>1 DEF Key
  <2>3. \A w \in Stored : After(w, cursor) <=> writer[w].start > writer[v].start
    BY <2>2, StartsOrder DEF After
  <2> QED
    BY <1>2, <2>2, <2>3, StartsOrder
<1> QED
  BY <1>1, <1>2

\* A page delivers the first events after the cursor, and moves it past them.
LEMMA ListEventsKeepsPages ==
    ASSUME PageInv, ListEvents, LogInv'
    PROVE  PageInv'
<1> DEFINE rows == {w \in Stored : reader.cursor = <<0, 0>> \/ After(w, reader.cursor)}
<1> DEFINE list == Ordered(rows)
<1> DEFINE page == Paginate(Limited(list, PageLimit + 1))
<1> DEFINE c == reader.cursor[1]
<1>1. c \in Nat /\ rows = {w \in Stored : writer[w].start > c}
  BY CursorAsksForLater DEF PageInv, ReaderIsTyped
<1>2. Sorts(list, rows)
  <2>1. rows \subseteq Stored
    OBVIOUS
  <2> HIDE DEF rows
  <2> QED
    BY <2>1, OrderedSorts DEF PageInv
<1>3. /\ script' = script /\ writer' = writer /\ Stored' = Stored
      /\ reader' = [step |-> IF page.more THEN "paging" ELSE "done",
                    cursor |-> IF page.items = << >> THEN reader.cursor ELSE Key(Last(page.items)),
                    old |-> IF reader.step = "idle" THEN Stored ELSE reader.old,
                    delivered |-> reader.delivered \o page.items]
  BY DEF ListEvents, Matching, source, Stored, Writers
<1> HIDE DEF rows, list, c
<1>4. list \in Seq(rows) /\ Len(list) = Cardinality(rows) /\ Cardinality(rows) \in Nat
      /\ (\A w \in rows : \E i \in 1 .. Len(list) : list[i] = w)
      /\ \A i, j \in 1 .. Len(list) : i < j => writer[list[i]].start < writer[list[j]].start
  BY <1>2 DEF Sorts
<1>5. PICK k \in Nat : /\ k <= Len(list) /\ page.items \in Seq(rows) /\ Len(page.items) = k
                       /\ \A i \in 1 .. k : page.items[i] = list[i]
                       /\ ~page.more => k = Len(list)
  BY <1>4, PageOfRows
<1> DEFINE items == page.items
<1> DEFINE sent == reader.delivered
<1>6. rows \subseteq Stored /\ \A w \in rows : writer[w].start > c /\ writer[w].start \in Nat
  BY <1>1, StartsOrder DEF PageInv
<1>7. /\ sent \in Seq(Stored) /\ \A i \in 1 .. Len(sent) : sent[i] \in Stored /\ writer[sent[i]].start <= c
  BY DEF PageInv, ReaderIsTyped, DeliveredBeforeCursor, c
<1>8. /\ reader'.delivered = sent \o items
      /\ reader'.cursor = IF items = << >> THEN reader.cursor ELSE Key(Last(items))
      /\ reader'.old = (IF reader.step = "idle" THEN Stored ELSE reader.old)
      /\ reader'.step \in {"paging", "done"} /\ (reader'.step = "done" => ~page.more)
  BY <1>3
<1> HIDE DEF page
<1>9. /\ items \in Seq(Stored) /\ Len(items) = k
      /\ \A i \in 1 .. k : items[i] = list[i] /\ items[i] \in rows
  <2>1. items \in Seq(rows) /\ Len(items) = k /\ \A i \in 1 .. k : items[i] = list[i]
    BY <1>5
  <2> HIDE DEF items
  <2> QED
    BY <1>6, <2>1
<1> HIDE DEF items, sent
<1> DEFINE all == sent \o items
<1>10. /\ all \in Seq(Stored) /\ Len(all) = Len(sent) + k /\ Len(sent) \in Nat
       /\ \A i \in 1 .. Len(sent) : all[i] = sent[i]
       /\ \A i \in 1 .. k : all[Len(sent) + i] = items[i]
  BY <1>7, <1>9
<1> HIDE DEF all
<1>11. ToSet(all) = ToSet(sent) \union {items[i] : i \in 1 .. k}
  BY <1>7, <1>9, MembersOfConcat DEF all
<1> DEFINE d == reader'.cursor[1]
<1>12. /\ d \in Nat /\ c <= d /\ \A i \in 1 .. k : writer[items[i]].start <= d
       /\ \A i \in 1 .. Len(list) : i \in 1 .. k \/ writer[list[i]].start > d
       /\ reader'.cursor = <<0, 0>> \/ \E w \in Stored : reader'.cursor = Key(w)
  <2>1. CASE k = 0
    <3>1. items = << >>
      BY <1>9, <2>1
    <3>2. reader'.cursor = reader.cursor
      BY <1>8, <3>1
    <3>3. d = c
      BY <3>2 DEF c
    <3>4. \A i \in 1 .. Len(list) : list[i] \in rows
      BY <1>4
    <3> HIDE DEF d
    <3> QED
      BY <1>1, <1>6, <2>1, <3>2, <3>3, <3>4 DEF PageInv, ReaderIsTyped
  <2>2. CASE k # 0
    <3>1. items # << >> /\ Last(items) = items[k] /\ k \in 1 .. k /\ k \in 1 .. Len(list)
      BY <1>4, <1>5, <1>9, <2>2 DEF Last
    <3>2. reader'.cursor = Key(items[k])
      BY <1>8, <3>1
    <3>3. d = writer[items[k]].start /\ items[k] = list[k] /\ items[k] \in rows
      BY <1>9, <3>1, <3>2 DEF Key
    <3>4. \A i \in 1 .. Len(list) : list[i] \in rows
      BY <1>4
    <3>5. \A i \in 1 .. k : i \in 1 .. Len(list) /\ (i = k \/ i < k)
      BY <1>5
    <3>6. \A i \in 1 .. Len(list) : i \in 1 .. k \/ k < i
      BY <1>5
    <3>7. d \in Nat /\ c <= d
      BY <1>1, <1>6, <3>3
    <3> HIDE DEF d
    <3>8. \A i \in 1 .. k : writer[items[i]].start <= d
      BY <1>4, <1>6, <1>9, <3>1, <3>3, <3>5
    <3>9. \A i \in 1 .. Len(list) : i \in 1 .. k \/ writer[list[i]].start > d
      BY <1>4, <1>6, <3>1, <3>3, <3>4, <3>6
    <3> QED
      BY <1>6, <3>2, <3>3, <3>7, <3>8, <3>9
  <2> QED
    BY <2>1, <2>2
<1> HIDE DEF d
<1>13. IsInjective(all)
  <2>1. IsInjective(sent) /\ DOMAIN sent = 1 .. Len(sent) /\ DOMAIN all = 1 .. Len(sent) + k
    BY <1>7, <1>10 DEF PageInv, PagesDeliver, sent
  <2> SUFFICES ASSUME NEW i \in 1 .. Len(sent) + k, NEW j \in 1 .. Len(sent) + k, i < j
               PROVE  all[i] # all[j]
    <3>1. \A i, j \in 1 .. Len(sent) + k : i < j => all[i] # all[j]
      OBVIOUS
    <3> QED
      BY <1>10, <2>1, <3>1 DEF IsInjective
  <2>2. CASE j <= Len(sent)
    <3>1. i \in 1 .. Len(sent) /\ j \in 1 .. Len(sent) /\ i # j
      BY <1>10, <2>2
    <3> QED
      BY <1>10, <2>1, <3>1 DEF IsInjective
  <2>3. CASE i <= Len(sent) /\ ~(j <= Len(sent))
    <3>1. i \in 1 .. Len(sent) /\ j - Len(sent) \in 1 .. k /\ j = Len(sent) + (j - Len(sent))
      BY <1>10, <2>3
    <3>2. all[i] = sent[i] /\ all[j] = items[j - Len(sent)]
      BY <1>10, <3>1
    <3>3. writer[sent[i]].start <= c /\ writer[items[j - Len(sent)]].start > c
      BY <1>6, <1>7, <1>9, <3>1
    <3>4. writer[sent[i]].start \in Nat /\ writer[items[j - Len(sent)]].start \in Nat
      BY <1>6, <1>7, <1>9, <3>1, StartsOrder DEF PageInv
    <3> QED
      BY <1>1, <3>2, <3>3, <3>4
  <2>4. CASE ~(i <= Len(sent))
    <3>1. /\ i - Len(sent) \in 1 .. k /\ i = Len(sent) + (i - Len(sent))
          /\ j - Len(sent) \in 1 .. k /\ j = Len(sent) + (j - Len(sent))
          /\ i - Len(sent) < j - Len(sent)
      BY <1>10, <2>4
    <3>2. PICK x \in 1 .. k, y \in 1 .. k : /\ x < y /\ i = Len(sent) + x /\ j = Len(sent) + y
                                            /\ x \in 1 .. Len(list) /\ y \in 1 .. Len(list)
      BY <1>5, <3>1
    <3>3. all[i] = list[x] /\ all[j] = list[y] /\ list[x] \in rows /\ list[y] \in rows
      BY <1>9, <1>10, <3>2
    <3>4. writer[list[x]].start < writer[list[y]].start
      BY <1>4, <3>2
    <3> QED
      BY <1>6, <3>3, <3>4
  <2> QED
    BY <2>2, <2>3, <2>4
<1>14. ASSUME NEW w \in reader'.old
       PROVE  /\ w \in ToSet(all) \/ writer[w].start > d
              /\ ~page.more => w \in ToSet(all)
              /\ w \in Stored
  <2>1. w \in Stored
    BY <1>8, <1>14 DEF PageInv, ReaderIsTyped
  <2>2. w \in ToSet(sent) \/ w \in rows
    <3>1. CASE reader.step = "idle"
      <4>1. c = 0 /\ writer[w].start \in Nat \ {0}
        BY <2>1, <3>1, StartsOrder DEF PageInv, ReaderIsTyped, c
      <4> QED
        BY <1>1, <2>1, <4>1
    <3>2. CASE reader.step # "idle"
      <4>1. w \in reader.old
        BY <1>8, <1>14, <3>2
      <4> QED
        BY <1>1, <2>1, <4>1 DEF PageInv, OldIsAhead, c, sent
    <3> QED
      BY <3>1, <3>2
  <2>3. CASE w \in ToSet(sent)
    BY <1>11, <2>1, <2>3
  <2>4. CASE w \in rows
    <3>1. PICK i \in 1 .. Len(list) : list[i] = w
      BY <1>4, <2>4
    <3>2. i \in 1 .. k \/ (writer[w].start > d /\ page.more)
      BY <1>5, <1>12, <3>1
    <3>3. i \in 1 .. k => w \in ToSet(all)
      BY <1>9, <1>11, <3>1
    <3> QED
      BY <2>1, <3>2, <3>3
  <2> QED
    BY <2>2, <2>3, <2>4
<1>15. \A i \in DOMAIN all : writer[all[i]].start <= d
  <2> TAKE i \in DOMAIN all
  <2>1. all[i] \in ToSet(all)
    BY DEF ToSet
  <2>2. CASE all[i] \in ToSet(sent)
    <3>1. PICK j \in 1 .. Len(sent) : all[i] = sent[j]
      BY <1>7, <2>2 DEF ToSet
    <3>2. writer[sent[j]].start <= c /\ writer[sent[j]].start \in Nat
      BY <1>7, StartsOrder DEF PageInv
    <3> QED
      BY <1>1, <1>12, <3>1, <3>2
  <2>3. CASE all[i] \notin ToSet(sent)
    BY <1>11, <1>12, <2>1, <2>3
  <2> QED
    BY <2>2, <2>3
<1>16. /\ reader'.delivered = all /\ reader'.old \subseteq Stored /\ reader'.step # "idle"
       /\ reader'.step = "done" => ~page.more
  BY <1>8, <1>14 DEF all
<1>17. ReaderIsTyped'
  BY <1>3, <1>10, <1>12, <1>16 DEF ReaderIsTyped, Key
<1>18. DeliveredBeforeCursor'
  BY <1>3, <1>15, <1>16 DEF DeliveredBeforeCursor, d
<1>19. OldIsAhead'
  BY <1>3, <1>14, <1>16 DEF OldIsAhead, d
<1>20. PagesDeliver'
  BY <1>13, <1>14, <1>16 DEF PagesDeliver
<1> QED
  BY <1>17, <1>18, <1>19, <1>20 DEF PageInv

\* The inductive invariant of a client that follows the cursors of
\* listResearchEvents.
THEOREM OldStaysAhead == Spec => []PageInv
<1>1. Init => PageInv
  <2> SUFFICES ASSUME Init
               PROVE  PageInv
    OBVIOUS
  <2>1. reader = [step |-> "idle", cursor |-> <<0, 0>>, old |-> {}, delivered |-> << >>] /\ LogInv
    BY InitLog DEF Init
  <2>2. reader.delivered = << >> /\ reader.old = {} /\ reader.cursor = <<0, 0>> /\ reader.step = "idle"
    BY <2>1
  <2>3. DOMAIN reader.delivered = {} /\ reader.delivered \in Seq(Stored)
    BY <2>2
  <2> QED
    BY <2>1, <2>2, <2>3 DEF PageInv, ReaderIsTyped, DeliveredBeforeCursor, OldIsAhead, PagesDeliver, IsInjective
<1>2. PageInv /\ [Next]_vars => PageInv'
  <2> SUFFICES ASSUME PageInv, [Next]_vars
               PROVE  PageInv'
    OBVIOUS
  <2>1. LogInv'
    BY LogStep DEF PageInv
  <2>2. ListEvents \/ reader' = reader
    BY DEF Next, vars, Begin, MakeEvent, Insert, Commit, Abort, ExportProof, CreateCheckpoint, ImportWitness,
           OpenExport, ReadEvents, FinishExport, Precheck, Import
  <2>3. CASE reader' = reader
    <3>1. Stored \subseteq Stored' /\ \A w \in Stored : writer'[w] = writer[w] /\ Key(w)' = Key(w)
      BY StoredStay DEF PageInv, Key
    <3>2. reader.delivered \in Seq(Stored) /\ reader.old \subseteq Stored
      BY DEF PageInv, ReaderIsTyped
    <3>3. \A i \in DOMAIN reader.delivered : reader.delivered[i] \in Stored
      BY <3>2
    <3>4. reader.delivered \in Seq(Stored')
      BY <3>1, <3>2
    <3>5. ReaderIsTyped'
      BY <2>3, <3>1, <3>2, <3>4 DEF PageInv, ReaderIsTyped
    <3>6. DeliveredBeforeCursor' /\ OldIsAhead' /\ PagesDeliver'
      BY <2>3, <3>1, <3>2, <3>3 DEF PageInv, DeliveredBeforeCursor, OldIsAhead, PagesDeliver
    <3> QED
      BY <2>1, <3>5, <3>6 DEF PageInv
  <2> QED
    BY <2>1, <2>2, <2>3, ListEventsKeepsPages
<1> QED
  BY <1>1, <1>2, PTL DEF Spec

\* A client that pages through the log gets no event twice and, in the end,
\* every event that was stored when it began, for any page and any order in
\* which transactions commit (listResearchEvents).
THEOREM PagesDeliverTheOld == Spec => []PagesDeliver
<1>1. PageInv => PagesDeliver
  BY DEF PageInv
<1> QED
  BY <1>1, OldStaysAhead, PTL

-----------------------------------------------------------------------------
(***************************************************************************)
(* A replay of the log.  What the first n events make of the projections   *)
(* is refused, or holds for each claim among them its last revision.       *)
(***************************************************************************)

\* What the first events have made of the projection, for each number of them.
Projections(events) ==
    CHOOSE f : f = [n \in 0 .. Len(events) |->
                       IF n = 0 THEN << >> ELSE ApplySnapshot(f[n - 1], events[n])]

\* f is the projection after each number of events.
Projects(f, events, m) ==
    /\ DOMAIN f = 0 .. m
    /\ f[0] = << >>
    /\ \A i \in 1 .. m : f[i] = ApplySnapshot(f[i - 1], events[i])

\* A replay goes on event by event.
LEMMA ReplayGoesOn ==
    ASSUME NEW n \in Nat, NEW events
    PROVE  \E f : Projects(f, events, n)
<1> DEFINE Good == {m \in 0 .. n : \E f : Projects(f, events, m)}
<1>1. 0 \in Good
  <2> DEFINE f == [i \in 0 .. 0 |-> << >>]
  <2>1. DOMAIN f = 0 .. 0 /\ f[0] = << >> /\ 1 .. 0 = {}
    OBVIOUS
  <2> HIDE DEF f
  <2>2. Projects(f, events, 0)
    BY <2>1 DEF Projects
  <2> QED
    BY <2>2
<1>2. ASSUME NEW m \in 1 .. n, m - 1 \in Good
      PROVE  m \in Good
  <2>1. PICK f : Projects(f, events, m - 1)
    BY <1>2
  <2> DEFINE next == ApplySnapshot(f[m - 1], events[m])
  <2> DEFINE g == [i \in 0 .. m |-> IF i = m THEN next ELSE f[i]]
  <2> HIDE DEF next
  <2>2. DOMAIN g = 0 .. m /\ g[m] = next /\ \A i \in 0 .. m - 1 : g[i] = f[i]
    <3>1. m \in Nat /\ m \in 0 .. m
      OBVIOUS
    <3>2. \A i \in 0 .. m - 1 : i \in 0 .. m /\ i # m
      OBVIOUS
    <3>3. DOMAIN g = 0 .. m
      OBVIOUS
    <3>4. \A i \in 0 .. m : g[i] = IF i = m THEN next ELSE f[i]
      OBVIOUS
    <3> HIDE DEF g
    <3> QED
      BY <3>1, <3>2, <3>3, <3>4
  <2> HIDE DEF g
  <2>3. g[0] = << >>
    <3>1. 0 \in 0 .. m - 1
      OBVIOUS
    <3> QED
      BY <2>1, <2>2, <3>1 DEF Projects
  <2>4. \A i \in 1 .. m : g[i] = ApplySnapshot(g[i - 1], events[i])
    <3> TAKE i \in 1 .. m
    <3>1. i - 1 \in 0 .. m - 1 /\ g[i - 1] = f[i - 1]
      BY <2>2
    <3>2. CASE i = m
      BY <2>2, <3>1, <3>2 DEF next
    <3>3. CASE i # m
      <4>1. i \in 1 .. m - 1 /\ i \in 0 .. m - 1
        BY <3>3
      <4> QED
        BY <2>1, <2>2, <3>1, <4>1 DEF Projects
    <3> QED
      BY <3>2, <3>3
  <2>5. Projects(g, events, m)
    BY <2>2, <2>3, <2>4 DEF Projects
  <2> QED
    BY <2>5
<1>3. n \in Good
  <2> HIDE DEF Good
  <2> QED
    BY <1>1, <1>2, UpTo
<1> QED
  BY <1>3

\* The replay is the last of the projections.
LEMMA ReplayIsProjected ==
    ASSUME NEW events, Len(events) \in Nat
    PROVE  /\ Projects(Projections(events), events, Len(events))
           /\ Replay(events) = Projections(events)[Len(events)]
<1> DEFINE n == Len(events)
<1> DEFINE Is(f) == f = [i \in 0 .. n |-> IF i = 0 THEN << >> ELSE ApplySnapshot(f[i - 1], events[i])]
<1> DEFINE f == Projections(events)
<1>1. Is(f)
  <2>1. PICK h : Projects(h, events, n)
    BY ReplayGoesOn
  <2> DEFINE g == [i \in 0 .. n |-> h[i]]
  <2>2. \A i \in 0 .. n : g[i] = h[i]
    OBVIOUS
  <2>3. g = [i \in 0 .. n |-> IF i = 0 THEN << >> ELSE ApplySnapshot(g[i - 1], events[i])]
    <3>1. ASSUME NEW i \in 0 .. n
          PROVE  h[i] = IF i = 0 THEN << >> ELSE ApplySnapshot(g[i - 1], events[i])
      <4>1. CASE i = 0
        BY <2>1, <4>1 DEF Projects
      <4>2. CASE i # 0
        <5>1. i \in 1 .. n /\ i - 1 \in 0 .. n
          BY <4>2
        <5>2. g[i - 1] = h[i - 1]
          BY <2>2, <5>1
        <5>3. h[i] = ApplySnapshot(h[i - 1], events[i])
          BY <2>1, <5>1 DEF Projects
        <5> HIDE DEF g
        <5> QED
          BY <4>2, <5>2, <5>3
      <4> QED
        BY <4>1, <4>2
    <3> QED
      BY <3>1
  <2> HIDE DEF g
  <2>4. Is(g)
    BY <2>3
  <2>5. f = CHOOSE k : Is(k)
    BY DEF Projections
  <2> HIDE DEF Is, f
  <2> QED
    BY <2>4, <2>5
<1>2. Replay(events) = f[n]
  BY DEF Replay, Projections
<1> HIDE DEF f
<1>3. DOMAIN f = 0 .. n
  BY <1>1
<1>4. \A i \in 0 .. n : f[i] = IF i = 0 THEN << >> ELSE ApplySnapshot(f[i - 1], events[i])
  BY <1>1
<1>5. 0 \in 0 .. n /\ \A i \in 1 .. n : i \in 0 .. n /\ i # 0
  OBVIOUS
<1>6. Projects(f, events, n)
  BY <1>3, <1>4, <1>5 DEF Projects
<1> QED
  BY <1>2, <1>6 DEF f

\* A projection holds, for each claim among the first n events, a revision of
\* one of them that is no smaller than any.
IsClaim(events, i) == Command(events[i]).kind = "claim"
HoldsTheLast(p, events, n) ==
    /\ \A i \in 1 .. n :
          IsClaim(events, i) => /\ Command(events[i]).claim \in DOMAIN p
                                /\ Command(events[i]).revision <= p[Command(events[i]).claim]
    /\ \A c \in DOMAIN p : \E i \in 1 .. n : /\ IsClaim(events, i)
                                             /\ c = Command(events[i]).claim
                                             /\ p[c] = Command(events[i]).revision

\* One more event keeps it so, unless it is refused.
LEMMA ApplyHoldsTheLast ==
    ASSUME NEW events, NEW n \in Nat \ {0}, NEW p,
           \A i \in 1 .. n : IsClaim(events, i) => Command(events[i]).revision \in Nat,
           p # Refused => HoldsTheLast(p, events, n - 1),
           ApplySnapshot(p, events[n]) # Refused
    PROVE  HoldsTheLast(ApplySnapshot(p, events[n]), events, n)
<1> DEFINE w == events[n]
<1> DEFINE c == Command(w)
<1> DEFINE q == ApplySnapshot(p, w)
<1>1. n \in 1 .. n /\ \A i \in 1 .. n : i \in 1 .. n - 1 \/ i = n
  OBVIOUS
<1>2. \A i \in 1 .. n - 1 : i \in 1 .. n
  OBVIOUS
<1>3. p # Refused
  BY DEF ApplySnapshot
<1>4. HoldsTheLast(p, events, n - 1)
  BY <1>3
<1>5. CASE c.kind # "claim"
  <2>1. q = p
    BY <1>5 DEF ApplySnapshot
  <2>2. ~ IsClaim(events, n)
    BY <1>5 DEF IsClaim
  <2>3. HoldsTheLast(p, events, n)
    BY <1>1, <1>2, <1>4, <2>2 DEF HoldsTheLast
  <2> QED
    BY <2>1, <2>3
<1>6. CASE c.kind = "claim"
  <2> DEFINE r == [d \in DOMAIN p \cup {c.claim} |-> IF d = c.claim THEN c.revision ELSE p[d]]
  <2>1. q = r /\ ~(c.claim \in DOMAIN p /\ c.revision <= p[c.claim])
    BY <1>3, <1>6 DEF ApplySnapshot
  <2>2. DOMAIN r = DOMAIN p \cup {c.claim}
    OBVIOUS
  <2>3. \A d \in DOMAIN p \cup {c.claim} : r[d] = IF d = c.claim THEN c.revision ELSE p[d]
    OBVIOUS
  <2> HIDE DEF r
  <2>4. IsClaim(events, n) /\ c.revision \in Nat
    BY <1>1, <1>6 DEF IsClaim
  <2>5. ASSUME NEW i \in 1 .. n, IsClaim(events, i)
        PROVE  Command(events[i]).claim \in DOMAIN r /\ Command(events[i]).revision <= r[Command(events[i]).claim]
    <3>1. CASE i = n
      BY <2>2, <2>3, <2>4, <3>1
    <3>2. CASE i # n
      <4> DEFINE d == Command(events[i]).claim
      <4> DEFINE e == Command(events[i]).revision
      <4>1. i \in 1 .. n - 1
        BY <3>2
      <4>2. d \in DOMAIN p /\ e <= p[d]
        BY <1>4, <2>5, <4>1 DEF HoldsTheLast
      <4>3. e \in Nat
        BY <2>5
      <4>4. PICK j \in 1 .. n - 1 : IsClaim(events, j) /\ p[d] = Command(events[j]).revision
        BY <1>4, <4>2 DEF HoldsTheLast
      <4>5. p[d] \in Nat
        BY <1>2, <4>4
      <4> HIDE DEF d, e
      <4>6. CASE d = c.claim
        <5>1. ~(c.revision <= p[d])
          BY <2>1, <4>2, <4>6
        <5>2. r[d] = c.revision
          BY <2>3, <4>6
        <5>3. e <= c.revision
          <6> HIDE DEF c
          <6> QED
            BY <2>4, <4>2, <4>3, <4>5, <5>1
        <5> QED
          BY <2>2, <4>2, <5>2, <5>3 DEF d, e
      <4>7. CASE d # c.claim
        BY <2>2, <2>3, <4>2, <4>7 DEF d, e
      <4> QED
        BY <4>6, <4>7
    <3> QED
      BY <3>1, <3>2
  <2>6. ASSUME NEW d \in DOMAIN r
        PROVE  \E i \in 1 .. n : /\ IsClaim(events, i) /\ d = Command(events[i]).claim
                                 /\ r[d] = Command(events[i]).revision
    <3>1. CASE d = c.claim
      BY <1>1, <2>2, <2>3, <2>4, <3>1
    <3>2. CASE d # c.claim
      <4>1. d \in DOMAIN p /\ r[d] = p[d]
        BY <2>2, <2>3, <3>2
      <4>2. PICK i \in 1 .. n - 1 : /\ IsClaim(events, i) /\ d = Command(events[i]).claim
                                    /\ p[d] = Command(events[i]).revision
        BY <1>4, <4>1 DEF HoldsTheLast
      <4> QED
        BY <1>2, <4>1, <4>2
    <3> QED
      BY <3>1, <3>2
  <2>7. HoldsTheLast(r, events, n)
    BY <2>5, <2>6 DEF HoldsTheLast
  <2> QED
    BY <2>1, <2>7
<1> QED
  BY <1>5, <1>6

\* A replay that is not refused holds the last revision of each claim.
LEMMA ReplayHoldsTheLast ==
    ASSUME NEW events, Len(events) \in Nat,
           \A i \in 1 .. Len(events) : IsClaim(events, i) => Command(events[i]).revision \in Nat,
           Replay(events) # Refused
    PROVE  HoldsTheLast(Replay(events), events, Len(events))
<1> DEFINE n == Len(events)
<1> DEFINE f == Projections(events)
<1>1. Projects(f, events, n) /\ Replay(events) = f[n]
  BY ReplayIsProjected
<1> DEFINE Good == {m \in 0 .. n : f[m] # Refused => HoldsTheLast(f[m], events, m)}
<1>2. 0 \in Good
  <2>1. DOMAIN << >> = {} /\ 1 .. 0 = {}
    OBVIOUS
  <2>2. HoldsTheLast(<< >>, events, 0)
    BY <2>1 DEF HoldsTheLast
  <2> QED
    BY <1>1, <2>2 DEF Projects
<1>3. ASSUME NEW m \in 1 .. n, m - 1 \in Good
      PROVE  m \in Good
  <2>1. f[m] = ApplySnapshot(f[m - 1], events[m])
    BY <1>1 DEF Projects
  <2>2. f[m - 1] # Refused => HoldsTheLast(f[m - 1], events, m - 1)
    BY <1>3
  <2>3. \A i \in 1 .. m : IsClaim(events, i) => Command(events[i]).revision \in Nat
    OBVIOUS
  <2>4. m \in Nat \ {0} /\ m \in 0 .. n
    OBVIOUS
  <2> HIDE DEF f
  <2>5. f[m] # Refused => HoldsTheLast(f[m], events, m)
    BY <2>1, <2>2, <2>3, <2>4, ApplyHoldsTheLast
  <2> QED
    BY <2>4, <2>5
<1>4. n \in Good
  <2>1. n \in Nat /\ n \in 0 .. n
    OBVIOUS
  <2> HIDE DEF Good, n
  <2>2. 0 .. n \subseteq Good
    BY <1>2, <1>3, <2>1, UpTo
  <2> QED
    BY <2>1, <2>2
<1> QED
  BY <1>1, <1>4

\* A replay of the log is refused or ends with the current revision of every
\* claim, in whatever order the transactions began, made their events and
\* committed (replayCoreProjections).
THEOREM ReplaysAreFaithful == Spec => []ReplayIsFaithful
<1>1. ASSUME LogInv
      PROVE  ReplayIsFaithful
  <2>1. SUFFICES ASSUME Replay(Log) # Refused, NEW r \in Revisions
                 PROVE  /\ r[1] \in DOMAIN Replay(Log)
                        /\ <<r[1], Replay(Log)[r[1]]>> \in Revisions
                        /\ r[2] <= Replay(Log)[r[1]]
    BY DEF ReplayIsFaithful
  <2>2. Sorts(Log, Stored)
    BY <1>1, OrderedSorts DEF Log
  <2> DEFINE n == Cardinality(Stored)
  <2>3. n \in Nat /\ Log \in Seq(Stored) /\ Len(Log) = n /\ DOMAIN Log = 1 .. n
    BY <2>2 DEF Sorts
  <2>4. \A i \in 1 .. n : Log[i] \in Stored
    BY <2>3
  <2> HIDE DEF n
  <2>5. ASSUME NEW i \in 1 .. n, IsClaim(Log, i)
        PROVE  Command(Log[i]).revision \in Nat
    <3>1. Log[i] \in Writers /\ script \in Scripts
      BY <1>1, <2>4 DEF Stored, LogInv, WritersAreTyped
    <3>2. Command(Log[i]) \in ToSet(script.commands)
      BY <3>1, WritersAreCommands
    <3> QED
      BY <2>5, <3>1, <3>2, RevisionsAreNumbered DEF IsClaim
  <2> DEFINE p == Replay(Log)
  <2>6. HoldsTheLast(p, Log, n)
    BY <2>1, <2>3, <2>5, ReplayHoldsTheLast
  <2>7. PICK w \in Stored : Command(w).kind = "claim" /\ r = <<Command(w).claim, Command(w).revision>>
    BY <2>1 DEF Revisions, Of
  <2>8. PICK i \in 1 .. n : Log[i] = w
    BY <2>2 DEF Sorts, n
  <2> HIDE DEF p
  <2>9. r[1] \in DOMAIN p /\ r[2] <= p[r[1]]
    BY <2>6, <2>7, <2>8 DEF HoldsTheLast, IsClaim
  <2>10. PICK j \in 1 .. n : /\ IsClaim(Log, j) /\ r[1] = Command(Log[j]).claim
                             /\ p[r[1]] = Command(Log[j]).revision
    BY <2>6, <2>9 DEF HoldsTheLast
  <2>11. Log[j] \in Of("claim")
    BY <2>4, <2>10 DEF Of, IsClaim
  <2>12. <<r[1], p[r[1]]>> \in Revisions
    BY <2>10, <2>11 DEF Revisions
  <2> QED
    BY <2>9, <2>12 DEF p
<1>2. ChainInv => LogInv
  BY DEF ChainInv
<1> QED
  BY <1>1, <1>2, SnapshotsAreNext, PTL

-----------------------------------------------------------------------------
(***************************************************************************)
(* Merkle trees.  A list is a sequence of whatever it has; the levels of a *)
(* tree are lists, each the pairs of the one below, up to a single node.   *)
(***************************************************************************)

IsList(s) == s \in Seq(ToSet(s))

\* A function on 1 .. n is a list of n elements.
LEMMA FunctionsAreLists ==
    ASSUME NEW n \in Nat, NEW s, s = [i \in 1 .. n |-> s[i]]
    PROVE  IsList(s) /\ Len(s) = n /\ DOMAIN s = 1 .. n /\ ToSet(s) = {s[i] : i \in 1 .. n}
<1>1. DOMAIN s = 1 .. n
  OBVIOUS
<1>2. ToSet(s) = {s[i] : i \in 1 .. n}
  BY <1>1 DEF ToSet
<1>3. \A i \in 1 .. n : s[i] \in ToSet(s)
  BY <1>2
<1>4. s \in Seq(ToSet(s))
  <2> DEFINE T == ToSet(s)
  <2>1. \A i \in 1 .. n : s[i] \in T
    BY <1>3
  <2> HIDE DEF T
  <2>2. [i \in 1 .. n |-> s[i]] \in Seq(T)
    BY <2>1
  <2>3. s \in Seq(T)
    BY <2>2
  <2> QED
    BY <2>3 DEF T
<1>5. Len(s) = n
  <2>1. DOMAIN s = 1 .. Len(s) /\ Len(s) \in Nat
    BY <1>4
  <2> QED
    BY <1>1, <2>1
<1> QED
  BY <1>1, <1>2, <1>4, <1>5 DEF IsList

\* And a list is a function on 1 .. its length.
LEMMA ListsAreFunctions ==
    ASSUME NEW s, IsList(s)
    PROVE  /\ Len(s) \in Nat /\ DOMAIN s = 1 .. Len(s) /\ s = [i \in 1 .. Len(s) |-> s[i]]
           /\ ToSet(s) = {s[i] : i \in 1 .. Len(s)}
<1>1. Len(s) \in Nat /\ DOMAIN s = 1 .. Len(s)
  BY DEF IsList
<1>2. s = [i \in 1 .. Len(s) |-> s[i]]
  BY DEF IsList
<1> QED
  BY <1>1, <1>2 DEF ToSet

\* Half of a number, rounded up.
LEMMA HalfOf ==
    ASSUME NEW n \in Nat, NEW h, h = (n + 1) \div 2
    PROVE  /\ h \in Nat /\ n <= 2 * h /\ 2 * h <= n + 1
           /\ n > 1 => 1 <= h /\ h < n
OBVIOUS

\* The level above one of several nodes is shorter, and has the pairs of it.
IsAbove(up, level) ==
    /\ IsList(up) /\ 1 <= Len(up) /\ Len(up) < Len(level)
    /\ Len(level) <= 2 * Len(up) /\ 2 * Len(up) <= Len(level) + 1
    /\ \A i \in 1 .. Len(up) :
          up[i] = <<level[2 * i - 1], level[IF 2 * i <= Len(level) THEN 2 * i ELSE 2 * i - 1]>>

\* NextLevel pairs the nodes of a level, the last with itself if it is alone.
LEMMA NextLevelIsAbove ==
    ASSUME NEW level, IsList(level), Len(level) > 1
    PROVE  IsAbove(NextLevel(level), level)
<1> DEFINE n == Len(level)
<1> DEFINE h == (n + 1) \div 2
<1> DEFINE up == NextLevel(level)
<1>1. n \in Nat /\ n > 1
  BY ListsAreFunctions
<1>2. h \in Nat /\ n <= 2 * h /\ 2 * h <= n + 1 /\ 1 <= h /\ h < n
  <2> HIDE DEF n
  <2> QED
    BY <1>1, HalfOf
<1>3. up = [i \in 1 .. h |-> <<level[2 * i - 1], level[IF 2 * i <= n THEN 2 * i ELSE 2 * i - 1]>>]
  BY DEF NextLevel, HashNode
<1> HIDE DEF h, up, n
<1>4. \A i \in 1 .. h : up[i] = <<level[2 * i - 1], level[IF 2 * i <= n THEN 2 * i ELSE 2 * i - 1]>>
  BY <1>3
<1>5. up = [i \in 1 .. h |-> up[i]]
  BY <1>3
<1>6. IsList(up) /\ Len(up) = h
  BY <1>2, <1>5, FunctionsAreLists
<1> QED
  BY <1>2, <1>4, <1>6 DEF IsAbove, n, up

\* The nodes above tell which nodes there are.
LEMMA AboveTells ==
    ASSUME NEW up, NEW level, IsList(level), IsAbove(up, level)
    PROVE  ToSet(level) = {x[1] : x \in ToSet(up)} \union {x[2] : x \in ToSet(up)}
<1> DEFINE n == Len(level)
<1> DEFINE h == Len(up)
<1>1. n \in Nat /\ h \in Nat /\ ToSet(level) = {level[i] : i \in 1 .. n} /\ ToSet(up) = {up[i] : i \in 1 .. h}
  BY ListsAreFunctions DEF IsAbove
<1>2. n <= 2 * h /\ 2 * h <= n + 1
  BY DEF IsAbove
<1>3. \A i \in 1 .. h : up[i] = <<level[2 * i - 1], level[IF 2 * i <= n THEN 2 * i ELSE 2 * i - 1]>>
  BY DEF IsAbove
<1> HIDE DEF n, h
<1>4. ASSUME NEW x \in ToSet(level)
      PROVE  \E y \in ToSet(up) : x = y[1] \/ x = y[2]
  <2>1. PICK j \in 1 .. n : x = level[j]
    BY <1>1
  <2>2. PICK i \in 1 .. h : j = 2 * i - 1 \/ j = 2 * i
    <3>1. j \in Nat /\ (j + 1) \div 2 \in 1 .. h /\ (j = 2 * ((j + 1) \div 2) - 1 \/ j = 2 * ((j + 1) \div 2))
      BY <1>1, <1>2
    <3> QED
      BY <3>1
  <2>3. up[i] \in ToSet(up)
    BY <1>1
  <2>4. CASE j = 2 * i - 1
    <3>1. up[i][1] = level[j]
      BY <1>3, <2>4
    <3> QED
      BY <2>1, <2>3, <3>1
  <2>5. CASE j = 2 * i
    <3>1. 2 * i <= n
      BY <2>5
    <3>2. up[i][2] = level[j]
      BY <1>3, <2>5, <3>1
    <3> QED
      BY <2>1, <2>3, <3>2
  <2> QED
    BY <2>2, <2>4, <2>5
<1>5. ASSUME NEW y \in ToSet(up)
      PROVE  y[1] \in ToSet(level) /\ y[2] \in ToSet(level)
  <2>1. PICK i \in 1 .. h : y = up[i]
    BY <1>1
  <2>2. 2 * i - 1 \in 1 .. n /\ (IF 2 * i <= n THEN 2 * i ELSE 2 * i - 1) \in 1 .. n
    BY <1>1, <1>2
  <2>3. y[1] = level[2 * i - 1] /\ y[2] = level[IF 2 * i <= n THEN 2 * i ELSE 2 * i - 1]
    BY <1>3, <2>1
  <2> QED
    BY <1>1, <2>2, <2>3
<1> QED
  BY <1>4, <1>5

\* Induction from one.
LEMMA FromOne ==
    ASSUME NEW n \in Nat \ {0}, NEW Good, 1 \in Good, \A m \in 2 .. n : m - 1 \in Good => m \in Good
    PROVE  1 .. n \subseteq Good
<1> DEFINE Better == Good \union {0}
<1>1. 0 \in Better /\ n \in Nat
  OBVIOUS
<1>2. ASSUME NEW m \in 1 .. n, m - 1 \in Better
      PROVE  m \in Better
  <2>1. CASE m = 1
    BY <2>1
  <2>2. CASE m # 1
    <3>1. m \in 2 .. n /\ m - 1 # 0
      BY <2>2
    <3> QED
      BY <1>2, <3>1
  <2> QED
    BY <2>1, <2>2
<1>3. 0 .. n \subseteq Better
  <2> HIDE DEF Better
  <2> QED
    BY <1>1, <1>2, UpTo
<1>4. \A m \in 1 .. n : m \in 0 .. n /\ m # 0
  OBVIOUS
<1> QED
  BY <1>3, <1>4

\* A set of numbers that is not empty has a smallest one.
LEMMA SmallestOf ==
    ASSUME NEW S, S \subseteq Nat, S # {}
    PROVE  \E m \in S : \A k \in S : m <= k
<1> DEFINE Less == {ss \in Nat \X Nat : ss[1] < ss[2]}
<1>1. IsWellFoundedOn(Less, Nat)
  BY NatLessThanWellFounded DEF OpToRel
<1>2. PICK m \in S : \A k \in S : <<k, m>> \notin Less
  <2> HIDE DEF Less
  <2> QED
    BY <1>1, WFMin
<1>3. ASSUME NEW k \in S
      PROVE  m <= k
  <2>1. k \in Nat /\ m \in Nat /\ <<k, m>> \in Nat \X Nat
    OBVIOUS
  <2>2. ~(k < m)
    BY <1>2, <2>1
  <2> QED
    BY <2>1, <2>2
<1> QED
  BY <1>3

\* f is the levels over some leaves, one above the other.
Rise(level) == IF Len(level) = 1 THEN level ELSE NextLevel(level)
Rises(f, leaves, m) ==
    /\ DOMAIN f = 1 .. m
    /\ f[1] = leaves
    /\ \A d \in 2 .. m : f[d] = Rise(f[d - 1])

\* Levels rise one by one.
LEMMA LevelsRise ==
    ASSUME NEW n \in Nat \ {0}, NEW leaves
    PROVE  \E f : Rises(f, leaves, n)
<1> DEFINE Good == {m \in 1 .. n : \E f : Rises(f, leaves, m)}
<1>1. 1 \in Good
  <2> DEFINE f == [i \in 1 .. 1 |-> leaves]
  <2>1. DOMAIN f = 1 .. 1 /\ f[1] = leaves /\ 2 .. 1 = {}
    OBVIOUS
  <2> HIDE DEF f
  <2>2. Rises(f, leaves, 1)
    BY <2>1 DEF Rises
  <2> QED
    BY <2>2
<1>2. ASSUME NEW m \in 2 .. n, m - 1 \in Good
      PROVE  m \in Good
  <2>1. PICK f : Rises(f, leaves, m - 1)
    BY <1>2
  <2> DEFINE next == Rise(f[m - 1])
  <2> DEFINE g == [i \in 1 .. m |-> IF i = m THEN next ELSE f[i]]
  <2> HIDE DEF next
  <2>2. DOMAIN g = 1 .. m /\ g[m] = next /\ \A i \in 1 .. m - 1 : g[i] = f[i]
    <3>1. m \in Nat /\ m \in 1 .. m
      OBVIOUS
    <3>2. \A i \in 1 .. m - 1 : i \in 1 .. m /\ i # m
      OBVIOUS
    <3>3. DOMAIN g = 1 .. m
      OBVIOUS
    <3>4. \A i \in 1 .. m : g[i] = IF i = m THEN next ELSE f[i]
      OBVIOUS
    <3> HIDE DEF g
    <3> QED
      BY <3>1, <3>2, <3>3, <3>4
  <2> HIDE DEF g
  <2>3. g[1] = leaves
    <3>1. 1 \in 1 .. m - 1
      OBVIOUS
    <3> QED
      BY <2>1, <2>2, <3>1 DEF Rises
  <2>4. \A i \in 2 .. m : g[i] = Rise(g[i - 1])
    <3> TAKE i \in 2 .. m
    <3>1. i - 1 \in 1 .. m - 1 /\ g[i - 1] = f[i - 1]
      BY <2>2
    <3>2. CASE i = m
      BY <2>2, <3>1, <3>2 DEF next
    <3>3. CASE i # m
      <4>1. i \in 2 .. m - 1 /\ i \in 1 .. m - 1
        BY <3>3
      <4> QED
        BY <2>1, <2>2, <3>1, <4>1 DEF Rises
    <3> QED
      BY <3>2, <3>3
  <2>5. Rises(g, leaves, m)
    BY <2>2, <2>3, <2>4 DEF Rises
  <2> QED
    BY <2>5
<1>3. n \in Good
  <2>1. n \in 1 .. n
    OBVIOUS
  <2> HIDE DEF Good
  <2> QED
    BY <1>1, <1>2, <2>1, FromOne
<1> QED
  BY <1>3

\* The levels by which a tree is defined, and its height.
Risen(leaves) ==
    CHOOSE f : f = [d \in 1 .. Len(leaves) |->
                       IF d = 1 THEN leaves
                       ELSE IF Len(f[d - 1]) = 1 THEN f[d - 1] ELSE NextLevel(f[d - 1])]
HeightOf(leaves, f) ==
    CHOOSE d \in 1 .. Len(leaves) : Len(f[d]) = 1 /\ \A c \in 1 .. d - 1 : Len(f[c]) > 1

\* They rise.
LEMMA RisenRises ==
    ASSUME NEW leaves, Len(leaves) \in Nat \ {0}
    PROVE  Rises(Risen(leaves), leaves, Len(leaves))
<1> DEFINE n == Len(leaves)
<1> DEFINE Is(f) == f = [d \in 1 .. n |->
                            IF d = 1 THEN leaves
                            ELSE IF Len(f[d - 1]) = 1 THEN f[d - 1] ELSE NextLevel(f[d - 1])]
<1> DEFINE f == Risen(leaves)
<1>1. Is(f)
  <2>1. PICK h : Rises(h, leaves, n)
    BY LevelsRise
  <2> DEFINE g == [i \in 1 .. n |-> h[i]]
  <2>2. \A i \in 1 .. n : g[i] = h[i]
    OBVIOUS
  <2>3. g = [d \in 1 .. n |-> IF d = 1 THEN leaves
                              ELSE IF Len(g[d - 1]) = 1 THEN g[d - 1] ELSE NextLevel(g[d - 1])]
    <3>1. ASSUME NEW d \in 1 .. n
          PROVE  h[d] = IF d = 1 THEN leaves
                        ELSE IF Len(g[d - 1]) = 1 THEN g[d - 1] ELSE NextLevel(g[d - 1])
      <4>1. CASE d = 1
        BY <2>1, <4>1 DEF Rises
      <4>2. CASE d # 1
        <5>1. d \in 2 .. n /\ d - 1 \in 1 .. n
          BY <4>2
        <5>2. g[d - 1] = h[d - 1]
          BY <2>2, <5>1
        <5>3. h[d] = Rise(h[d - 1])
          BY <2>1, <5>1 DEF Rises
        <5> HIDE DEF g
        <5> QED
          BY <4>2, <5>2, <5>3 DEF Rise
      <4> QED
        BY <4>1, <4>2
    <3> QED
      BY <3>1
  <2> HIDE DEF g
  <2>4. Is(g)
    BY <2>3
  <2>5. f = CHOOSE k : Is(k)
    BY DEF Risen
  <2> HIDE DEF Is, f
  <2> QED
    BY <2>4, <2>5
<1> HIDE DEF f
<1>3. DOMAIN f = 1 .. n
  BY <1>1
<1>4. \A d \in 1 .. n : f[d] = IF d = 1 THEN leaves
                               ELSE IF Len(f[d - 1]) = 1 THEN f[d - 1] ELSE NextLevel(f[d - 1])
  BY <1>1
<1>5. 1 \in 1 .. n /\ \A d \in 2 .. n : d \in 1 .. n /\ d # 1
  OBVIOUS
<1>6. Rises(f, leaves, n)
  BY <1>3, <1>4, <1>5 DEF Rises, Rise
<1> QED
  BY <1>6 DEF f

\* A tree over some leaves: levels up to a single node.
IsTree(L, leaves) ==
    /\ IsList(L) /\ 1 <= Len(L) /\ L[1] = leaves
    /\ \A d \in 1 .. Len(L) : IsList(L[d]) /\ 1 <= Len(L[d])
    /\ \A d \in 1 .. Len(L) - 1 : IsAbove(L[d + 1], L[d])
    /\ Len(L[Len(L)]) = 1

\* The levels over some leaves are a tree.
LEMMA LevelsAreATree ==
    ASSUME NEW leaves, IsList(leaves), 1 <= Len(leaves)
    PROVE  IsTree(Levels(leaves), leaves)
<1> DEFINE n == Len(leaves)
<1> DEFINE f == Risen(leaves)
<1>1. n \in Nat \ {0}
  BY ListsAreFunctions
<1>2. Rises(f, leaves, n)
  BY <1>1, RisenRises
<1> DEFINE h == HeightOf(leaves, f)
<1>3. Levels(leaves) = [d \in 1 .. h |-> f[d]]
  BY DEF Levels, Risen, HeightOf
<1> HIDE DEF f
<1>4. f[1] = leaves /\ \A d \in 2 .. n : f[d] = Rise(f[d - 1])
  BY <1>2 DEF Rises
<1> DEFINE Good == {d \in 1 .. n : /\ IsList(f[d]) /\ Len(f[d]) \in Nat /\ 1 <= Len(f[d])
                                   /\ Len(f[d]) = 1 \/ Len(f[d]) <= n - d + 1}
<1>5. 1 .. n \subseteq Good
  <2>1. 1 \in Good
    BY <1>1, <1>4
  <2>2. ASSUME NEW d \in 2 .. n, d - 1 \in Good
        PROVE  d \in Good
    <3> DEFINE a == Len(f[d - 1])
    <3>1. /\ IsList(f[d - 1]) /\ a \in Nat /\ 1 <= a /\ (a = 1 \/ a <= n - (d - 1) + 1)
      BY <2>2
    <3>2. d \in 1 .. n /\ f[d] = Rise(f[d - 1])
      BY <1>4
    <3>3. CASE a = 1
      BY <3>1, <3>2, <3>3 DEF Rise
    <3>4. CASE a # 1
      <4>1. a > 1
        <5> HIDE DEF a
        <5> QED
          BY <3>1, <3>4
      <4>5. f[d] = NextLevel(f[d - 1])
        BY <3>2, <3>4 DEF Rise
      <4>2. IsAbove(f[d], f[d - 1])
        BY <3>1, <4>1, <4>5, NextLevelIsAbove
      <4>3. IsList(f[d]) /\ 1 <= Len(f[d]) /\ Len(f[d]) < a /\ Len(f[d]) \in Nat
        BY <4>2, ListsAreFunctions DEF IsAbove
      <4> HIDE DEF a
      <4>4. Len(f[d]) <= n - d + 1
        BY <1>1, <3>1, <3>4, <4>3
      <4> QED
        BY <3>2, <4>3, <4>4
    <3> QED
      BY <3>3, <3>4
  <2> HIDE DEF Good
  <2> QED
    BY <1>1, <2>1, <2>2, FromOne
<1>6. \A d \in 1 .. n : /\ IsList(f[d]) /\ Len(f[d]) \in Nat /\ 1 <= Len(f[d])
  BY <1>5
<1>7. Len(f[n]) = 1
  <2>1. n \in Good
    BY <1>1, <1>5
  <2>2. Len(f[n]) \in Nat /\ 1 <= Len(f[n]) /\ (Len(f[n]) = 1 \/ Len(f[n]) <= n - n + 1)
    BY <2>1
  <2> DEFINE k == Len(f[n])
  <2> HIDE DEF k, n
  <2>3. k \in Nat /\ 1 <= k /\ (k = 1 \/ k <= n - n + 1)
    BY <2>2 DEF k
  <2>4. k = 1
    BY <1>1, <2>3
  <2> QED
    BY <2>4 DEF k
<1> DEFINE Top(d) == Len(f[d]) = 1 /\ \A c \in 1 .. d - 1 : Len(f[c]) > 1
<1>8. h \in 1 .. n /\ Top(h)
  <2> DEFINE S == {d \in 1 .. n : Len(f[d]) = 1}
  <2>1. S \subseteq Nat /\ S # {}
    BY <1>1, <1>7
  <2>2. PICK d \in S : \A c \in S : d <= c
    <3> HIDE DEF S
    <3> QED
      BY <2>1, SmallestOf
  <2>3. \A c \in 1 .. d - 1 : Len(f[c]) > 1
    <3> TAKE c \in 1 .. d - 1
    <3>1. c \in 1 .. n /\ ~(d <= c)
      BY <1>1
    <3>2. c \notin S
      BY <2>2, <3>1
    <3>3. Len(f[c]) # 1 /\ Len(f[c]) \in Nat /\ 1 <= Len(f[c])
      BY <1>6, <3>1, <3>2
    <3> DEFINE k == Len(f[c])
    <3> HIDE DEF k
    <3>4. k \in Nat /\ k # 1 /\ 1 <= k => k > 1
      OBVIOUS
    <3> QED
      BY <3>3, <3>4 DEF k
  <2>4. d \in 1 .. n /\ Top(d)
    BY <2>3
  <2>5. h = CHOOSE c \in 1 .. n : Top(c)
    BY DEF HeightOf
  <2> HIDE DEF Top, h, n
  <2> QED
    BY <2>4, <2>5
<1> DEFINE L == Levels(leaves)
<1> HIDE DEF h
<1>9. h \in Nat /\ 1 <= h /\ h <= n
  BY <1>1, <1>8
<1>10. DOMAIN L = 1 .. h /\ \A d \in 1 .. h : L[d] = f[d]
  BY <1>3
<1>11. L = [d \in 1 .. h |-> L[d]]
  BY <1>3
<1> HIDE DEF L
<1>12. IsList(L) /\ Len(L) = h
  BY <1>9, <1>11, FunctionsAreLists
<1>13. L[1] = leaves
  <2>1. 1 \in 1 .. h
    BY <1>9
  <2> QED
    BY <1>4, <1>10, <2>1
<1>14. \A d \in 1 .. h : IsList(L[d]) /\ 1 <= Len(L[d])
  <2>1. \A d \in 1 .. h : d \in 1 .. n
    BY <1>1, <1>9
  <2> QED
    BY <1>6, <1>10, <2>1
<1>15. ASSUME NEW d \in 1 .. h - 1
       PROVE  IsAbove(L[d + 1], L[d])
  <2>1. d \in 1 .. h /\ d + 1 \in 1 .. h /\ d + 1 \in 2 .. n /\ d \in 1 .. n
    BY <1>1, <1>9
  <2>2. L[d + 1] = f[d + 1] /\ L[d] = f[d]
    BY <1>10, <2>1
  <2>3. f[d + 1] = Rise(f[d])
    <3>1. d + 1 - 1 = d
      OBVIOUS
    <3> QED
      BY <1>4, <2>1, <3>1
  <2>4. Len(f[d]) > 1
    BY <1>8
  <2>5. f[d + 1] = NextLevel(f[d])
    <3> DEFINE k == Len(f[d])
    <3>1. k \in Nat /\ k > 1
      BY <1>6, <2>1, <2>4
    <3> HIDE DEF k
    <3>2. k # 1
      BY <3>1
    <3> QED
      BY <2>3, <3>2 DEF Rise, k
  <2>6. IsAbove(NextLevel(f[d]), f[d])
    BY <1>6, <2>1, <2>4, NextLevelIsAbove
  <2> QED
    BY <2>2, <2>5, <2>6
<1>16. Len(L[h]) = 1
  <2>1. h \in 1 .. h
    BY <1>9
  <2> QED
    BY <1>8, <1>10, <2>1
<1>17. IsTree(L, leaves)
  BY <1>9, <1>12, <1>13, <1>14, <1>15, <1>16 DEF IsTree
<1> QED
  BY <1>17 DEF L

-----------------------------------------------------------------------------
(***************************************************************************)
(* What a root commits to.  A node tells its two children, and a leaf is   *)
(* never a node: so equal roots stand over the same leaves, and a proof    *)
(* that verifies ends in one of them.                                      *)
(***************************************************************************)

AreLeaves(s) == \A x \in ToSet(s) : \E w : x = Leaf(w)

\* A leaf is not a node.
LEMMA LeavesAreNoNodes ==
    ASSUME NEW w, NEW l, NEW r
    PROVE  Leaf(w) # <<l, r>>
BY DEF Leaf

\* A level that is above another has nodes only.
LEMMA AboveAreNodes ==
    ASSUME NEW up, NEW level, IsAbove(up, level), NEW x \in ToSet(up)
    PROVE  \E l, r : x = <<l, r>>
<1>1. ToSet(up) = {up[i] : i \in 1 .. Len(up)}
  BY ListsAreFunctions DEF IsAbove
<1>2. PICK i \in 1 .. Len(up) : x = up[i]
  BY <1>1
<1> QED
  BY <1>2 DEF IsAbove

\* The top of a tree is its root.
LEMMA TopIsRoot ==
    ASSUME NEW L, NEW leaves, IsTree(L, leaves)
    PROVE  ToSet(L[Len(L)]) = {L[Len(L)][1]} /\ Len(L) \in Nat
<1>1. Len(L) \in Nat /\ Len(L) \in 1 .. Len(L)
  BY ListsAreFunctions DEF IsTree
<1> DEFINE top == L[Len(L)]
<1>2. IsList(top) /\ Len(top) = 1
  BY <1>1 DEF IsTree
<1> HIDE DEF top
<1>3. ToSet(top) = {top[i] : i \in 1 .. 1}
  BY <1>2, ListsAreFunctions
<1>4. ToSet(top) = {top[1]}
  BY <1>3
<1> QED
  BY <1>1, <1>4 DEF top

\* Trees with the same root have the same leaves.
LEMMA SameTopSameLeaves ==
    ASSUME NEW K, NEW a, NEW L, NEW b, IsTree(K, a), IsTree(L, b),
           AreLeaves(a), Len(K) <= Len(L), K[Len(K)][1] = L[Len(L)][1]
    PROVE  ToSet(a) = ToSet(b)
<1> DEFINE h == Len(K)
<1> DEFINE t == Len(L)
<1>1. h \in Nat /\ t \in Nat /\ 1 <= h /\ h <= t
  BY TopIsRoot DEF IsTree
<1>2. ToSet(K[h]) = ToSet(L[t])
  BY TopIsRoot
<1>3. /\ K[1] = a /\ L[1] = b
      /\ \A d \in 1 .. h : IsList(K[d])
      /\ \A d \in 1 .. t : IsList(L[d]) /\ 1 <= Len(L[d])
      /\ \A d \in 1 .. h - 1 : IsAbove(K[d + 1], K[d])
      /\ \A d \in 1 .. t - 1 : IsAbove(L[d + 1], L[d])
  BY DEF IsTree
<1> HIDE DEF h, t
<1> DEFINE Good == {j \in 0 .. h - 1 : ToSet(K[h - j]) = ToSet(L[t - j])}
<1>4. 0 .. h - 1 \subseteq Good
  <2>1. 0 \in Good
    <3>1. 0 \in 0 .. h - 1 /\ h - 0 = h /\ t - 0 = t
      BY <1>1
    <3> QED
      BY <1>2, <3>1
  <2>2. ASSUME NEW j \in 1 .. h - 1, j - 1 \in Good
        PROVE  j \in Good
    <3>1. /\ h - j \in 1 .. h - 1 /\ h - j + 1 = h - (j - 1) /\ h - j \in 1 .. h
          /\ t - j \in 1 .. t - 1 /\ t - j + 1 = t - (j - 1) /\ t - j \in 1 .. t
          /\ j \in 0 .. h - 1
      BY <1>1
    <3>2. IsAbove(K[h - j + 1], K[h - j]) /\ IsAbove(L[t - j + 1], L[t - j])
      BY <1>3, <3>1
    <3>3. IsList(K[h - j]) /\ IsList(L[t - j])
      BY <1>3, <3>1
    <3>4. ToSet(K[h - j + 1]) = ToSet(L[t - j + 1])
      BY <2>2, <3>1
    <3>5. ToSet(K[h - j]) = ToSet(L[t - j])
      BY <3>2, <3>3, <3>4, AboveTells
    <3> QED
      BY <3>1, <3>5
  <2>3. h - 1 \in Nat
    BY <1>1
  <2> HIDE DEF Good
  <2> QED
    BY <2>1, <2>2, <2>3, UpTo
<1>5. ToSet(a) = ToSet(L[t - h + 1])
  <2>1. h - 1 \in 0 .. h - 1 /\ h - (h - 1) = 1 /\ t - (h - 1) = t - h + 1
    BY <1>1
  <2>2. h - 1 \in Good
    BY <1>4, <2>1
  <2>3. ToSet(K[h - (h - 1)]) = ToSet(L[t - (h - 1)])
    BY <2>2
  <2> QED
    BY <1>3, <2>1, <2>3
<1>6. CASE h = t
  <2>1. t - h + 1 = 1
    BY <1>1, <1>6
  <2> QED
    BY <1>3, <1>5, <2>1
<1>7. CASE h # t
  <2>1. t - h \in 1 .. t - 1 /\ t - h + 1 \in 1 .. t
    BY <1>1, <1>7
  <2> DEFINE up == L[t - h + 1]
  <2>2. IsAbove(up, L[t - h]) /\ IsList(up) /\ 1 <= Len(up)
    BY <1>3, <2>1
  <2> HIDE DEF up
  <2>3. up[1] \in ToSet(up)
    <3>1. Len(up) \in Nat /\ ToSet(up) = {up[i] : i \in 1 .. Len(up)}
      BY <2>2, ListsAreFunctions
    <3>2. 1 \in 1 .. Len(up)
      BY <2>2, <3>1
    <3> QED
      BY <3>1, <3>2
  <2>4. PICK l, r : up[1] = <<l, r>>
    BY <2>2, <2>3, AboveAreNodes
  <2>5. up[1] \in ToSet(a)
    BY <1>5, <2>3 DEF up
  <2>6. PICK w : up[1] = Leaf(w)
    BY <2>5 DEF AreLeaves
  <2> QED
    BY <2>4, <2>6, LeavesAreNoNodes
<1> QED
  BY <1>6, <1>7

\* Equal roots stand over the same leaves, in whatever order.
THEOREM RootsTellTheirLeaves ==
    ASSUME NEW a, NEW b, IsList(a), 1 <= Len(a), AreLeaves(a), IsList(b), 1 <= Len(b), AreLeaves(b),
           Root(a) = Root(b)
    PROVE  ToSet(a) = ToSet(b)
<1> DEFINE K == Levels(a)
<1> DEFINE L == Levels(b)
<1>1. IsTree(K, a) /\ IsTree(L, b)
  BY LevelsAreATree
<1>2. K[Len(K)][1] = L[Len(L)][1]
  BY DEF Root, Last
<1>3. Len(K) \in Nat /\ Len(L) \in Nat
  BY <1>1, TopIsRoot
<1> HIDE DEF K, L
<1>4. CASE Len(K) <= Len(L)
  BY <1>1, <1>2, <1>4, SameTopSameLeaves
<1>5. CASE ~(Len(K) <= Len(L))
  <2>1. Len(L) <= Len(K)
    <3> DEFINE k == Len(K)
    <3> DEFINE l == Len(L)
    <3> HIDE DEF k, l
    <3>1. k \in Nat /\ l \in Nat /\ ~(k <= l)
      BY <1>3, <1>5 DEF k, l
    <3>2. l <= k
      BY <3>1
    <3> QED
      BY <3>2 DEF k, l
  <2> QED
    BY <1>1, <1>2, <2>1, SameTopSameLeaves
<1> QED
  BY <1>4, <1>5

\* What a verifier computes, step by step along the path of a proof.
Start(proof) == [ok |-> TRUE, index |-> proof.index, hash |-> proof.leaf]
Climbed(proof) ==
    CHOOSE f : f = [n \in 0 .. Len(proof.path) |->
                       IF n = 0 THEN [ok |-> TRUE, index |-> proof.index, hash |-> proof.leaf]
                       ELSE Climb(f[n - 1], proof.path[n])]
Climbs(f, proof, m) ==
    /\ DOMAIN f = 0 .. m
    /\ f[0] = Start(proof)
    /\ \A i \in 1 .. m : f[i] = Climb(f[i - 1], proof.path[i])

\* A verification goes on step by step.
LEMMA VerificationGoesOn ==
    ASSUME NEW n \in Nat, NEW proof
    PROVE  \E f : Climbs(f, proof, n)
<1> DEFINE Good == {m \in 0 .. n : \E f : Climbs(f, proof, m)}
<1>1. 0 \in Good
  <2> DEFINE f == [i \in 0 .. 0 |-> Start(proof)]
  <2>1. DOMAIN f = 0 .. 0 /\ f[0] = Start(proof) /\ 1 .. 0 = {}
    OBVIOUS
  <2> HIDE DEF f
  <2>2. Climbs(f, proof, 0)
    BY <2>1 DEF Climbs
  <2> QED
    BY <2>2
<1>2. ASSUME NEW m \in 1 .. n, m - 1 \in Good
      PROVE  m \in Good
  <2>1. PICK f : Climbs(f, proof, m - 1)
    BY <1>2
  <2> DEFINE next == Climb(f[m - 1], proof.path[m])
  <2> DEFINE g == [i \in 0 .. m |-> IF i = m THEN next ELSE f[i]]
  <2> HIDE DEF next
  <2>2. DOMAIN g = 0 .. m /\ g[m] = next /\ \A i \in 0 .. m - 1 : g[i] = f[i]
    <3>1. m \in Nat /\ m \in 0 .. m
      OBVIOUS
    <3>2. \A i \in 0 .. m - 1 : i \in 0 .. m /\ i # m
      OBVIOUS
    <3>3. DOMAIN g = 0 .. m
      OBVIOUS
    <3>4. \A i \in 0 .. m : g[i] = IF i = m THEN next ELSE f[i]
      OBVIOUS
    <3> HIDE DEF g
    <3> QED
      BY <3>1, <3>2, <3>3, <3>4
  <2> HIDE DEF g
  <2>3. g[0] = Start(proof)
    <3>1. 0 \in 0 .. m - 1
      OBVIOUS
    <3> QED
      BY <2>1, <2>2, <3>1 DEF Climbs
  <2>4. \A i \in 1 .. m : g[i] = Climb(g[i - 1], proof.path[i])
    <3> TAKE i \in 1 .. m
    <3>1. i - 1 \in 0 .. m - 1 /\ g[i - 1] = f[i - 1]
      BY <2>2
    <3>2. CASE i = m
      BY <2>2, <3>1, <3>2 DEF next
    <3>3. CASE i # m
      <4>1. i \in 1 .. m - 1 /\ i \in 0 .. m - 1
        BY <3>3
      <4> QED
        BY <2>1, <2>2, <3>1, <4>1 DEF Climbs
    <3> QED
      BY <3>2, <3>3
  <2>5. Climbs(g, proof, m)
    BY <2>2, <2>3, <2>4 DEF Climbs
  <2> QED
    BY <2>5
<1>3. n \in Good
  <2> HIDE DEF Good
  <2> QED
    BY <1>1, <1>2, UpTo
<1> QED
  BY <1>3

\* The verdict is about where the climb ends.
LEMMA VerdictOfTheClimb ==
    ASSUME NEW proof, Len(proof.path) \in Nat
    PROVE  \E f : /\ Climbs(f, proof, Len(proof.path))
                  /\ VerifyProof(proof) <=> /\ f[Len(proof.path)].ok
                                            /\ f[Len(proof.path)].index = 0
                                            /\ f[Len(proof.path)].hash = proof.root
<1> DEFINE n == Len(proof.path)
<1> DEFINE Is(f) == f = [i \in 0 .. n |->
                            IF i = 0 THEN [ok |-> TRUE, index |-> proof.index, hash |-> proof.leaf]
                            ELSE Climb(f[i - 1], proof.path[i])]
<1> DEFINE f == Climbed(proof)
<1>1. Is(f)
  <2>1. PICK h : Climbs(h, proof, n)
    BY VerificationGoesOn
  <2> DEFINE g == [i \in 0 .. n |-> h[i]]
  <2>2. \A i \in 0 .. n : g[i] = h[i]
    OBVIOUS
  <2>3. g = [i \in 0 .. n |->
                IF i = 0 THEN [ok |-> TRUE, index |-> proof.index, hash |-> proof.leaf]
                ELSE Climb(g[i - 1], proof.path[i])]
    <3>1. ASSUME NEW i \in 0 .. n
          PROVE  h[i] = IF i = 0 THEN [ok |-> TRUE, index |-> proof.index, hash |-> proof.leaf]
                        ELSE Climb(g[i - 1], proof.path[i])
      <4>1. CASE i = 0
        BY <2>1, <4>1 DEF Climbs, Start
      <4>2. CASE i # 0
        <5>1. i \in 1 .. n /\ i - 1 \in 0 .. n
          BY <4>2
        <5>2. g[i - 1] = h[i - 1]
          BY <2>2, <5>1
        <5>3. h[i] = Climb(h[i - 1], proof.path[i])
          BY <2>1, <5>1 DEF Climbs
        <5> HIDE DEF g
        <5> QED
          BY <4>2, <5>2, <5>3
      <4> QED
        BY <4>1, <4>2
    <3> QED
      BY <3>1
  <2> HIDE DEF g
  <2>4. Is(g)
    BY <2>3
  <2>5. f = CHOOSE k : Is(k)
    BY DEF Climbed
  <2> HIDE DEF Is, f
  <2> QED
    BY <2>4, <2>5
<1>2. VerifyProof(proof) <=> f[n].ok /\ f[n].index = 0 /\ f[n].hash = proof.root
  BY DEF VerifyProof, Climbed
<1> HIDE DEF f
<1>3. DOMAIN f = 0 .. n
  BY <1>1
<1>4. \A i \in 0 .. n : f[i] = IF i = 0 THEN [ok |-> TRUE, index |-> proof.index, hash |-> proof.leaf]
                               ELSE Climb(f[i - 1], proof.path[i])
  BY <1>1
<1>5. 0 \in 0 .. n /\ \A i \in 1 .. n : i \in 0 .. n /\ i # 0
  OBVIOUS
<1>6. Climbs(f, proof, n)
  BY <1>3, <1>4, <1>5 DEF Climbs, Start
<1> QED
  BY <1>2, <1>6

\* Whatever its path says, a proof that verifies against the root over some
\* leaves is a proof of one of them (verifyMerkleInclusionProof; a node is
\* hashed under another prefix than a leaf).
THEOREM VerifiedIsCommitted ==
    ASSUME NEW leaves, IsList(leaves), 1 <= Len(leaves), AreLeaves(leaves),
           NEW proof, Len(proof.path) \in Nat, VerifyProof(proof),
           proof.root = Root(leaves), NEW w, proof.leaf = Leaf(w)
    PROVE  Leaf(w) \in ToSet(leaves)
<1> DEFINE n == Len(proof.path)
<1>1. PICK f : /\ Climbs(f, proof, n)
               /\ VerifyProof(proof) <=> f[n].ok /\ f[n].index = 0 /\ f[n].hash = proof.root
  BY VerdictOfTheClimb
<1> DEFINE L == Levels(leaves)
<1> DEFINE t == Len(L)
<1>2. IsTree(L, leaves)
  BY LevelsAreATree
<1>3. t \in Nat /\ 1 <= t /\ L[1] = leaves /\ ToSet(L[t]) = {L[t][1]}
  BY <1>2, TopIsRoot DEF IsTree
<1>4. /\ \A d \in 1 .. t : IsList(L[d])
      /\ \A d \in 1 .. t - 1 : IsAbove(L[d + 1], L[d])
  BY <1>2 DEF IsTree
<1>5. L[t][1] = proof.root
  BY DEF Root, Last
<1>6. ASSUME NEW i \in 1 .. n
      PROVE  f[i - 1].hash = f[i].hash[1] \/ f[i - 1].hash = f[i].hash[2]
  <2>1. f[i] = Climb(f[i - 1], proof.path[i])
    BY <1>1 DEF Climbs
  <2>2. \/ f[i].hash = <<proof.path[i].hash, f[i - 1].hash>>
        \/ f[i].hash = <<f[i - 1].hash, proof.path[i].hash>>
    BY <2>1 DEF Climb, HashNode
  <2> QED
    BY <2>2
<1>7. ASSUME NEW i \in 1 .. n
      PROVE  \E l, r : f[i].hash = <<l, r>>
  <2>1. f[i] = Climb(f[i - 1], proof.path[i])
    BY <1>1 DEF Climbs
  <2> QED
    BY <2>1 DEF Climb, HashNode
<1>8. f[0].hash = Leaf(w)
  BY <1>1 DEF Climbs, Start
<1> HIDE DEF L, t, n
<1> DEFINE Good == {j \in 0 .. n : j < t => f[n - j].hash \in ToSet(L[t - j])}
<1>9. n \in Nat
  BY DEF n
<1>10. 0 .. n \subseteq Good
  <2>1. 0 \in Good
    <3>1. 0 \in 0 .. n /\ n - 0 = n /\ t - 0 = t
      BY <1>3, <1>9
    <3> QED
      BY <1>1, <1>3, <1>5, <3>1
  <2>2. ASSUME NEW j \in 1 .. n, j - 1 \in Good
        PROVE  j \in Good
    <3>1. SUFFICES ASSUME j < t
                   PROVE  f[n - j].hash \in ToSet(L[t - j])
      BY <1>9
    <3>2. /\ j - 1 < t /\ n - (j - 1) \in 1 .. n /\ n - (j - 1) - 1 = n - j
          /\ t - j \in 1 .. t - 1 /\ t - j \in 1 .. t /\ t - j + 1 = t - (j - 1)
      BY <1>3, <1>9, <3>1
    <3>3. f[n - (j - 1)].hash \in ToSet(L[t - j + 1])
      BY <2>2, <3>2
    <3>4. f[n - j].hash = f[n - (j - 1)].hash[1] \/ f[n - j].hash = f[n - (j - 1)].hash[2]
      BY <1>6, <3>2
    <3>5. ToSet(L[t - j]) = {x[1] : x \in ToSet(L[t - j + 1])} \union {x[2] : x \in ToSet(L[t - j + 1])}
      BY <1>4, <3>2, AboveTells
    <3> QED
      BY <3>3, <3>4, <3>5
  <2> HIDE DEF Good
  <2> QED
    BY <1>9, <2>1, <2>2, UpTo
<1>11. CASE n < t
  <2>1. n \in 0 .. n /\ n - n = 0
    BY <1>9
  <2>2. n \in Good
    BY <1>10, <2>1
  <2>3. Leaf(w) \in ToSet(L[t - n])
    BY <1>8, <1>11, <2>1, <2>2
  <2>4. CASE t - n = 1
    BY <1>3, <2>3, <2>4
  <2>5. CASE t - n # 1
    <3>1. t - n - 1 \in 1 .. t - 1 /\ t - n - 1 + 1 = t - n
      BY <1>3, <1>9, <1>11, <2>5
    <3>2. IsAbove(L[t - n], L[t - n - 1])
      BY <1>4, <3>1
    <3>3. \E l, r : Leaf(w) = <<l, r>>
      BY <2>3, <3>2, AboveAreNodes
    <3> QED
      BY <3>3, LeavesAreNoNodes
  <2> QED
    BY <2>4, <2>5
<1>12. CASE ~(n < t)
  <2>1. t - 1 \in 0 .. n /\ t - 1 < t /\ t - (t - 1) = 1 /\ n - (t - 1) \in 1 .. n
    BY <1>3, <1>9, <1>12
  <2>2. t - 1 \in Good
    BY <1>10, <2>1
  <2>3. f[n - (t - 1)].hash \in ToSet(leaves)
    BY <1>3, <2>1, <2>2
  <2>4. PICK l, r : f[n - (t - 1)].hash = <<l, r>>
    BY <1>7, <2>1
  <2> QED
    BY <2>3, <2>4, LeavesAreNoNodes DEF AreLeaves
<1> QED
  BY <1>11, <1>12

\* The index of an event on each level: halved on the way up.
Indexes(index, n) ==
    CHOOSE f : f = [d \in 1 .. n |-> IF d = 1 THEN index ELSE f[d - 1] \div 2]
Halves(f, index, m) ==
    /\ DOMAIN f = 1 .. m
    /\ f[1] = index
    /\ \A d \in 2 .. m : f[d] = f[d - 1] \div 2

\* An index can be halved again and again.
LEMMA HalvingGoesOn ==
    ASSUME NEW n \in Nat \ {0}, NEW index
    PROVE  \E f : Halves(f, index, n)
<1> DEFINE Good == {m \in 1 .. n : \E f : Halves(f, index, m)}
<1>1. 1 \in Good
  <2> DEFINE f == [i \in 1 .. 1 |-> index]
  <2>1. DOMAIN f = 1 .. 1 /\ f[1] = index /\ 2 .. 1 = {}
    OBVIOUS
  <2> HIDE DEF f
  <2>2. Halves(f, index, 1)
    BY <2>1 DEF Halves
  <2> QED
    BY <2>2
<1>2. ASSUME NEW m \in 2 .. n, m - 1 \in Good
      PROVE  m \in Good
  <2>1. PICK f : Halves(f, index, m - 1)
    BY <1>2
  <2> DEFINE next == f[m - 1] \div 2
  <2> DEFINE g == [i \in 1 .. m |-> IF i = m THEN next ELSE f[i]]
  <2> HIDE DEF next
  <2>2. DOMAIN g = 1 .. m /\ g[m] = next /\ \A i \in 1 .. m - 1 : g[i] = f[i]
    <3>1. m \in Nat /\ m \in 1 .. m
      OBVIOUS
    <3>2. \A i \in 1 .. m - 1 : i \in 1 .. m /\ i # m
      OBVIOUS
    <3>3. DOMAIN g = 1 .. m
      OBVIOUS
    <3>4. \A i \in 1 .. m : g[i] = IF i = m THEN next ELSE f[i]
      OBVIOUS
    <3> HIDE DEF g
    <3> QED
      BY <3>1, <3>2, <3>3, <3>4
  <2> HIDE DEF g
  <2>3. g[1] = index
    <3>1. 1 \in 1 .. m - 1
      OBVIOUS
    <3> QED
      BY <2>1, <2>2, <3>1 DEF Halves
  <2>4. \A i \in 2 .. m : g[i] = g[i - 1] \div 2
    <3> TAKE i \in 2 .. m
    <3>1. i - 1 \in 1 .. m - 1 /\ g[i - 1] = f[i - 1]
      BY <2>2
    <3>2. CASE i = m
      BY <2>2, <3>1, <3>2 DEF next
    <3>3. CASE i # m
      <4>1. i \in 2 .. m - 1 /\ i \in 1 .. m - 1
        BY <3>3
      <4> QED
        BY <2>1, <2>2, <3>1, <4>1 DEF Halves
    <3> QED
      BY <3>2, <3>3
  <2>5. Halves(g, index, m)
    BY <2>2, <2>3, <2>4 DEF Halves
  <2> QED
    BY <2>5
<1>3. n \in Good
  <2>1. n \in 1 .. n
    OBVIOUS
  <2> HIDE DEF Good
  <2> QED
    BY <1>1, <1>2, <2>1, FromOne
<1> QED
  BY <1>3

\* That is what the indexes do.
LEMMA IndexesHalve ==
    ASSUME NEW n \in Nat \ {0}, NEW index
    PROVE  Halves(Indexes(index, n), index, n)
<1> DEFINE Is(f) == f = [d \in 1 .. n |-> IF d = 1 THEN index ELSE f[d - 1] \div 2]
<1> DEFINE f == Indexes(index, n)
<1>1. Is(f)
  <2>1. PICK h : Halves(h, index, n)
    BY HalvingGoesOn
  <2> DEFINE g == [i \in 1 .. n |-> h[i]]
  <2>2. \A i \in 1 .. n : g[i] = h[i]
    OBVIOUS
  <2>3. g = [d \in 1 .. n |-> IF d = 1 THEN index ELSE g[d - 1] \div 2]
    <3>1. ASSUME NEW d \in 1 .. n
          PROVE  h[d] = IF d = 1 THEN index ELSE g[d - 1] \div 2
      <4>1. CASE d = 1
        BY <2>1, <4>1 DEF Halves
      <4>2. CASE d # 1
        <5>1. d \in 2 .. n /\ d - 1 \in 1 .. n
          BY <4>2
        <5>2. g[d - 1] = h[d - 1]
          BY <2>2, <5>1
        <5>3. h[d] = h[d - 1] \div 2
          BY <2>1, <5>1 DEF Halves
        <5> HIDE DEF g
        <5> QED
          BY <4>2, <5>2, <5>3
      <4> QED
        BY <4>1, <4>2
    <3> QED
      BY <3>1
  <2> HIDE DEF g
  <2>4. Is(g)
    BY <2>3
  <2>5. f = CHOOSE k : Is(k)
    BY DEF Indexes
  <2> HIDE DEF Is, f
  <2> QED
    BY <2>4, <2>5
<1> HIDE DEF f
<1>3. DOMAIN f = 1 .. n
  BY <1>1
<1>4. \A d \in 1 .. n : f[d] = IF d = 1 THEN index ELSE f[d - 1] \div 2
  BY <1>1
<1>5. 1 \in 1 .. n /\ \A d \in 2 .. n : d \in 1 .. n /\ d # 1
  OBVIOUS
<1>6. Halves(f, index, n)
  BY <1>3, <1>4, <1>5 DEF Halves
<1> QED
  BY <1>6 DEF f

\* An index and what remains of it.
LEMMA HalvesAndRests ==
    ASSUME NEW i \in Nat
    PROVE  /\ i \div 2 \in Nat
           /\ i % 2 = 0 => i = 2 * (i \div 2)
           /\ i % 2 # 0 => i = 2 * (i \div 2) + 1
OBVIOUS

\* One step of the verifier with the sibling of a node is at the node above.
LEMMA SiblingClimbs ==
    ASSUME NEW up, NEW level, IsList(level), IsAbove(up, level),
           NEW index \in Nat, index < Len(level),
           NEW at, at = [ok |-> TRUE, index |-> index, hash |-> level[index + 1]]
    PROVE  /\ index \div 2 \in Nat /\ index \div 2 < Len(up)
           /\ Climb(at, Sibling(level, index)) =
                [ok |-> TRUE, index |-> index \div 2, hash |-> up[index \div 2 + 1]]
<1> DEFINE n == Len(level)
<1> DEFINE h == Len(up)
<1> DEFINE k == index \div 2
<1>1. n \in Nat /\ h \in Nat /\ n <= 2 * h
  BY ListsAreFunctions DEF IsAbove
<1>2. \A i \in 1 .. h : up[i] = <<level[2 * i - 1], level[IF 2 * i <= n THEN 2 * i ELSE 2 * i - 1]>>
  BY DEF IsAbove
<1> DEFINE step == Sibling(level, index)
<1>3. at.ok = TRUE /\ at.index = index /\ at.hash = level[index + 1]
  OBVIOUS
<1>4. CASE index % 2 = 0
  <2>1. index = 2 * k /\ k \in Nat
    BY <1>4, HalvesAndRests
  <2> DEFINE s == IF index + 1 < n THEN index + 1 ELSE index
  <2>2. step = [position |-> IF s < index THEN "left" ELSE "right", hash |-> level[s + 1]]
    BY <1>4 DEF Sibling
  <2> HIDE DEF n, h, k
  <2>3. k < h /\ k + 1 \in 1 .. h /\ ~(s < index)
    BY <1>1, <2>1 DEF n
  <2>4. 2 * (k + 1) - 1 = index + 1 /\ (IF 2 * (k + 1) <= n THEN 2 * (k + 1) ELSE 2 * (k + 1) - 1) = s + 1
    BY <1>1, <2>1
  <2>5. up[k + 1] = <<level[index + 1], level[s + 1]>>
    BY <1>2, <2>3, <2>4
  <2> HIDE DEF s, step
  <2>6. step.position = "right" /\ step.hash = level[s + 1]
    BY <2>2, <2>3
  <2>7. Climb(at, step) = [ok |-> TRUE, index |-> k, hash |-> <<level[index + 1], level[s + 1]>>]
    BY <1>3, <1>4, <2>6 DEF Climb, HashNode, k
  <2> QED
    BY <2>1, <2>3, <2>5, <2>7 DEF k, h, step
<1>5. CASE index % 2 # 0
  <2>1. index = 2 * k + 1 /\ k \in Nat
    BY <1>5, HalvesAndRests
  <2> DEFINE s == IF index - 1 < n THEN index - 1 ELSE index
  <2>2. step = [position |-> IF s < index THEN "left" ELSE "right", hash |-> level[s + 1]]
    BY <1>5 DEF Sibling
  <2> HIDE DEF n, h, k
  <2>3. k < h /\ k + 1 \in 1 .. h /\ s = index - 1 /\ s < index
    BY <1>1, <2>1 DEF n
  <2>4. 2 * (k + 1) - 1 = s + 1 /\ (IF 2 * (k + 1) <= n THEN 2 * (k + 1) ELSE 2 * (k + 1) - 1) = index + 1
    BY <1>1, <2>1, <2>3 DEF n
  <2>5. up[k + 1] = <<level[s + 1], level[index + 1]>>
    BY <1>2, <2>3, <2>4
  <2> HIDE DEF s, step
  <2>6. step.position = "left" /\ step.hash = level[s + 1]
    BY <2>2, <2>3
  <2>7. Climb(at, step) = [ok |-> TRUE, index |-> k, hash |-> <<level[s + 1], level[index + 1]>>]
    BY <1>3, <1>5, <2>6 DEF Climb, HashNode, k
  <2> QED
    BY <2>1, <2>3, <2>5, <2>7 DEF k, h, step
<1> QED
  BY <1>4, <1>5

\* What the parts of an inclusion proof are.
LEMMA PartsOfAProof ==
    ASSUME NEW leaves, NEW index
    PROVE  LET L == Levels(leaves)
               proof == InclusionProof(leaves, index)
           IN  /\ proof.index = index /\ proof.leaf = leaves[index + 1]
               /\ proof.root = Root(leaves)
               /\ proof.path = [d \in 1 .. Len(L) - 1 |-> Sibling(L[d], Indexes(index, Len(L))[d])]
BY DEF InclusionProof, Indexes, Root

\* The proof of each leaf verifies (createMerkleInclusionProof and
\* verifyMerkleInclusionProof agree about the levels, the last node of a level
\* with an odd number of nodes, and the sides).
THEOREM ProofsOfLeavesVerify ==
    ASSUME NEW leaves, IsList(leaves), NEW index \in Nat, index < Len(leaves)
    PROVE  /\ VerifyProof(InclusionProof(leaves, index))
           /\ Len(InclusionProof(leaves, index).path) \in Nat
<1> DEFINE L == Levels(leaves)
<1> DEFINE t == Len(L)
<1> DEFINE f == Indexes(index, t)
<1> DEFINE proof == InclusionProof(leaves, index)
<1> DEFINE path == proof.path
<1>1. 1 <= Len(leaves) /\ Len(leaves) \in Nat
  <2>1. Len(leaves) \in Nat
    BY ListsAreFunctions
  <2> QED
    BY <2>1
<1>2. IsTree(L, leaves)
  BY <1>1, LevelsAreATree
<1>3. t \in Nat \ {0} /\ 1 <= t /\ L[1] = leaves /\ Len(L[t]) = 1
  <2>1. t \in Nat /\ 1 <= t
    BY <1>2, TopIsRoot DEF IsTree
  <2> QED
    BY <1>2, <2>1 DEF IsTree
<1>4. /\ \A d \in 1 .. t : IsList(L[d])
      /\ \A d \in 1 .. t - 1 : IsAbove(L[d + 1], L[d])
  BY <1>2 DEF IsTree
<1>5. proof.index = index /\ proof.leaf = leaves[index + 1] /\ proof.root = L[t][1]
  <2>1. proof.index = index /\ proof.leaf = leaves[index + 1] /\ proof.root = Root(leaves)
    BY PartsOfAProof, ZenonT(30)
  <2>2. Root(leaves) = L[t][1]
    BY DEF Root, Last
  <2> HIDE DEF proof, L, t
  <2> QED
    BY <2>1, <2>2
<1>6. path = [d \in 1 .. t - 1 |-> Sibling(L[d], f[d])]
  BY PartsOfAProof
<1>7. Halves(f, index, t)
  BY <1>3, IndexesHalve
<1> HIDE DEF L, f, t, proof
<1>8. Len(path) = t - 1 /\ \A d \in 1 .. t - 1 : path[d] = Sibling(L[d], f[d])
  <2> HIDE DEF path
  <2>1. t - 1 \in Nat
    BY <1>3
  <2>2. path = [d \in 1 .. t - 1 |-> path[d]]
    BY <1>6
  <2>3. Len(path) = t - 1
    BY <2>1, <2>2, FunctionsAreLists
  <2> QED
    BY <1>6, <2>3
<1> DEFINE n == t - 1
<1>9. n \in Nat /\ Len(path) \in Nat
  BY <1>3, <1>8
<1>10. PICK g : /\ Climbs(g, proof, n)
                /\ VerifyProof(proof) <=> g[n].ok /\ g[n].index = 0 /\ g[n].hash = proof.root
  BY <1>8, <1>9, VerdictOfTheClimb
<1> DEFINE At(i) == [ok |-> TRUE, index |-> f[i + 1], hash |-> L[i + 1][f[i + 1] + 1]]
<1> DEFINE Good == {i \in 0 .. n : f[i + 1] \in Nat /\ f[i + 1] < Len(L[i + 1]) /\ g[i] = At(i)}
<1>11. 0 .. n \subseteq Good
  <2>1. 0 \in Good
    <3>1. 0 \in 0 .. n /\ 0 + 1 = 1
      BY <1>9
    <3>2. g[0] = [ok |-> TRUE, index |-> index, hash |-> leaves[index + 1]]
      BY <1>5, <1>10 DEF Climbs, Start
    <3>3. f[1] = index /\ index \in Nat
      BY <1>7 DEF Halves
    <3> QED
      BY <1>3, <3>1, <3>2, <3>3
  <2>2. ASSUME NEW i \in 1 .. n, i - 1 \in Good
        PROVE  i \in Good
    <3>1. i \in 0 .. n /\ i \in 1 .. t - 1 /\ i \in 1 .. t /\ i + 1 \in 2 .. t /\ i - 1 + 1 = i /\ i + 1 - 1 = i
      BY <1>3
    <3>2. f[i] \in Nat /\ f[i] < Len(L[i]) /\ g[i - 1] = [ok |-> TRUE, index |-> f[i], hash |-> L[i][f[i] + 1]]
      BY <2>2, <3>1
    <3>3. f[i + 1] = f[i] \div 2
      BY <1>7, <3>1 DEF Halves
    <3>4. g[i] = Climb(g[i - 1], path[i])
      BY <1>10 DEF Climbs
    <3>5. path[i] = Sibling(L[i], f[i])
      BY <1>8, <3>1
    <3>6. IsList(L[i]) /\ IsAbove(L[i + 1], L[i])
      BY <1>4, <3>1
    <3> HIDE DEF path
    <3>7. /\ f[i] \div 2 \in Nat /\ f[i] \div 2 < Len(L[i + 1])
          /\ Climb(g[i - 1], Sibling(L[i], f[i])) =
               [ok |-> TRUE, index |-> f[i] \div 2, hash |-> L[i + 1][f[i] \div 2 + 1]]
      <4> DEFINE k == f[i]
      <4> DEFINE level == L[i]
      <4> DEFINE up == L[i + 1]
      <4> DEFINE at == g[i - 1]
      <4> HIDE DEF k, level, up, at, n
      <4>1. /\ k \in Nat /\ k < Len(level) /\ IsList(level) /\ IsAbove(up, level)
            /\ at = [ok |-> TRUE, index |-> k, hash |-> level[k + 1]]
        BY <3>2, <3>6 DEF k, level, up, at
      <4>2. /\ k \div 2 \in Nat /\ k \div 2 < Len(up)
            /\ Climb(at, Sibling(level, k)) =
                 [ok |-> TRUE, index |-> k \div 2, hash |-> up[k \div 2 + 1]]
        BY <4>1, SiblingClimbs
      <4> QED
        BY <4>2 DEF k, level, up, at
    <3>8. g[i] = At(i)
      BY <3>3, <3>4, <3>5, <3>7
    <3> QED
      BY <3>1, <3>3, <3>7, <3>8
  <2> HIDE DEF Good, n
  <2> QED
    BY <1>9, <2>1, <2>2, UpTo
<1>12. n \in Good /\ n + 1 = t
  <2>1. n \in 0 .. n /\ n + 1 = t
    BY <1>3, <1>9
  <2> HIDE DEF Good, n
  <2> QED
    BY <1>11, <2>1
<1>13. f[t] \in Nat /\ f[t] < 1 /\ g[n] = [ok |-> TRUE, index |-> f[t], hash |-> L[t][f[t] + 1]]
  BY <1>3, <1>12
<1>14. f[t] = 0
  BY <1>13
<1>15. g[n].ok /\ g[n].index = 0 /\ g[n].hash = L[t][1]
  BY <1>13, <1>14
<1>16. VerifyProof(proof)
  BY <1>5, <1>10, <1>15
<1> QED
  BY <1>9, <1>16 DEF proof

-----------------------------------------------------------------------------
(***************************************************************************)
(* Checkpoints.  The range that was signed is in the order of the log, and *)
(* so is the range that is read later: if their roots are the same, so are *)
(* they, whatever was committed in between.                                *)
(***************************************************************************)

InOrder(s) == \A i, j \in 1 .. Len(s) : i < j => writer[s[i]].start < writer[s[j]].start

CheckpointsAreSigned ==
    \A k \in checkpoints :
        /\ k.range \in Seq(Stored) /\ 1 <= Len(k.range) /\ InOrder(k.range)
        /\ k.root = Root(Leaves(k.range))
MerkleInv == LogInv /\ CheckpointsAreSigned

\* A part of a sequence.
LEMMA PartOf ==
    ASSUME NEW S, NEW s \in Seq(S), NEW a \in 1 .. Len(s), NEW b \in 1 .. Len(s)
    PROVE  /\ SubSeq(s, a, b) \in Seq(S)
           /\ Len(SubSeq(s, a, b)) = IF a <= b THEN b - a + 1 ELSE 0
           /\ \A i \in 1 .. Len(SubSeq(s, a, b)) : a + i - 1 \in 1 .. Len(s) /\ SubSeq(s, a, b)[i] = s[a + i - 1]
<1>1. SubSeq(s, a, b) \in Seq(S)
  OBVIOUS
<1>2. Len(SubSeq(s, a, b)) = IF a <= b THEN b - a + 1 ELSE 0
  OBVIOUS
<1>3. \A i \in 1 .. Len(SubSeq(s, a, b)) : a + i - 1 \in 1 .. Len(s) /\ SubSeq(s, a, b)[i] = s[a + i - 1]
  BY <1>2
<1> QED
  BY <1>1, <1>2, <1>3

\* A range of the log is in its order.
LEMMA RangesAreInOrder ==
    ASSUME LogInv, NEW first, NEW last
    PROVE  EventRange(first, last) \in Seq(Stored) /\ InOrder(EventRange(first, last))
<1> DEFINE s == EventRange(first, last)
<1>1. CASE {first, last} \subseteq Stored
  <2> DEFINE n == Cardinality(Stored)
  <2>1. Sorts(Log, Stored) /\ \A w \in Stored : Place(w) \in 1 .. n
    BY OrderedSorts DEF Log, Place
  <2> HIDE DEF n
  <2>2. /\ n \in Nat /\ Log \in Seq(Stored) /\ Len(Log) = n
        /\ \A i, j \in 1 .. n : i < j => writer[Log[i]].start < writer[Log[j]].start
    BY <2>1 DEF Sorts, n
  <2> DEFINE a == Place(first)
  <2> DEFINE b == Place(last)
  <2>3. s = SubSeq(Log, a, b) /\ a \in 1 .. n /\ b \in 1 .. n
    BY <1>1, <2>1 DEF EventRange
  <2> HIDE DEF a, b, s
  <2>4. /\ s \in Seq(Stored) /\ Len(s) \in Nat
        /\ \A i \in 1 .. Len(s) : a + i - 1 \in 1 .. n /\ s[i] = Log[a + i - 1]
    BY <2>2, <2>3, PartOf
  <2>5. \A i, j \in 1 .. Len(s) : i < j => a + i - 1 < a + j - 1
    BY <2>3, <2>4
  <2>6. \A i, j \in 1 .. Len(s) : i < j => writer[s[i]].start < writer[s[j]].start
    BY <2>2, <2>4, <2>5
  <2> QED
    BY <2>4, <2>6 DEF InOrder, s
<1>2. CASE ~({first, last} \subseteq Stored)
  <2>1. s = << >>
    BY <1>2 DEF EventRange
  <2>2. << >> \in Seq(Stored) /\ Len(<< >>) = 0 /\ 1 .. 0 = {}
    OBVIOUS
  <2> QED
    BY <2>1, <2>2 DEF InOrder
<1> QED
  BY <1>1, <1>2

\* The leaves of a range.
LEMMA LeavesOfARange ==
    ASSUME NEW S, NEW s \in Seq(S)
    PROVE  /\ IsList(Leaves(s)) /\ AreLeaves(Leaves(s))
           /\ Len(Leaves(s)) = Len(s) /\ Len(s) \in Nat
           /\ \A i \in 1 .. Len(s) : Leaves(s)[i] = Leaf(s[i])
           /\ ToSet(Leaves(s)) = {Leaf(s[i]) : i \in 1 .. Len(s)}
<1> DEFINE n == Len(s)
<1> DEFINE l == Leaves(s)
<1>1. n \in Nat /\ DOMAIN s = 1 .. n
  OBVIOUS
<1>2. l = [i \in 1 .. n |-> Leaf(s[i])]
  BY <1>1 DEF Leaves
<1> HIDE DEF n, l
<1>3. l = [i \in 1 .. n |-> l[i]] /\ \A i \in 1 .. n : l[i] = Leaf(s[i])
  BY <1>2
<1>4. IsList(l) /\ Len(l) = n /\ ToSet(l) = {l[i] : i \in 1 .. n}
  BY <1>1, <1>3, FunctionsAreLists
<1>5. ToSet(l) = {Leaf(s[i]) : i \in 1 .. n}
  BY <1>3, <1>4
<1>6. AreLeaves(l)
  BY <1>5 DEF AreLeaves
<1> QED
  BY <1>1, <1>3, <1>4, <1>5, <1>6 DEF n, l

\* Two sequences of the same rows in order are one.
LEMMA SameRowsSameOrder ==
    ASSUME LogInv, NEW s \in Seq(Stored), NEW t \in Seq(Stored), InOrder(s), InOrder(t),
           \A i \in 1 .. Len(s) : \E j \in 1 .. Len(t) : s[i] = t[j],
           \A j \in 1 .. Len(t) : \E i \in 1 .. Len(s) : t[j] = s[i]
    PROVE  s = t
<1> DEFINE n == Len(s)
<1> DEFINE m == Len(t)
<1> DEFINE S(i) == writer[s[i]].start
<1> DEFINE T(i) == writer[t[i]].start
<1>1. n \in Nat /\ m \in Nat
  OBVIOUS
<1>2. (\A i \in 1 .. n : s[i] \in Stored /\ S(i) \in Nat) /\ (\A j \in 1 .. m : t[j] \in Stored /\ T(j) \in Nat)
  <2>1. (\A i \in 1 .. n : s[i] \in Stored) /\ (\A j \in 1 .. m : t[j] \in Stored)
    BY <1>1
  <2>2. \A w \in Stored : writer[w].start \in Nat
    BY StartsOrder
  <2> HIDE DEF n, m
  <2> QED
    BY <2>1, <2>2
<1>3. (\A i, j \in 1 .. n : i < j => S(i) < S(j)) /\ (\A i, j \in 1 .. m : i < j => T(i) < T(j))
  BY DEF InOrder
<1>4. (\A i \in 1 .. n : \E j \in 1 .. m : s[i] = t[j]) /\ (\A j \in 1 .. m : \E i \in 1 .. n : t[j] = s[i])
  OBVIOUS
<1> HIDE DEF n, m
<1> DEFINE Good == {i \in 0 .. n : i <= m /\ \A j \in 1 .. i : s[j] = t[j]}
<1>5. 0 .. n \subseteq Good
  <2>1. 0 \in Good
    BY <1>1
  <2>2. ASSUME NEW i \in 1 .. n, i - 1 \in Good
        PROVE  i \in Good
    <3>1. i - 1 <= m /\ \A j \in 1 .. i - 1 : s[j] = t[j]
      BY <2>2
    <3>2. PICK k \in 1 .. m : s[i] = t[k]
      BY <1>4
    <3>3. ~(k < i)
      <4>1. SUFFICES ASSUME k < i
                     PROVE  FALSE
        OBVIOUS
      <4>2. k \in 1 .. i - 1 /\ k \in 1 .. n
        BY <1>1, <4>1
      <4>3. s[i] = s[k]
        BY <3>1, <3>2, <4>2
      <4>4. S(k) = S(i)
        BY <4>3
      <4> HIDE DEF S
      <4>5. S(k) < S(i) /\ S(k) \in Nat
        BY <1>2, <1>3, <4>1, <4>2
      <4> QED
        BY <4>4, <4>5
    <3>4. i \in 1 .. m
      BY <1>1, <3>3
    <3>5. PICK l \in 1 .. n : t[i] = s[l]
      BY <1>4, <3>4
    <3>6. ~(l < i)
      <4>1. SUFFICES ASSUME l < i
                     PROVE  FALSE
        OBVIOUS
      <4>2. l \in 1 .. i - 1 /\ l \in 1 .. m
        BY <1>1, <3>4, <4>1
      <4>3. t[i] = t[l]
        BY <3>1, <3>5, <4>2
      <4>4. T(l) = T(i)
        BY <4>3
      <4> HIDE DEF T
      <4>5. T(l) < T(i) /\ T(l) \in Nat
        BY <1>2, <1>3, <3>4, <4>1, <4>2
      <4> QED
        BY <4>4, <4>5
    <3>7. k = i
      <4>1. SUFFICES ASSUME i < k
                     PROVE  FALSE
        BY <3>3
      <4>2. T(i) < T(k) /\ T(k) = S(i) /\ T(i) = S(l)
        BY <1>3, <3>2, <3>4, <3>5, <4>1
      <4>3. S(i) = S(l) \/ S(i) < S(l)
        BY <1>3, <3>6
      <4>4. S(i) \in Nat /\ S(l) \in Nat
        BY <1>2
      <4>5. T(i) \in Nat /\ T(k) \in Nat
        BY <1>2, <3>4
      <4> HIDE DEF S, T
      <4> QED
        BY <4>2, <4>3, <4>4, <4>5
    <3>8. s[i] = t[i]
      BY <3>2, <3>7
    <3>9. \A j \in 1 .. i : s[j] = t[j]
      <4>1. \A j \in 1 .. i : j = i \/ j \in 1 .. i - 1
        OBVIOUS
      <4> QED
        BY <3>1, <3>8, <4>1
    <3> QED
      BY <3>4, <3>9
  <2> HIDE DEF Good
  <2> QED
    BY <1>1, <2>1, <2>2, UpTo
<1>6. n <= m /\ \A j \in 1 .. n : s[j] = t[j]
  <2>1. n \in 0 .. n
    BY <1>1
  <2>2. n \in Good
    BY <1>5, <2>1
  <2> QED
    BY <2>2
<1>7. n = m
  <2>1. SUFFICES ASSUME n < m
                 PROVE  FALSE
    BY <1>1, <1>6
  <2>2. n + 1 \in 1 .. m
    BY <1>1, <2>1
  <2>3. PICK i \in 1 .. n : t[n + 1] = s[i]
    BY <1>4, <2>2
  <2>4. i \in 1 .. m /\ i < n + 1 /\ t[n + 1] = t[i]
    BY <1>1, <1>6, <2>1, <2>3
  <2>5. T(i) < T(n + 1) /\ T(i) = T(n + 1) /\ T(i) \in Nat
    BY <1>2, <1>3, <2>2, <2>4
  <2> HIDE DEF T
  <2> QED
    BY <2>5
<1>8. s = [i \in 1 .. n |-> s[i]] /\ t = [i \in 1 .. m |-> t[i]]
  BY DEF n, m
<1> QED
  BY <1>6, <1>7, <1>8

\* A range whose root is that of a range that was signed is that range.
LEMMA SameRootSameRange ==
    ASSUME LogInv, NEW s \in Seq(Stored), NEW t \in Seq(Stored), InOrder(s), InOrder(t),
           1 <= Len(s), 1 <= Len(t), Root(Leaves(s)) = Root(Leaves(t))
    PROVE  s = t
<1>1. /\ IsList(Leaves(s)) /\ AreLeaves(Leaves(s)) /\ Len(Leaves(s)) = Len(s)
      /\ ToSet(Leaves(s)) = {Leaf(s[i]) : i \in 1 .. Len(s)}
  BY LeavesOfARange
<1>2. /\ IsList(Leaves(t)) /\ AreLeaves(Leaves(t)) /\ Len(Leaves(t)) = Len(t)
      /\ ToSet(Leaves(t)) = {Leaf(t[i]) : i \in 1 .. Len(t)}
  BY LeavesOfARange
<1>3. 1 <= Len(Leaves(s)) /\ 1 <= Len(Leaves(t))
  BY <1>1, <1>2
<1>4. ToSet(Leaves(s)) = ToSet(Leaves(t))
  BY <1>1, <1>2, <1>3, RootsTellTheirLeaves
<1>5. \A v, w : Leaf(v) = Leaf(w) => v = w
  BY DEF Leaf
<1>6. \A i \in 1 .. Len(s) : \E j \in 1 .. Len(t) : s[i] = t[j]
  <2> TAKE i \in 1 .. Len(s)
  <2>1. Leaf(s[i]) \in ToSet(Leaves(t))
    BY <1>1, <1>4
  <2> QED
    BY <1>2, <1>5, <2>1
<1>7. \A j \in 1 .. Len(t) : \E i \in 1 .. Len(s) : t[j] = s[i]
  <2> TAKE j \in 1 .. Len(t)
  <2>1. Leaf(t[j]) \in ToSet(Leaves(s))
    BY <1>2, <1>4
  <2> QED
    BY <1>1, <1>5, <2>1
<1> QED
  BY <1>6, <1>7, SameRowsSameOrder

\* Only the worker adds a checkpoint, and a transaction at the same time adds none.
LEMMA OnlyCheckpointsAreAdded ==
    ASSUME [Next]_vars
    PROVE  checkpoints' = checkpoints \/ \E v, w \in Stored : CreateCheckpoint(v, w)
<1>1. CASE \E w \in Writers : Moves(w)
  BY <1>1 DEF Moves, Begin, MakeEvent, Insert, Commit, Abort
<1>2. CASE \E w \in Writers : ExportProof(w)
  BY <1>2 DEF ExportProof, source
<1>3. CASE \E k \in checkpoints : ImportWitness(k)
  BY <1>3 DEF ImportWitness, source
<1>4. CASE ListEvents \/ ReadEvents \/ FinishExport
  BY <1>4 DEF ListEvents, ReadEvents, FinishExport, source
<1>5. CASE \E s \in Snapshots : OpenExport(s)
  BY <1>5 DEF OpenExport, source
<1>6. CASE \E i \in Importers : Precheck(i) \/ Import(i)
  BY <1>6 DEF Precheck, Import, source
<1>7. CASE UNCHANGED vars
  BY <1>7 DEF vars, source
<1> QED
  BY <1>1, <1>2, <1>3, <1>4, <1>5, <1>6, <1>7 DEF Next, Moves

\* What is signed stays signed and in order.
LEMMA CheckpointsStaySigned ==
    ASSUME MerkleInv, [Next]_vars
    PROVE  MerkleInv'
<1>1. LogInv /\ LogInv'
  BY LogStep DEF MerkleInv
<1>2. Stored \subseteq Stored' /\ \A w \in Stored : writer'[w] = writer[w]
  BY <1>1, StoredStay
<1>3. ASSUME NEW s, s \in Seq(Stored), InOrder(s)
      PROVE  s \in Seq(Stored') /\ InOrder(s)'
  <2>1. \A i \in 1 .. Len(s) : s[i] \in Stored
    BY <1>3
  <2>2. \A i \in 1 .. Len(s) : s[i] \in Stored' /\ writer'[s[i]] = writer[s[i]]
    BY <1>2, <2>1
  <2>3. s \in Seq(Stored')
    BY <1>2, <1>3
  <2> QED
    BY <1>3, <2>2, <2>3 DEF InOrder
<1>4. CheckpointsAreSigned
  BY DEF MerkleInv
<1>5. CASE checkpoints' = checkpoints
  <2>1. CheckpointsAreSigned'
    BY <1>3, <1>4, <1>5 DEF CheckpointsAreSigned, Leaves
  <2> QED
    BY <1>1, <2>1 DEF MerkleInv
<1>6. CASE \E v, w \in Stored : CreateCheckpoint(v, w)
  <2>1. PICK v \in Stored, w \in Stored : CreateCheckpoint(v, w)
    BY <1>6
  <2>9. PICK range : range = EventRange(v, w)
    OBVIOUS
  <2> DEFINE k == [first |-> v, last |-> w, root |-> Root(Leaves(range)), range |-> range]
  <2>2. range # << >> /\ checkpoints' = checkpoints \cup {k}
    BY <2>1, <2>9 DEF CreateCheckpoint
  <2>3. range \in Seq(Stored) /\ InOrder(range)
    BY <1>1, <2>9, RangesAreInOrder
  <2>4. 1 <= Len(range)
    BY <2>2, <2>3
  <2>5. k.range = range /\ k.root = Root(Leaves(range))
    OBVIOUS
  <2>6. range \in Seq(Stored') /\ InOrder(range)'
    BY <1>3, <2>3
  <2>7. ASSUME NEW l \in checkpoints'
        PROVE  /\ l.range \in Seq(Stored') /\ 1 <= Len(l.range) /\ InOrder(l.range)'
               /\ l.root = Root(Leaves(l.range))
    <3>1. CASE l \in checkpoints
      <4> DEFINE s == l.range
      <4>1. s \in Seq(Stored) /\ 1 <= Len(s) /\ InOrder(s) /\ l.root = Root(Leaves(s))
        BY <1>4, <3>1 DEF CheckpointsAreSigned
      <4> HIDE DEF s
      <4>2. s \in Seq(Stored') /\ InOrder(s)'
        BY <1>3, <4>1
      <4> QED
        BY <4>1, <4>2 DEF s
    <3>2. CASE l = k
      BY <2>4, <2>5, <2>6, <3>2
    <3> QED
      BY <2>2, <2>7, <3>1, <3>2
  <2>8. CheckpointsAreSigned'
    BY <2>7 DEF CheckpointsAreSigned
  <2> QED
    BY <1>1, <2>8 DEF MerkleInv
<1> QED
  BY <1>5, <1>6, OnlyCheckpointsAreAdded

\* A checkpoint keeps the root of the rows that were signed, and these are in
\* the order of the log for ever (createSignedCheckpoint).
THEOREM CheckpointsKeepTheirRoots == Spec => []MerkleInv
<1>1. Init => MerkleInv
  BY InitLog DEF Init, MerkleInv, CheckpointsAreSigned
<1> QED
  BY <1>1, CheckpointsStaySigned, PTL DEF Spec

\* A proof is served only from the range that was signed.
LEMMA ServedFromTheSigned ==
    ASSUME MerkleInv, NEW w, NEW k \in checkpoints, ServedProof(w, k) # NoProof
    PROVE  LET proof == ServedProof(w, k)
           IN  /\ \E i \in 1 .. Len(k.range) :
                     /\ k.range[i] = w
                     /\ proof = InclusionProof(Leaves(k.range), i - 1)
               /\ proof.root = k.root
<1> DEFINE range == EventRange(k.first, k.last)
<1> DEFINE i == IndexIn(range, w)
<1> DEFINE proof == InclusionProof(Leaves(range), i - 1)
<1>1. w \in ToSet(range) /\ proof.root = k.root /\ ServedProof(w, k) = proof
  BY DEF ServedProof
<1>2. range \in Seq(Stored) /\ InOrder(range) /\ LogInv
  BY RangesAreInOrder DEF MerkleInv
<1> HIDE DEF range
<1>3. \E j \in DOMAIN range : range[j] = w
  BY <1>1 DEF ToSet
<1>4. i \in DOMAIN range /\ range[i] = w
  BY <1>3 DEF IndexIn
<1> HIDE DEF i
<1>5. DOMAIN range = 1 .. Len(range) /\ Len(range) \in Nat
  BY <1>2
<1>6. 1 <= Len(range)
  BY <1>4, <1>5
<1>7. proof.root = Root(Leaves(range))
  BY PartsOfAProof
<1> HIDE DEF proof
<1>8. /\ k.range \in Seq(Stored) /\ 1 <= Len(k.range) /\ InOrder(k.range)
      /\ k.root = Root(Leaves(k.range))
  BY DEF MerkleInv, CheckpointsAreSigned
<1>9. range = k.range
  <2> DEFINE t == k.range
  <2>1. t \in Seq(Stored) /\ 1 <= Len(t) /\ InOrder(t) /\ Root(Leaves(range)) = Root(Leaves(t))
    BY <1>1, <1>7, <1>8
  <2> HIDE DEF t
  <2>2. range = t
    BY <1>2, <1>6, <2>1, SameRootSameRange
  <2> QED
    BY <2>2 DEF t
<1> QED
  BY <1>1, <1>4, <1>5, <1>9 DEF proof

\* Whatever was committed into its range since, a proof that the API serves
\* verifies against the root that was signed, and says where the event stood
\* in the range that was signed (getResearchEventInclusionProof).
THEOREM ServedProofsAlwaysVerify == Spec => []ServedProofsVerify
<1>1. ASSUME MerkleInv
      PROVE  ServedProofsVerify
  <2>1. SUFFICES ASSUME NEW w \in Stored, NEW k \in Covering(w), ServedProof(w, k) # NoProof
                 PROVE  /\ VerifyProof(ServedProof(w, k)) /\ ServedProof(w, k).root = k.root
                        /\ k.range[ServedProof(w, k).index + 1] = w
    BY DEF ServedProofsVerify
  <2>2. k \in checkpoints
    BY DEF Covering
  <2> DEFINE proof == ServedProof(w, k)
  <2>3. /\ \E i \in 1 .. Len(k.range) : k.range[i] = w /\ proof = InclusionProof(Leaves(k.range), i - 1)
        /\ proof.root = k.root
    BY <1>1, <2>1, <2>2, ServedFromTheSigned
  <2>4. PICK i \in 1 .. Len(k.range) : k.range[i] = w /\ proof = InclusionProof(Leaves(k.range), i - 1)
    BY <2>3
  <2> HIDE DEF proof
  <2> DEFINE s == k.range
  <2>5. s \in Seq(Stored)
    BY <1>1, <2>2 DEF MerkleInv, CheckpointsAreSigned
  <2> HIDE DEF s
  <2>6. IsList(Leaves(s)) /\ Len(Leaves(s)) = Len(s) /\ Len(s) \in Nat
    BY <2>5, LeavesOfARange
  <2>7. i - 1 \in Nat /\ i - 1 < Len(Leaves(s)) /\ i - 1 + 1 = i
    BY <2>4, <2>6 DEF s
  <2> DEFINE j == i - 1
  <2>8. j \in Nat /\ j < Len(Leaves(s)) /\ j + 1 = i
    BY <2>7
  <2> HIDE DEF j
  <2>9. VerifyProof(InclusionProof(Leaves(s), j))
    BY <2>6, <2>8, ProofsOfLeavesVerify
  <2>10. InclusionProof(Leaves(s), j).index = j
    BY PartsOfAProof
  <2>11. proof = InclusionProof(Leaves(s), j)
    BY <2>4 DEF s, j
  <2>12. VerifyProof(proof) /\ proof.index + 1 = i
    BY <2>8, <2>9, <2>10, <2>11
  <2> QED
    BY <2>3, <2>4, <2>12 DEF proof
<1> QED
  BY <1>1, CheckpointsKeepTheirRoots, PTL

\* A third party that computes the root itself signs a checkpoint only while its
\* range is the one that was signed: an event committed into it since makes
\* another root.
WitnessesSignTheSigned ==
    [][\A k \in witnessed' \ witnessed : EventRange(k.first, k.last) = k.range]_vars

\* What a witness computes is the root of what is there, and equal roots mean
\* equal ranges (importWitnessReceipt: else WITNESS_ROOT_MISMATCH).
LEMMA WitnessSeesTheSigned ==
    ASSUME MerkleInv, NEW k \in checkpoints, ImportWitness(k)
    PROVE  EventRange(k.first, k.last) = k.range
<1> DEFINE range == EventRange(k.first, k.last)
           t == k.range
<1>1. range # << >> /\ Root(Leaves(range)) = k.root
  BY DEF ImportWitness, ExportedRange
<1>2. range \in Seq(Stored) /\ InOrder(range) /\ LogInv
  BY RangesAreInOrder DEF MerkleInv
<1>3. t \in Seq(Stored) /\ 1 <= Len(t) /\ InOrder(t) /\ k.root = Root(Leaves(t))
  BY DEF MerkleInv, CheckpointsAreSigned
<1> HIDE DEF range, t
<1>4. 1 <= Len(range)
  BY <1>1, <1>2
<1>5. range = t
  BY <1>1, <1>2, <1>3, <1>4, SameRootSameRange
<1> QED
  BY <1>5 DEF range, t

\* Whatever is committed between a checkpoint and its witness, the witness
\* signs the events that the checkpoint was made of, or its receipt is not
\* imported (importWitnessReceipt).
THEOREM WitnessesAgree == Spec => WitnessesSignTheSigned
<1>1. ASSUME MerkleInv, [Next]_vars
      PROVE  [\A k \in witnessed' \ witnessed : EventRange(k.first, k.last) = k.range]_vars
  <2>1. ASSUME NEW k \in checkpoints, ImportWitness(k)
        PROVE  \A l \in witnessed' \ witnessed : EventRange(l.first, l.last) = l.range
    <3>1. \A l \in witnessed' \ witnessed : l = k
      BY <2>1 DEF ImportWitness
    <3> QED
      BY <1>1, <2>1, <3>1, WitnessSeesTheSigned
  <2>2. witnessed' = witnessed \/ \E k \in checkpoints : ImportWitness(k)
    BY <1>1 DEF Next, vars, Begin, MakeEvent, Insert, Commit, Abort, ExportProof,
                CreateCheckpoint, ListEvents, OpenExport, ReadEvents, FinishExport, Precheck,
                Import
  <2> QED
    BY <2>1, <2>2
<1> QED
  BY <1>1, CheckpointsKeepTheirRoots, PTL DEF Spec, WitnessesSignTheSigned

-----------------------------------------------------------------------------
(***************************************************************************)
(* Bundles.  What an export has written was so at the source and stays so: *)
(* members stay members, and checkpoints are kept.  A copy that lacks a    *)
(* file is not verified, so what is imported was exported as it is.        *)
(***************************************************************************)

\* A member is a revision that was there when its command looked.
MembersHaveRevisions ==
    \A w \in Writers : Command(w).kind = "member" /\ writer[w].phase \in Named =>
        <<Command(w).claim, Command(w).revision>> \in Revisions

\* The files of a bundle: the members of its snapshot, and for each of them
\* what is attached to it and an event that made it; each proof names a
\* checkpoint that was published.
FilesAreHonest(files) ==
    /\ Frontier \in DOMAIN files /\ Events \in DOMAIN files
    /\ files[Frontier].members # {}
    /\ files[Frontier].members \subseteq Members(files[Frontier].snapshot)
    /\ \A m \in files[Frontier].members :
          /\ \A a \in Attached[m] : AttachedPath(a) \in DOMAIN files
          /\ \E w \in files[Events] :
                Command(w).kind = "claim" /\ <<Command(w).claim, Command(w).revision>> = m
    /\ \A path \in PathsOf(files, "proof") :
          files[path].checkpoint \in checkpoints /\ Len(files[path].proof.path) \in Nat
ExportIsHonest ==
    /\ exporter.step = "members" =>
          exporter.members # {} /\ exporter.members \subseteq Members(exporter.snapshot)
    /\ exporter.step = "proofs" =>
          {"step", "left", "files"} \subseteq DOMAIN exporter /\ FilesAreHonest(exporter.files)
BundlesAreHonest ==
    \A b \in bundles : /\ b = [files |-> b.files, listed |-> DOMAIN b.files]
                       /\ FilesAreHonest(b.files)
ImportersAreHonest ==
    /\ importer = [i \in Importers |-> importer[i]]
    /\ \A i \in Importers : importer[i].step = "ready" =>
          FilesAreHonest(importer[i].files) /\ EventsAreProved(importer[i].files)
ImportInv ==
    /\ MerkleInv /\ MembersHaveRevisions
    /\ ExportIsHonest /\ BundlesAreHonest /\ ImportersAreHonest /\ ImportsAreWhole

\* Nothing is unsaid at the source.
LEMMA SourceGrows ==
    ASSUME LogInv, [Next]_vars
    PROVE  /\ \A w : Command(w)' = Command(w)
           /\ Stored \subseteq Stored' /\ Revisions \subseteq Revisions'
           /\ \A s : Members(s) \subseteq Members(s)'
           /\ checkpoints \subseteq checkpoints'
<1>1. script' = script /\ Stored \subseteq Stored'
  BY StoredStay
<1>2. \A w : Command(w)' = Command(w)
  BY <1>1 DEF Command
<1>3. \A kind : Of(kind) \subseteq Of(kind)'
  BY <1>1, <1>2 DEF Of
<1>4. Revisions \subseteq Revisions'
  BY <1>2, <1>3 DEF Revisions
<1>5. \A s : Members(s) \subseteq Members(s)'
  BY <1>2, <1>3 DEF Members
<1>6. checkpoints \subseteq checkpoints'
  BY OnlyCheckpointsAreAdded DEF CreateCheckpoint
<1> QED
  BY <1>1, <1>2, <1>4, <1>5, <1>6

\* A command that makes its event has looked.
LEMMA MembersKeepRevisions ==
    ASSUME LogInv, MembersHaveRevisions, [Next]_vars
    PROVE  MembersHaveRevisions'
<1>1. /\ script' = script /\ Writers' = Writers /\ Revisions \subseteq Revisions'
      /\ \A w : Command(w)' = Command(w)
  BY StoredStay, SourceGrows
<1>2. CASE UNCHANGED <<clock, writer>>
  BY <1>1, <1>2 DEF MembersHaveRevisions
<1>3. CASE \E w \in Writers : Moves(w)
  <2>1. PICK w \in Writers : Moves(w)
    BY <1>3
  <2>2. PICK row : writer' = [writer EXCEPT ![w] = row]
    BY <2>1, RowsMove
  <2>3. writer'[w] = row /\ \A v \in Writers : v # w => writer'[v] = writer[v]
    BY <2>2 DEF LogInv, WritersAreTyped
  <2>4. writer[w] \in [phase : Phases, start : Nat, id : Nat]
    BY DEF LogInv, WritersAreTyped
  <2>5. row.phase \in Named => writer[w].phase \in Named \/ Admissible(Command(w))
    <3>1. CASE Begin(w)
      <4>1. row = IF MayRun(Command(w)) THEN [writer[w] EXCEPT !.phase = "open", !.start = clock]
                  ELSE [writer[w] EXCEPT !.phase = "refused"]
        BY <2>3, <3>1 DEF Begin, LogInv, WritersAreTyped
      <4> QED
        BY <2>4, <4>1 DEF Named
    <3>2. CASE MakeEvent(w)
      <4>1. row = IF Admissible(Command(w)) THEN [writer[w] EXCEPT !.phase = "made", !.id = clock]
                  ELSE [writer[w] EXCEPT !.phase = "refused"]
        BY <2>3, <3>2 DEF MakeEvent, LogInv, WritersAreTyped
      <4> QED
        BY <2>4, <4>1 DEF Named
    <3>3. CASE Insert(w) \/ Commit(w) \/ Abort(w)
      BY <3>3 DEF Insert, Commit, Abort, Named
    <3> QED
      BY <2>1, <3>1, <3>2, <3>3 DEF Moves
  <2>6. ASSUME NEW v \in Writers, Command(v).kind = "member", writer'[v].phase \in Named
        PROVE  <<Command(v).claim, Command(v).revision>> \in Revisions
    <3>1. CASE writer[v].phase \in Named
      BY <2>6, <3>1 DEF MembersHaveRevisions
    <3>2. CASE v = w /\ Admissible(Command(w))
      BY <2>6, <3>2 DEF Admissible, MemberExists
    <3> QED
      BY <2>3, <2>5, <2>6, <3>1, <3>2
  <2> QED
    BY <1>1, <2>6 DEF MembersHaveRevisions
<1> QED
  BY <1>2, <1>3, OnlyTransactionsMove

\* A bundle that was honest stays so.
LEMMA HonestStays ==
    ASSUME LogInv, [Next]_vars, NEW files, FilesAreHonest(files)
    PROVE  FilesAreHonest(files)'
<1>1. \A m \in files[Frontier].members :
          /\ \A a \in Attached[m] : AttachedPath(a) \in DOMAIN files
          /\ \E w \in files[Events] :
                Command(w)'.kind = "claim" /\ <<Command(w)'.claim, Command(w)'.revision>> = m
  BY SourceGrows DEF FilesAreHonest
<1>2. files[Frontier].members \subseteq Members(files[Frontier].snapshot)'
  BY SourceGrows DEF FilesAreHonest
<1>3. \A path \in PathsOf(files, "proof") :
          files[path].checkpoint \in checkpoints' /\ Len(files[path].proof.path) \in Nat
  BY SourceGrows DEF FilesAreHonest
<1>4. Frontier \in DOMAIN files /\ Events \in DOMAIN files /\ files[Frontier].members # {}
  BY DEF FilesAreHonest
<1> QED
  BY <1>1, <1>2, <1>3, <1>4 DEF FilesAreHonest

\* And so does each part of the invariant that a step leaves alone.
LEMMA PartsStay ==
    ASSUME ImportInv, [Next]_vars
    PROVE  /\ MerkleInv' /\ MembersHaveRevisions'
           /\ exporter' = exporter => ExportIsHonest'
           /\ bundles' = bundles => BundlesAreHonest'
           /\ importer' = importer => ImportersAreHonest'
           /\ target' = target => ImportsAreWhole'
<1>1. LogInv /\ MerkleInv /\ MembersHaveRevisions
  BY DEF ImportInv, MerkleInv
<1>2. MerkleInv' /\ MembersHaveRevisions'
  BY <1>1, CheckpointsStaySigned, MembersKeepRevisions
<1>3. ASSUME exporter' = exporter
      PROVE  ExportIsHonest'
  <2>1. PICK e : e = exporter
    OBVIOUS
  <2>2. ExportIsHonest
    BY DEF ImportInv
  <2>3. e.step = "members" => e.members # {} /\ e.members \subseteq Members(e.snapshot)'
    BY <1>1, <2>1, <2>2, SourceGrows DEF ExportIsHonest
  <2>4. PICK files : files = e.files
    OBVIOUS
  <2>5. e.step = "proofs" => {"step", "left", "files"} \subseteq DOMAIN e /\ FilesAreHonest(files)
    BY <2>1, <2>2, <2>4 DEF ExportIsHonest
  <2>6. FilesAreHonest(files) => FilesAreHonest(files)'
    BY <1>1, HonestStays
  <2> QED
    BY <1>3, <2>1, <2>3, <2>4, <2>5, <2>6 DEF ExportIsHonest
<1>4. ASSUME bundles' = bundles
      PROVE  BundlesAreHonest'
  <2>1. ASSUME NEW b \in bundles
        PROVE  b = [files |-> b.files, listed |-> DOMAIN b.files] /\ FilesAreHonest(b.files)'
    <3>1. b = [files |-> b.files, listed |-> DOMAIN b.files] /\ FilesAreHonest(b.files)
      BY <2>1 DEF ImportInv, BundlesAreHonest
    <3> DEFINE files == b.files
    <3>2. FilesAreHonest(files)
      BY <3>1
    <3> HIDE DEF files
    <3>3. FilesAreHonest(files)'
      BY <1>1, <3>2, HonestStays
    <3> QED
      BY <3>1, <3>3 DEF files
  <2> QED
    BY <1>4, <2>1 DEF BundlesAreHonest
<1>5. ASSUME importer' = importer
      PROVE  ImportersAreHonest'
  <2>1. PICK t : t = importer
    OBVIOUS
  <2>2. ImportersAreHonest
    BY DEF ImportInv
  <2>3. t = [i \in Importers |-> t[i]]
    BY <2>1, <2>2 DEF ImportersAreHonest
  <2>4. ASSUME NEW i \in Importers, t[i].step = "ready"
        PROVE  FilesAreHonest(t[i].files)' /\ EventsAreProved(t[i].files)
    <3> DEFINE files == t[i].files
    <3>1. FilesAreHonest(files) /\ EventsAreProved(files)
      BY <2>1, <2>2, <2>4 DEF ImportersAreHonest
    <3> HIDE DEF files
    <3>2. FilesAreHonest(files)'
      BY <1>1, <3>1, HonestStays
    <3> QED
      BY <3>1, <3>2 DEF files
  <2> QED
    BY <1>5, <2>1, <2>3, <2>4 DEF ImportersAreHonest
<1>6. ASSUME target' = target
      PROVE  ImportsAreWhole'
  <2>1. ImportsAreWhole
    BY DEF ImportInv
  <2>2. (\A w : Command(w)' = Command(w)) /\ \A s : Members(s) \subseteq Members(s)'
    BY <1>1, SourceGrows
  <2> QED
    BY <1>6, <2>1, <2>2 DEF ImportsAreWhole
<1> QED
  BY <1>2, <1>3, <1>4, <1>5, <1>6

\* What the paths of a bundle say.
LEMMA PathsTell ==
    /\ Role(Frontier) = "frontier" /\ Role(Events) = "events"
    /\ \A c : Role(ClaimPath(c)) = "claim" /\ ClaimPath(c)[2] = c
    /\ \A a : Role(AttachedPath(a)) = "attached" /\ AttachedPath(a)[2] = a
    /\ \A k : Role(CheckpointPath(k)) = "checkpoint" /\ CheckpointPath(k)[2] = k
    /\ \A w : Role(ProofPath(w)) = "proof" /\ ProofPath(w)[2] = w
BY DEF Role, Frontier, Events, ClaimPath, AttachedPath, CheckpointPath, ProofPath

\* The members of a snapshot have made an event each.
LEMMA MembersHaveEvents ==
    ASSUME MembersHaveRevisions, NEW s, NEW m \in Members(s)
    PROVE  \E w \in About(m[1]) : Command(w).kind = "claim" /\ <<Command(w).claim, Command(w).revision>> = m
<1>1. PICK v \in Stored : Command(v).kind = "member" /\ m = <<Command(v).claim, Command(v).revision>>
  BY DEF Members, Of
<1>2. v \in Writers /\ writer[v].phase \in Named
  BY DEF Stored, Named
<1>3. m \in Revisions
  BY <1>1, <1>2 DEF MembersHaveRevisions
<1>4. PICK w \in Stored : Command(w).kind = "claim" /\ m = <<Command(w).claim, Command(w).revision>>
  BY <1>3 DEF Revisions, Of
<1>5. m[1] = Command(w).claim
  BY <1>4
<1> QED
  BY <1>4, <1>5 DEF About

\* An export begins with the members of a snapshot.
LEMMA OpenExportIsHonest ==
    ASSUME ImportInv, [Next]_vars, NEW s \in Snapshots, OpenExport(s)
    PROVE  ImportInv'
<1>1. /\ exporter' = [step |-> "members", snapshot |-> s, members |-> Members(s)]
      /\ Members(s) # {}
      /\ bundles' = bundles /\ importer' = importer /\ target' = target
  BY DEF OpenExport
<1>2. Members(s) \subseteq Members(s)'
  BY SourceGrows DEF ImportInv, MerkleInv
<1>3. PICK M : M = Members(s)
  OBVIOUS
<1>4. exporter' = [step |-> "members", snapshot |-> s, members |-> M] /\ M # {} /\ M \subseteq Members(s)'
  BY <1>1, <1>2, <1>3
<1>5. ExportIsHonest'
  BY <1>4 DEF ExportIsHonest
<1> QED
  BY <1>1, <1>5, PartsStay DEF ImportInv

\* The files that are read next are honest.
LEMMA ReadEventsIsHonest ==
    ASSUME ImportInv, [Next]_vars, ReadEvents
    PROVE  ImportInv'
<1>1. /\ exporter.step = "members" /\ LogInv /\ MembersHaveRevisions
      /\ bundles' = bundles /\ importer' = importer /\ target' = target
  BY DEF ReadEvents, ImportInv, MerkleInv
<1>2. PICK M, s : M = exporter.members /\ s = exporter.snapshot
  OBVIOUS
<1>3. M # {} /\ M \subseteq Members(s)
  BY <1>1, <1>2 DEF ImportInv, ExportIsHonest
<1>4. PICK claims \in ClaimDocuments(M) : \E events \in {UNION {About(m[1]) : m \in M}} :
        exporter' = [step |-> "proofs", left |-> events, files |-> Documents(s, M, claims, events)]
  BY <1>2 DEF ReadEvents
<1>5. PICK events : events = UNION {About(m[1]) : m \in M}
  OBVIOUS
<1> DEFINE D == {Frontier, Events} \cup {ClaimPath(c) : c \in DOMAIN claims}
                  \cup {AttachedPath(a) : a \in AttachedTo(M)}
<1> DEFINE Content(path) ==
             CASE Role(path) = "frontier" -> [snapshot |-> s, members |-> M]
               [] Role(path) = "events" -> events
               [] Role(path) = "claim" -> claims[path[2]]
               [] Role(path) = "attached" -> LinksOf(path[2], M)
<1> DEFINE files == Documents(s, M, claims, events)
<1>6. exporter' = [step |-> "proofs", left |-> events, files |-> files]
  BY <1>4, <1>5
<1>7. Content(Frontier) = [snapshot |-> s, members |-> M] /\ Content(Events) = events
  BY PathsTell
<1>8. Frontier \in D /\ Events \in D
  OBVIOUS
<1>9. \A path \in D : Role(path) # "proof"
  BY PathsTell
<1>10. \A a \in AttachedTo(M) : AttachedPath(a) \in D
  OBVIOUS
<1>20. files = [path \in D |-> Content(path)]
  BY DEF Documents
<1> HIDE DEF Content, D, files
<1>11. DOMAIN files = D /\ \A path \in D : files[path] = Content(path)
  BY <1>20
<1>12. files[Frontier] = [snapshot |-> s, members |-> M] /\ files[Events] = events
  BY <1>7, <1>8, <1>11
<1>13. ASSUME NEW m \in M
       PROVE  /\ \A a \in Attached[m] : AttachedPath(a) \in DOMAIN files
              /\ \E w \in files[Events] :
                    Command(w).kind = "claim" /\ <<Command(w).claim, Command(w).revision>> = m
  <2>1. \A a \in Attached[m] : AttachedPath(a) \in DOMAIN files
    BY <1>10, <1>11 DEF AttachedTo
  <2>2. PICK w \in About(m[1]) : Command(w).kind = "claim" /\ <<Command(w).claim, Command(w).revision>> = m
    BY <1>1, <1>3, MembersHaveEvents
  <2>3. w \in files[Events]
    BY <1>5, <1>12
  <2> QED
    BY <2>1, <2>2, <2>3
<1>14. PathsOf(files, "proof") = {}
  BY <1>9, <1>11 DEF PathsOf
<1>15. FilesAreHonest(files)
  BY <1>3, <1>8, <1>11, <1>12, <1>13, <1>14 DEF FilesAreHonest
<1>16. PICK f : f = files
  OBVIOUS
<1>17. FilesAreHonest(f)'
  BY <1>1, <1>15, <1>16, HonestStays
<1>18. exporter' = [step |-> "proofs", left |-> events, files |-> f]
  BY <1>6, <1>16
<1>19. ExportIsHonest'
  BY <1>17, <1>18 DEF ExportIsHonest
<1> QED
  BY <1>1, <1>19, PartsStay DEF ImportInv

\* A proof that is exported names a checkpoint that was published.
LEMMA ExportProofIsHonest ==
    ASSUME ImportInv, [Next]_vars, NEW w \in Writers, ExportProof(w)
    PROVE  ImportInv'
<1>1. /\ exporter.step = "proofs" /\ LogInv /\ MerkleInv
      /\ bundles' = bundles /\ importer' = importer /\ target' = target
  BY DEF ExportProof, ImportInv, MerkleInv
<1>2. PICK old : old = exporter.files
  OBVIOUS
<1>3. {"step", "left", "files"} \subseteq DOMAIN exporter /\ FilesAreHonest(old)
  BY <1>1, <1>2 DEF ImportInv, ExportIsHonest
<1>4. PICK more \in IF Covering(w) = {} THEN {<< >>} ELSE {ProofFiles(w, k) : k \in Covering(w)} :
        exporter' = [exporter EXCEPT !.left = @ \ {w}, !.files = Adding(@, more)]
  BY DEF ExportProof
<1>5. PICK files : files = Adding(old, more)
  OBVIOUS
<1>6. {"step", "left", "files"} \subseteq DOMAIN exporter' /\ exporter'.step = "proofs" /\ exporter'.files = files
  BY <1>1, <1>2, <1>3, <1>4, <1>5
<1>7. ASSUME NEW path \in DOMAIN more, Role(path) = "proof"
      PROVE  more[path].checkpoint \in checkpoints /\ Len(more[path].proof.path) \in Nat
  <2>1. CASE Covering(w) = {}
    <3>1. more = << >>
      BY <1>4, <2>1
    <3>2. DOMAIN << >> = {}
      OBVIOUS
    <3> QED
      BY <3>1, <3>2
  <2>2. CASE Covering(w) # {}
    <3>1. PICK k \in Covering(w) : more = ProofFiles(w, k)
      BY <1>4, <2>2
    <3>2. k \in checkpoints
      BY DEF Covering
    <3> DEFINE proof == ServedProof(w, k)
    <3> DEFINE D == {CheckpointPath(k)} \cup (IF proof = NoProof THEN {} ELSE {ProofPath(w)})
    <3>3. more = [p \in D |-> IF Role(p) = "checkpoint" THEN k ELSE [checkpoint |-> k, proof |-> proof]]
      BY <3>1 DEF ProofFiles, ExportedProof
    <3> HIDE DEF proof
    <3>4. path \in D
      BY <1>7, <3>3
    <3>5. proof # NoProof
      BY <1>7, <3>4, PathsTell
    <3> HIDE DEF D
    <3>6. more[path] = [checkpoint |-> k, proof |-> proof]
      BY <1>7, <3>3, <3>4
    <3>7. Len(proof.path) \in Nat
      <4>1. PICK i \in 1 .. Len(k.range) : proof = InclusionProof(Leaves(k.range), i - 1)
        BY <1>1, <3>2, <3>5, ServedFromTheSigned DEF proof
      <4> DEFINE s == k.range
      <4>2. s \in Seq(Stored)
        BY <3>2 DEF ImportInv, MerkleInv, CheckpointsAreSigned
      <4> HIDE DEF s
      <4>3. IsList(Leaves(s)) /\ Len(Leaves(s)) = Len(s) /\ Len(s) \in Nat
        BY <4>2, LeavesOfARange
      <4>4. PICK j : j = i - 1
        OBVIOUS
      <4>5. j \in Nat /\ j < Len(Leaves(s))
        BY <4>1, <4>3, <4>4 DEF s
      <4>6. Len(InclusionProof(Leaves(s), j).path) \in Nat
        BY <4>3, <4>5, ProofsOfLeavesVerify
      <4> QED
        BY <4>1, <4>4, <4>6 DEF s
    <3> QED
      BY <3>2, <3>6, <3>7
  <2> QED
    BY <2>1, <2>2
<1>8. DOMAIN files = DOMAIN old \cup DOMAIN more /\ \A path \in DOMAIN old : files[path] = old[path]
  BY <1>5 DEF Adding
<1>9. \A path \in DOMAIN files : path \notin DOMAIN old => files[path] = more[path] /\ path \in DOMAIN more
  BY <1>5, <1>8 DEF Adding
<1>10. \A path \in PathsOf(files, "proof") :
          files[path].checkpoint \in checkpoints /\ Len(files[path].proof.path) \in Nat
  <2> TAKE path \in PathsOf(files, "proof")
  <2>1. path \in DOMAIN files /\ Role(path) = "proof"
    BY DEF PathsOf
  <2>2. CASE path \in DOMAIN old
    <3>1. path \in PathsOf(old, "proof")
      BY <2>1, <2>2 DEF PathsOf
    <3> QED
      BY <1>3, <1>8, <2>2, <3>1 DEF FilesAreHonest
  <2>3. CASE path \notin DOMAIN old
    BY <1>7, <1>9, <2>1, <2>3
  <2> QED
    BY <2>2, <2>3
<1>11. FilesAreHonest(files)
  <2>1. Frontier \in DOMAIN old /\ Events \in DOMAIN old
    BY <1>3 DEF FilesAreHonest
  <2>2. files[Frontier] = old[Frontier] /\ files[Events] = old[Events] /\ DOMAIN old \subseteq DOMAIN files
    BY <1>8, <2>1
  <2> QED
    BY <1>3, <1>10, <2>1, <2>2 DEF FilesAreHonest
<1>12. FilesAreHonest(files)'
  BY <1>1, <1>11, HonestStays
<1>13. ExportIsHonest'
  BY <1>6, <1>12 DEF ExportIsHonest
<1> QED
  BY <1>1, <1>13, PartsStay DEF ImportInv

\* The bundle lists the files that were written.
LEMMA FinishExportIsHonest ==
    ASSUME ImportInv, [Next]_vars, FinishExport
    PROVE  ImportInv'
<1>1. /\ exporter.step = "proofs" /\ LogInv /\ exporter' = NoExport
      /\ importer' = importer /\ target' = target
  BY DEF FinishExport, ImportInv, MerkleInv
<1>2. PICK files : files = exporter.files
  OBVIOUS
<1>3. FilesAreHonest(files)'
  <2>1. FilesAreHonest(files)
    BY <1>1, <1>2 DEF ImportInv, ExportIsHonest
  <2> QED
    BY <1>1, <2>1, HonestStays
<1>4. bundles' = bundles \cup {[files |-> files, listed |-> DOMAIN files]}
  BY <1>2 DEF FinishExport
<1>5. ASSUME NEW b \in bundles
      PROVE  b = [files |-> b.files, listed |-> DOMAIN b.files] /\ FilesAreHonest(b.files)'
  <2>1. b = [files |-> b.files, listed |-> DOMAIN b.files] /\ FilesAreHonest(b.files)
    BY <1>5 DEF ImportInv, BundlesAreHonest
  <2> DEFINE f == b.files
  <2>2. FilesAreHonest(f)
    BY <2>1
  <2> HIDE DEF f
  <2>3. FilesAreHonest(f)'
    BY <1>1, <2>2, HonestStays
  <2> QED
    BY <2>1, <2>3 DEF f
<1>6. BundlesAreHonest'
  <2> DEFINE b == [files |-> files, listed |-> DOMAIN files]
  <2>1. b.files = files /\ b.listed = DOMAIN files
    OBVIOUS
  <2>2. b = [files |-> b.files, listed |-> DOMAIN b.files] /\ FilesAreHonest(b.files)'
    BY <1>3, <2>1
  <2> HIDE DEF b
  <2>3. \A c \in bundles' : c = b \/ c \in bundles
    BY <1>4 DEF b
  <2>4. \A c \in bundles' : c = [files |-> c.files, listed |-> DOMAIN c.files] /\ FilesAreHonest(c.files)'
    BY <1>5, <2>2, <2>3
  <2> QED
    BY <2>4 DEF BundlesAreHonest
<1>7. ExportIsHonest'
  BY <1>1 DEF NoExport, ExportIsHonest
<1> QED
  BY <1>1, <1>6, <1>7, PartsStay DEF ImportInv

\* A copy that lacks a file does not agree with its manifest.
LEMMA CopiesAreWhole ==
    ASSUME NEW b, b = [files |-> b.files, listed |-> DOMAIN b.files],
           NEW copy \in Copies(b), ManifestHolds(copy)
    PROVE  copy = b
<1>1. CASE copy = b
  BY <1>1
<1>2. CASE copy # b
  <2>1. PICK lost \in DOMAIN b.files :
           copy = [b EXCEPT !.files = Restrict(b.files, DOMAIN b.files \ {lost})]
    BY <1>2 DEF Copies
  <2> DEFINE f == Restrict(b.files, DOMAIN b.files \ {lost})
  <2>2. DOMAIN f = DOMAIN b.files \ {lost}
    BY DEF Restrict
  <2> HIDE DEF f
  <2>3. DOMAIN b = {"files", "listed"} /\ b.listed = DOMAIN b.files
    OBVIOUS
  <2>4. copy.files = f /\ copy.listed = b.listed
    BY <2>1, <2>3 DEF f
  <2>5. copy.listed = DOMAIN copy.files
    BY DEF ManifestHolds
  <2> QED
    BY <2>2, <2>3, <2>4, <2>5
<1> QED
  BY <1>1, <1>2

\* What passes the precheck was exported as it is, and each of its events has
\* a proof that verifies.
LEMMA PrecheckIsHonest ==
    ASSUME ImportInv, [Next]_vars, NEW i \in Importers, Precheck(i)
    PROVE  ImportInv'
<1>1. LogInv /\ exporter' = exporter /\ bundles' = bundles /\ target' = target
  BY DEF Precheck, ImportInv, MerkleInv
<1>2. PICK b \in bundles : \E copy \in Copies(b) :
        importer' = [importer EXCEPT ![i] = IF Verified(copy) /\ ~Conflicts(copy.files)
                                            THEN [step |-> "ready", files |-> copy.files]
                                            ELSE [step |-> "refused"]]
  BY DEF Precheck
<1>12. PICK copy \in Copies(b) :
        importer' = [importer EXCEPT ![i] = IF Verified(copy) /\ ~Conflicts(copy.files)
                                            THEN [step |-> "ready", files |-> copy.files]
                                            ELSE [step |-> "refused"]]
  BY <1>2
<1>3. PICK row : /\ importer' = [importer EXCEPT ![i] = row]
                 /\ row.step # "ready" \/ (Verified(copy) /\ row.files = copy.files)
  <2> DEFINE row == IF Verified(copy) /\ ~Conflicts(copy.files)
                    THEN [step |-> "ready", files |-> copy.files] ELSE [step |-> "refused"]
  <2>1. row.step # "ready" \/ (Verified(copy) /\ row.files = copy.files)
    OBVIOUS
  <2>2. importer' = [importer EXCEPT ![i] = row]
    BY <1>12
  <2> HIDE DEF row
  <2> QED
    BY <2>1, <2>2
<1>4. ASSUME row.step = "ready"
      PROVE  FilesAreHonest(row.files)' /\ EventsAreProved(row.files)
  <2>1. b = [files |-> b.files, listed |-> DOMAIN b.files] /\ FilesAreHonest(b.files)
    BY DEF ImportInv, BundlesAreHonest
  <2>2. ManifestHolds(copy) /\ EventsAreProved(copy.files) /\ row.files = copy.files
    BY <1>3, <1>4 DEF Verified
  <2>3. copy = b
    BY <2>1, <2>2, CopiesAreWhole
  <2> DEFINE f == row.files
  <2>4. FilesAreHonest(f) /\ EventsAreProved(f)
    BY <2>1, <2>2, <2>3
  <2> HIDE DEF f
  <2>5. FilesAreHonest(f)'
    BY <1>1, <2>4, HonestStays
  <2> QED
    BY <2>4, <2>5 DEF f
<1>5. PICK t : t = importer
  OBVIOUS
<1>6. ImportersAreHonest
  BY DEF ImportInv
<1>13. PICK u : u = importer'
  OBVIOUS
<1>7. t = [j \in Importers |-> t[j]] /\ u = [t EXCEPT ![i] = row]
  BY <1>3, <1>5, <1>6, <1>13 DEF ImportersAreHonest
<1>8. u = [j \in Importers |-> u[j]]
  BY <1>7
<1>9. u[i] = row /\ \A j \in Importers : j # i => u[j] = t[j]
  BY <1>7
<1>10. ASSUME NEW j \in Importers, u[j].step = "ready"
       PROVE  FilesAreHonest(u[j].files)' /\ EventsAreProved(u[j].files)
  <2>1. CASE j = i
    BY <1>4, <1>9, <1>10, <2>1
  <2>2. CASE j # i
    <3> DEFINE f == t[j].files
    <3>1. u[j] = t[j]
      BY <1>9, <2>2
    <3>2. FilesAreHonest(f) /\ EventsAreProved(f)
      BY <1>5, <1>6, <1>10, <3>1 DEF ImportersAreHonest
    <3> HIDE DEF f
    <3>3. FilesAreHonest(f)'
      BY <1>1, <3>2, HonestStays
    <3> QED
      BY <3>1, <3>2, <3>3 DEF f
  <2> QED
    BY <2>1, <2>2
<1>11. ImportersAreHonest'
  BY <1>8, <1>10, <1>13 DEF ImportersAreHonest
<1> QED
  BY <1>1, <1>11, PartsStay DEF ImportInv

\* Each event of a bundle that is verified stands in the range of a checkpoint
\* that comes with it.
LEMMA ProvedEventsAreCovered ==
    ASSUME MerkleInv, NEW files, FilesAreHonest(files), EventsAreProved(files), NEW w \in files[Events]
    PROVE  \E k \in CheckpointRows(files) : w \in ToSet(k.range)
<1> DEFINE path == ProofPath(w)
<1> DEFINE k == files[path].checkpoint
<1> DEFINE proof == files[path].proof
<1>1. path \in DOMAIN files
  BY DEF EventsAreProved, Has
<1>2. path \in PathsOf(files, "proof") /\ path[2] = w
  BY <1>1, PathsTell DEF PathsOf
<1>3. ProofHolds(files, path)
  BY <1>2 DEF EventsAreProved
<1>4. VerifyProof(proof) /\ proof.root = k.root /\ proof.leaf = Leaf(w) /\ CheckpointPath(k) \in DOMAIN files
  BY <1>2, <1>3 DEF ProofHolds, Has
<1>5. k \in checkpoints /\ Len(proof.path) \in Nat
  BY <1>2 DEF FilesAreHonest
<1> HIDE DEF k, proof, path
<1>6. k \in CheckpointRows(files)
  BY <1>4, PathsTell DEF CheckpointRows, PathsOf
<1> DEFINE s == k.range
<1>7. s \in Seq(Stored) /\ 1 <= Len(s) /\ k.root = Root(Leaves(s))
  BY <1>5 DEF MerkleInv, CheckpointsAreSigned
<1> HIDE DEF s
<1>8. /\ IsList(Leaves(s)) /\ AreLeaves(Leaves(s)) /\ Len(Leaves(s)) = Len(s)
      /\ ToSet(Leaves(s)) = {Leaf(s[i]) : i \in 1 .. Len(s)}
  BY <1>7, LeavesOfARange
<1>9. Leaf(w) \in ToSet(Leaves(s))
  <2>1. 1 <= Len(Leaves(s)) /\ proof.root = Root(Leaves(s))
    BY <1>4, <1>7, <1>8
  <2> QED
    BY <1>4, <1>5, <1>8, <2>1, VerifiedIsCommitted
<1>10. PICK i \in 1 .. Len(s) : s[i] = w
  BY <1>8, <1>9 DEF Leaf
<1>11. DOMAIN s = 1 .. Len(s)
  BY <1>7
<1>12. w \in ToSet(s)
  BY <1>10, <1>11 DEF ToSet
<1> QED
  BY <1>6, <1>12 DEF s

\* An import leaves the other instance whole.
LEMMA ImportIsWhole ==
    ASSUME ImportInv, [Next]_vars, NEW i \in Importers, Import(i)
    PROVE  ImportInv'
<1>1. LogInv /\ MerkleInv /\ exporter' = exporter /\ bundles' = bundles /\ importer[i].step = "ready"
  BY DEF Import, ImportInv, MerkleInv
<1>9. PICK t, u : t = importer /\ u = importer'
  OBVIOUS
<1>2. PICK row : u = [t EXCEPT ![i] = row] /\ row.step # "ready"
  <2>1. \/ u = [t EXCEPT ![i] = [step |-> "imported"]]
        \/ u = [t EXCEPT ![i] = [step |-> "failed"]]
    BY <1>9 DEF Import
  <2>2. [step |-> "imported"].step # "ready" /\ [step |-> "failed"].step # "ready"
    OBVIOUS
  <2> QED
    BY <2>1, <2>2
<1>3. ImportersAreHonest
  BY DEF ImportInv
<1>4. t = [j \in Importers |-> t[j]]
  BY <1>3, <1>9 DEF ImportersAreHonest
<1>5. u = [j \in Importers |-> u[j]]
  BY <1>2, <1>4
<1>6. ASSUME NEW j \in Importers, u[j].step = "ready"
      PROVE  FilesAreHonest(u[j].files)' /\ EventsAreProved(u[j].files)
  <2>1. u[j] = t[j]
    BY <1>2, <1>4, <1>6
  <2> DEFINE f == t[j].files
  <2>2. FilesAreHonest(f) /\ EventsAreProved(f)
    BY <1>3, <1>6, <1>9, <2>1 DEF ImportersAreHonest
  <2> HIDE DEF f
  <2>3. FilesAreHonest(f)'
    BY <1>1, <2>2, HonestStays
  <2> QED
    BY <2>1, <2>2, <2>3 DEF f
<1>7. ImportersAreHonest'
  BY <1>5, <1>6, <1>9 DEF ImportersAreHonest
<1>8. ImportsAreWhole'
  <2>1. CASE target' = target
    BY <2>1, PartsStay
  <2>2. CASE ReferencesResolve(importer[i].files) /\ target' = Restored(importer[i].files)
    <3>1. PICK files : files = importer[i].files
      OBVIOUS
    <3>2. FilesAreHonest(files) /\ EventsAreProved(files) /\ ImportsAreWhole
      BY <1>1, <1>3, <3>1 DEF ImportersAreHonest, ImportInv
    <3> DEFINE s == files[Frontier].snapshot
    <3> DEFINE M == files[Frontier].members
    <3>3. target' = Restored(files) /\ M \subseteq target.revisions \cup ClaimRows(files)
      BY <2>2, <3>1 DEF ReferencesResolve
    <3>4. /\ target'.snapshots = target.snapshots \cup {s}
          /\ target'.members = target.members \cup ({s} \X M)
          /\ target'.revisions = target.revisions \cup ClaimRows(files)
          /\ target'.attached = target.attached \cup AttachedRows(files)
          /\ target'.events = target.events \cup files[Events]
          /\ target'.checkpoints = target.checkpoints \cup CheckpointRows(files)
      BY <3>3 DEF Restored
    <3>5. /\ M # {} /\ M \subseteq Members(s)
          /\ \A m \in M : /\ \A a \in Attached[m] : AttachedPath(a) \in DOMAIN files
                          /\ \E w \in files[Events] : /\ Command(w).kind = "claim"
                                                      /\ <<Command(w).claim, Command(w).revision>> = m
      BY <3>2 DEF FilesAreHonest
    <3> HIDE DEF s, M
    <3>6. (\A w : Command(w)' = Command(w)) /\ \A r : Members(r) \subseteq Members(r)'
      BY <1>1, SourceGrows
    <3>7. ASSUME NEW m \in target'.members
          PROVE  /\ m[2] \in Members(m[1])'
                 /\ m[2] \in target'.revisions
                 /\ Attached[m[2]] \subseteq target'.attached
                 /\ \E w \in target'.events :
                       /\ Command(w)'.kind = "claim"
                       /\ <<Command(w)'.claim, Command(w)'.revision>> = m[2]
      <4>1. CASE m \in target.members
        <5>1. /\ m[2] \in Members(m[1]) /\ m[2] \in target.revisions
              /\ Attached[m[2]] \subseteq target.attached
              /\ \E w \in target.events : /\ Command(w).kind = "claim"
                                          /\ <<Command(w).claim, Command(w).revision>> = m[2]
          BY <3>2, <4>1 DEF ImportsAreWhole
        <5> QED
          BY <3>4, <3>6, <5>1
      <4>2. CASE m \in {s} \X M
        <5>1. m[1] = s /\ m[2] \in M
          BY <4>2
        <5>2. m[2] \in Members(m[1])' /\ m[2] \in target'.revisions
          BY <3>3, <3>4, <3>5, <3>6, <5>1
        <5>3. Attached[m[2]] \subseteq AttachedRows(files)
          BY <3>5, <5>1, PathsTell DEF AttachedRows, PathsOf
        <5>4. \E w \in files[Events] : /\ Command(w).kind = "claim"
                                       /\ <<Command(w).claim, Command(w).revision>> = m[2]
          BY <3>5, <5>1
        <5> QED
          BY <3>4, <3>6, <5>2, <5>3, <5>4
      <4> QED
        BY <3>4, <4>1, <4>2
    <3>8. \A r \in target'.snapshots : \E m \in target'.members : m[1] = r
      <4> TAKE r \in target'.snapshots
      <4>1. CASE r \in target.snapshots
        BY <3>2, <3>4, <4>1 DEF ImportsAreWhole
      <4>2. CASE r = s
        <5>1. PICK c \in M : TRUE
          BY <3>5
        <5>2. <<s, c>> \in target'.members
          BY <3>4
        <5> QED
          BY <4>2, <5>2
      <4> QED
        BY <3>4, <4>1, <4>2
    <3>9. \A w \in target'.events : \E k \in target'.checkpoints : w \in ToSet(k.range)
      <4> TAKE w \in target'.events
      <4>1. CASE w \in target.events
        BY <3>2, <3>4, <4>1 DEF ImportsAreWhole
      <4>2. CASE w \in files[Events]
        BY <1>1, <3>2, <3>4, <4>2, ProvedEventsAreCovered
      <4> QED
        BY <3>4, <4>1, <4>2
    <3> QED
      BY <3>7, <3>8, <3>9 DEF ImportsAreWhole
  <2> QED
    BY <2>1, <2>2 DEF Import
<1> QED
  BY <1>1, <1>7, <1>8, PartsStay DEF ImportInv

\* In the beginning nothing is exported, and every member has its revision.
LEMMA InitImport == Init => ImportInv
<1> SUFFICES ASSUME Init
             PROVE  ImportInv
  OBVIOUS
<1>1. MerkleInv /\ script \in Scripts
  BY InitLog DEF Init, MerkleInv, CheckpointsAreSigned
<1>2. PICK n \in Nat : n = script.given /\ n <= Len(script.commands)
  BY <1>1, WritersAreCommands
<1>3. Writers = 1 .. Len(script.commands) /\ Len(script.commands) \in Nat
  BY <1>1, WritersAreCommands
<1>4. \A w \in Writers : /\ w <= n => writer[w].phase = "stored"
                         /\ ~(w <= n) => writer[w].phase = "new"
  BY <1>2 DEF Init
<1>5. MembersHaveRevisions
  <2>1. SUFFICES ASSUME NEW w \in Writers, Command(w).kind = "member", writer[w].phase \in Named
                 PROVE  <<Command(w).claim, Command(w).revision>> \in Revisions
    BY DEF MembersHaveRevisions
  <2>2. w \in 1 .. n
    BY <1>3, <1>4, <2>1 DEF Named
  <2> DEFINE earlier(kind) == {v \in 1 .. w - 1 : script.commands[v].kind = kind}
  <2>3. \E v \in earlier("claim") : /\ script.commands[v].claim = script.commands[w].claim
                                    /\ script.commands[v].revision = script.commands[w].revision
    BY <1>1, <1>2, <2>1, <2>2, ScriptsAreHistories DEF Command
  <2>4. PICK v \in 1 .. w - 1 : /\ Command(v).kind = "claim" /\ Command(v).claim = Command(w).claim
                                /\ Command(v).revision = Command(w).revision
    BY <2>3 DEF Command
  <2>5. v \in Writers /\ v <= n
    BY <1>2, <1>3, <2>2
  <2>6. v \in Stored
    BY <1>4, <2>5 DEF Stored
  <2>7. v \in Of("claim")
    BY <2>4, <2>6 DEF Of
  <2>8. <<Command(v).claim, Command(v).revision>> \in Revisions
    BY <2>7 DEF Revisions
  <2> QED
    BY <2>4, <2>8
<1>6. ExportIsHonest /\ BundlesAreHonest
  BY DEF Init, ExportIsHonest, BundlesAreHonest, NoExport
<1>7. ImportersAreHonest
  BY DEF Init, ImportersAreHonest
<1>8. ImportsAreWhole
  BY DEF Init, ImportsAreWhole, EmptyInstance
<1> QED
  BY <1>1, <1>5, <1>6, <1>7, <1>8 DEF ImportInv

\* Exports stay honest while transactions, the worker and other imports go on.
THEOREM ExportsAreHonest == Spec => []ImportInv
<1>1. ASSUME ImportInv, [Next]_vars
      PROVE  ImportInv'
  <2>1. CASE \E w \in Writers : Moves(w)
    <3>1. exporter' = exporter /\ bundles' = bundles /\ importer' = importer /\ target' = target
      BY <2>1 DEF Moves, Begin, MakeEvent, Insert, Commit, Abort
    <3> QED
      BY <1>1, <3>1, PartsStay DEF ImportInv
  <2>2. CASE \E w \in Writers : ExportProof(w)
    BY <1>1, <2>2, ExportProofIsHonest
  <2>3. CASE (\E v, w \in Stored : CreateCheckpoint(v, w)) \/ (\E k \in checkpoints : ImportWitness(k)) \/ ListEvents
    <3>1. exporter' = exporter /\ bundles' = bundles /\ importer' = importer /\ target' = target
      BY <2>3 DEF CreateCheckpoint, ImportWitness, ListEvents
    <3> QED
      BY <1>1, <3>1, PartsStay DEF ImportInv
  <2>4. CASE \E s \in Snapshots : OpenExport(s)
    BY <1>1, <2>4, OpenExportIsHonest
  <2>5. CASE ReadEvents
    BY <1>1, <2>5, ReadEventsIsHonest
  <2>6. CASE FinishExport
    BY <1>1, <2>6, FinishExportIsHonest
  <2>7. CASE \E i \in Importers : Precheck(i) \/ Import(i)
    BY <1>1, <2>7, PrecheckIsHonest, ImportIsWhole
  <2>8. CASE UNCHANGED vars
    <3>1. exporter' = exporter /\ bundles' = bundles /\ importer' = importer /\ target' = target
      BY <2>8 DEF vars
    <3> QED
      BY <1>1, <3>1, PartsStay DEF ImportInv
  <2> QED
    BY <1>1, <2>1, <2>2, <2>3, <2>4, <2>5, <2>6, <2>7, <2>8 DEF Next, Moves
<1> QED
  BY <1>1, InitImport, PTL DEF Spec

\* A Frontier in the other instance is whole: its members are members at the
\* source, their revisions, what is attached to them and their events came
\* with them, and every imported event stands in the range of an imported
\* checkpoint (the exporter, the offline verifier and the importer).
THEOREM ImportsAreAlwaysWhole == Spec => []ImportsAreWhole
<1>1. ImportInv => ImportsAreWhole
  BY DEF ImportInv
<1> QED
  BY <1>1, ExportsAreHonest, PTL

-----------------------------------------------------------------------------
(***************************************************************************)
(* The delivery of frontiers to their mirror, by passes that overlap,      *)
(* fail, crash or lose answers.                                            *)
(***************************************************************************)

\* The rows, the passes and the mirror keep their types.
TypeOK ==
    /\ job \in [Jobs -> JobRow]
    /\ worker \in [Workers -> Pass]
    /\ assets \in SUBSET Jobs
    /\ receipts \in [Jobs -> Nat]

Holds(w, j) == j \in worker[w].held \/ worker[w].current = j

\* A pass has a job in hand while it makes its calls, and none that it has yet
\* to look at once it is over.
PassesAreWellFormed ==
    \A w \in Workers :
        /\ worker[w].step \in {"idle", "next"} <=> worker[w].current = NoJob
        /\ worker[w].step = "idle" => worker[w].held = {}
        /\ worker[w].current \notin worker[w].held

HoldersAreSole ==
    \A j \in Jobs : \A v, w \in Workers : Holds(v, j) /\ Holds(w, j) => v = w

\* Only the holder of a job changes its row; the answer to an acknowledgement
\* may be lost.
HeldAreProcessing ==
    \A w \in Workers : \A j \in Jobs :
        /\ j \in worker[w].held => job[j].status = "processing"
        /\ worker[w].current = j =>
              \/ job[j].status = "processing"
              \/ job[j].status = "processed" /\ worker[w].step = "failed"

AttemptsAreCounted ==
    \A j \in Jobs : job[j].status = "dead_letter" <=> job[j].attempts = MaxAttempts

\* Before this attempt has stored its receipt, each receipt is paid for by an
\* attempt that was counted.
Unpaid(w, j) ==
    \/ j \in worker[w].held
    \/ worker[w].current = j /\ worker[w].step \in {"export", "release", "asset", "receipt"}

ReceiptsAreCounted ==
    \A j \in Jobs :
        /\ receipts[j] <= job[j].attempts + 1
        /\ job[j].status \notin {"processing", "processed"} => receipts[j] <= job[j].attempts
        /\ \A w \in Workers : Unpaid(w, j) => receipts[j] <= job[j].attempts

\* What the calls of the job in hand have left behind.
CallsHaveEffects ==
    \A w \in Workers :
        /\ worker[w].step \in {"receipt", "ack"} => worker[w].current \in assets
        /\ worker[w].step = "ack" => receipts[worker[w].current] >= 1

\* What every step keeps beside the types.
Kept ==
    /\ PassesAreWellFormed
    /\ HoldersAreSole
    /\ HeldAreProcessing
    /\ AttemptsAreCounted
    /\ ReceiptsAreCounted
    /\ CallsHaveEffects
    /\ ProcessedIsMirrored

-----------------------------------------------------------------------------
\* The delay after a failure fits its column, whatever the backoff computes.
LEMMA WaitType ==
    ASSUME NEW w, worker[w].age \in 0 .. MaxDelay, NEW n \in Nat
    PROVE  WaitAfter(w, n) \in 0 .. MaxDelay
<1>1. Backoff(n) \in Int /\ Backoff(n) <= MaxDelay
  <2>1. BaseDelay * 2^n \in Int /\ MaxDelay \in Nat
    BY OptionsAreValid
  <2> QED
    BY <2>1 DEF Backoff, Smaller
<1> QED
  BY <1>1, OptionsAreValid DEF WaitAfter

\* A pass that goes on to another of its calls keeps its type.
LEMMA AdvanceType ==
    ASSUME TypeOK, NEW w \in Workers, NEW from,
           NEW to \in {"release", "asset", "receipt", "ack", "failed"}, Advance(w, from, to)
    PROVE  worker' \in [Workers -> Pass]
BY DEF TypeOK, Advance, Pass

\* A pass that is over has the type of one.
LEMMA NoPassType == NoPass \in Pass
BY OptionsAreValid DEF NoPass, Pass

\* Attempts stay within their bound because a job in hand was not
\* dead-lettered: types need the counting.
LEMMA TypeStep ==
    TypeOK /\ PassesAreWellFormed /\ HeldAreProcessing /\ AttemptsAreCounted
      /\ [OutboxNext]_outboxVars => TypeOK'
<1> SUFFICES ASSUME TypeOK, PassesAreWellFormed, HeldAreProcessing, AttemptsAreCounted,
                    [OutboxNext]_outboxVars
             PROVE  TypeOK'
  OBVIOUS
<1> USE OptionsAreValid
<1>0. /\ job \in [Jobs -> JobRow] /\ worker \in [Workers -> Pass]
      /\ assets \in SUBSET Jobs /\ receipts \in [Jobs -> Nat]
  BY DEF TypeOK
<1>a. \A w \in Workers : worker[w].step \notin {"idle", "next"} => worker[w].current \in Jobs
  BY <1>0 DEF PassesAreWellFormed, Pass
<1>1. ASSUME NEW j \in Jobs, Publish(j) PROVE TypeOK'
  BY <1>0, <1>1 DEF TypeOK, Publish, JobRow
<1>2. ASSUME NEW w \in Workers, StartPass(w) PROVE TypeOK'
  <2>1. PICK claimed \in SUBSET Due, client \in Clients :
          /\ job' = [j \in Jobs |-> IF j \in claimed
                                    THEN [job[j] EXCEPT !.status = "processing"]
                                    ELSE job[j]]
          /\ worker' = [worker EXCEPT ![w] = [NoPass EXCEPT !.step = "next",
                                                !.held = claimed, !.client = client]]
    BY <1>2 DEF StartPass
  <2>2. claimed \subseteq Jobs /\ client \in BOOLEAN
    BY ClientsAreBoolean DEF Due
  <2>3. job' \in [Jobs -> JobRow]
    BY <1>0, <2>1 DEF JobRow
  <2>4. [NoPass EXCEPT !.step = "next", !.held = claimed, !.client = client] \in Pass
    BY <2>2, NoPassType DEF Pass
  <2> QED
    BY <1>0, <1>2, <2>1, <2>3, <2>4 DEF TypeOK, StartPass
<1>3. ASSUME NEW w \in Workers, NEW j \in Jobs, TakeJob(w, j) PROVE TypeOK'
  BY <1>0, <1>3 DEF TypeOK, TakeJob, Pass
<1>4. ASSUME NEW w \in Workers, NEW j \in Jobs, SkipJob(w, j) PROVE TypeOK'
  <2>1. job' \in [Jobs -> JobRow]
    <3>1. [job EXCEPT ![j].status = "pending", ![j].wait = 0] \in [Jobs -> JobRow]
      <4>1. 0 \in 0 .. MaxDelay
        OBVIOUS
      <4> QED
        BY <1>0, <4>1 DEF JobRow
    <3> QED
      BY <1>0, <1>4, <3>1 DEF SkipJob
  <2>2. worker' \in [Workers -> Pass]
    BY <1>0, <1>4 DEF SkipJob, Pass
  <2> QED
    BY <1>0, <1>4, <2>1, <2>2 DEF TypeOK, SkipJob
<1>5. ASSUME NEW w \in Workers, EndPass(w) \/ Abandon(w) \/ SettleRefused(w) PROVE TypeOK'
  BY <1>0, <1>5, NoPassType DEF TypeOK, EndPass, Abandon, SettleRefused
<1>6. ASSUME NEW w \in Workers, Export(w) \/ CreateRelease(w) \/ CallFails(w) PROVE TypeOK'
  BY <1>0, <1>6, AdvanceType DEF TypeOK, Export, CreateRelease, CallFails
<1>7. ASSUME NEW w \in Workers, UploadAsset(w) PROVE TypeOK'
  <2>1. worker' \in [Workers -> Pass]
    BY <1>7, AdvanceType DEF UploadAsset
  <2> QED
    BY <1>0, <1>a, <1>7, <2>1 DEF TypeOK, UploadAsset, Advance
<1>8. ASSUME NEW w \in Workers, InsertReceipt(w) PROVE TypeOK'
  <2>1. worker' \in [Workers -> Pass]
    BY <1>8, AdvanceType DEF InsertReceipt
  <2>2. receipts' \in [Jobs -> Nat]
    BY <1>0, <1>a, <1>8, SMTT(30) DEF InsertReceipt, Advance
  <2> QED
    BY <1>0, <1>8, <2>1, <2>2, SMTT(30) DEF TypeOK, InsertReceipt
<1>9. ASSUME NEW w \in Workers, Acknowledge(w) PROVE TypeOK'
  <2>1. job' \in [Jobs -> JobRow]
    BY <1>0, <1>9, ZenonT(30) DEF Acknowledge, JobRow, Terminal
  <2>2. /\ [worker EXCEPT ![w].step = "next", ![w].current = NoJob] \in [Workers -> Pass]
        /\ [worker EXCEPT ![w].step = "failed"] \in [Workers -> Pass]
    BY <1>0 DEF Pass
  <2> QED
    BY <1>0, <1>9, <2>1, <2>2 DEF TypeOK, Acknowledge
<1>10. ASSUME NEW w \in Workers, Settle(w) PROVE TypeOK'
  <2> DEFINE j == worker[w].current
             n == job[j].attempts
             settled == IF AtLimit(n)
                        THEN [status |-> "dead_letter", attempts |-> n + 1, wait |-> 0]
                        ELSE [status |-> "pending", attempts |-> n + 1, wait |-> WaitAfter(w, n)]
  <2>1. job' \in [Jobs -> JobRow]
    <3>1. j \in Jobs /\ job[j].status = "processing"
      BY <1>a, <1>10 DEF Settle, StillProcessing
    <3>2. n \in Nat /\ n < MaxAttempts
      BY <1>0, <3>1 DEF AttemptsAreCounted, JobRow
    <3>3. WaitAfter(w, n) \in 0 .. MaxDelay
      BY <1>0, <3>2, WaitType DEF Pass
    <3>4. settled \in JobRow
      <4>1. n + 1 \in 0 .. MaxAttempts /\ 0 \in 0 .. MaxDelay
        BY <3>2
      <4> QED
        BY <3>3, <4>1 DEF JobRow, Terminal
    <3>5. job' = [job EXCEPT ![j] = settled]
      BY <1>10 DEF Settle
    <3> QED
      BY <1>0, <3>4, <3>5
  <2>2. /\ [worker EXCEPT ![w].step = "next", ![w].current = NoJob] \in [Workers -> Pass]
        /\ [worker EXCEPT ![w] = NoPass] \in [Workers -> Pass]
    BY <1>0, NoPassType DEF Pass
  <2> QED
    BY <1>0, <1>10, <2>1, <2>2 DEF TypeOK, Settle
<1>11. CASE Tick
  <2>1. job' \in [Jobs -> JobRow]
    <3>1. \A j \in Jobs : (IF job[j].wait = 0 THEN 0 ELSE job[j].wait - 1) \in 0 .. MaxDelay
      BY <1>0 DEF JobRow
    <3>2. \A j \in Jobs :
             [job[j] EXCEPT !.wait = IF job[j].wait = 0 THEN 0 ELSE job[j].wait - 1] \in JobRow
      BY <1>0, <3>1 DEF JobRow
    <3> QED
      BY <1>11, <3>2 DEF Tick
  <2>2. \A w \in Workers : worker'[w] \in Pass
    <3> SUFFICES ASSUME NEW w \in Workers PROVE worker'[w] \in Pass
      OBVIOUS
    <3>1. Smaller(worker[w].age + 1, MaxDelay) \in 0 .. MaxDelay
      BY <1>0 DEF Smaller, Pass
    <3>2. worker'[w] = worker[w]
            \/ worker'[w] = [worker[w] EXCEPT !.age = Smaller(worker[w].age + 1, MaxDelay)]
      BY <1>11 DEF Tick
    <3> QED
      BY <1>0, <3>1, <3>2 DEF Pass
  <2> QED
    BY <1>0, <1>11, <2>1, <2>2 DEF TypeOK, Tick
<1>12. CASE UNCHANGED outboxVars
  BY <1>0, <1>12 DEF TypeOK, outboxVars
<1> QED
  BY <1>1, <1>2, <1>3, <1>4, <1>5, <1>6, <1>7, <1>8, <1>9, <1>10, <1>11, <1>12
     DEF OutboxNext, Work

-----------------------------------------------------------------------------
\* Each action keeps each part: a pass changes only rows that it holds, and it
\* holds no row that another pass holds.
LEMMA KeptStep == TypeOK /\ Kept /\ [OutboxNext]_outboxVars => Kept'
<1> SUFFICES ASSUME TypeOK, Kept, [OutboxNext]_outboxVars PROVE Kept'
  OBVIOUS
<1> USE OptionsAreValid, JobsAreKinded
<1>0. /\ job \in [Jobs -> JobRow] /\ worker \in [Workers -> Pass]
      /\ assets \in SUBSET Jobs /\ receipts \in [Jobs -> Nat]
      /\ \A j \in Jobs : /\ job[j].attempts \in 0 .. MaxAttempts /\ receipts[j] \in Nat
                         /\ job[j] = [status |-> job[j].status, attempts |-> job[j].attempts,
                                       wait |-> job[j].wait]
      /\ \A w \in Workers : worker[w].held \subseteq Jobs /\ worker[w].current \in Jobs \cup {NoJob}
  BY DEF TypeOK, JobRow, Pass
<1>1. ASSUME NEW j \in Jobs, Publish(j) PROVE Kept'
  <2>1. /\ job[j].status = "unpublished" /\ job'[j].status = "pending"
        /\ job'[j].attempts = job[j].attempts
        /\ \A i \in Jobs : i # j => job'[i] = job[i]
        /\ UNCHANGED <<worker, assets, receipts>>
    BY <1>0, <1>1 DEF Publish, JobRow
  <2>2. PassesAreWellFormed'
    BY <1>0, <2>1 DEF Kept, PassesAreWellFormed
  <2>3. HoldersAreSole'
    BY <1>0, <2>1 DEF Kept, HoldersAreSole, Holds
  <2>4. HeldAreProcessing'
    BY <1>0, <2>1 DEF Kept, HeldAreProcessing, HoldersAreSole, PassesAreWellFormed, Holds
  <2>5. AttemptsAreCounted'
    BY <1>0, <2>1 DEF Kept, AttemptsAreCounted, HeldAreProcessing
  <2>6. ReceiptsAreCounted'
    BY <1>0, <2>1
       DEF Kept, ReceiptsAreCounted, HeldAreProcessing, HoldersAreSole, PassesAreWellFormed,
           Holds, Unpaid
  <2>7. CallsHaveEffects'
    BY <1>0, <2>1 DEF Kept, CallsHaveEffects, PassesAreWellFormed, HoldersAreSole, Holds
  <2>8. ProcessedIsMirrored'
    BY <1>0, <2>1 DEF Kept, ProcessedIsMirrored
  <2> QED
    BY <2>2, <2>3, <2>4, <2>5, <2>6, <2>7, <2>8 DEF Kept
<1>2. ASSUME NEW w \in Workers, StartPass(w) PROVE Kept'
  <2>1. PICK claimed \in SUBSET Jobs :
          /\ \A v \in Workers : v # w => worker'[v] = worker[v]
          /\ worker[w].step = "idle"
          /\ worker'[w].step = "next" /\ worker'[w].held = claimed /\ worker'[w].current = NoJob
          /\ \A j \in claimed : /\ job[j].status = "pending" /\ job'[j].status = "processing"
                                /\ job'[j].attempts = job[j].attempts
          /\ \A j \in Jobs \ claimed : job'[j] = job[j]
          /\ UNCHANGED <<assets, receipts>>
    <3>1. PICK claimed \in SUBSET Due, client \in Clients :
            /\ job' = [j \in Jobs |-> IF j \in claimed
                                      THEN [job[j] EXCEPT !.status = "processing"]
                                      ELSE job[j]]
            /\ worker' = [worker EXCEPT ![w] = [NoPass EXCEPT !.step = "next",
                                                  !.held = claimed, !.client = client]]
      BY <1>2 DEF StartPass
    <3>2. claimed \subseteq Jobs /\ \A j \in claimed : job[j].status = "pending"
      BY DEF Due
    <3>3. \A j \in claimed : job'[j].status = "processing" /\ job'[j].attempts = job[j].attempts
      BY <1>0, <3>1, <3>2 DEF JobRow
    <3>4. /\ worker'[w].step = "next" /\ worker'[w].held = claimed /\ worker'[w].current = NoJob
          /\ \A v \in Workers : v # w => worker'[v] = worker[v]
      BY <1>0, <3>1 DEF NoPass
    <3> QED
      BY <1>2, <3>1, <3>2, <3>3, <3>4 DEF StartPass
  <2>2. PassesAreWellFormed'
    BY <1>0, <2>1 DEF Kept, PassesAreWellFormed
  <2>3. HoldersAreSole'
    BY <1>0, <2>1 DEF Kept, HoldersAreSole, HeldAreProcessing, Holds
  <2>4. HeldAreProcessing'
    BY <1>0, <2>1 DEF Kept, HeldAreProcessing, HoldersAreSole, PassesAreWellFormed, Holds
  <2>5. AttemptsAreCounted'
    BY <1>0, <2>1 DEF Kept, AttemptsAreCounted
  <2>6. ReceiptsAreCounted'
    BY <1>0, <2>1
       DEF Kept, ReceiptsAreCounted, HeldAreProcessing, HoldersAreSole, PassesAreWellFormed,
           Holds, Unpaid
  <2>7. CallsHaveEffects'
    BY <1>0, <2>1 DEF Kept, CallsHaveEffects, PassesAreWellFormed, HoldersAreSole, Holds
  <2>8. ProcessedIsMirrored'
    BY <1>0, <2>1 DEF Kept, ProcessedIsMirrored
  <2> QED
    BY <2>2, <2>3, <2>4, <2>5, <2>6, <2>7, <2>8 DEF Kept
<1>3. ASSUME NEW w \in Workers, NEW j \in Jobs, TakeJob(w, j) PROVE Kept'
  <2>1. /\ \A v \in Workers : v # w => worker'[v] = worker[v]
        /\ worker[w].step = "next" /\ j \in worker[w].held
        /\ worker'[w].step = "export" /\ worker'[w].held = worker[w].held \ {j}
        /\ worker'[w].current = j
        /\ UNCHANGED <<job, assets, receipts>>
    BY <1>0, <1>3 DEF TakeJob, Pass
  <2>2. PassesAreWellFormed'
    BY <1>0, <2>1 DEF Kept, PassesAreWellFormed
  <2>3. HoldersAreSole'
    BY <1>0, <2>1 DEF Kept, HoldersAreSole, Holds
  <2>4. HeldAreProcessing'
    BY <1>0, <2>1 DEF Kept, HeldAreProcessing, HoldersAreSole, PassesAreWellFormed, Holds
  <2>5. AttemptsAreCounted'
    BY <1>0, <2>1 DEF Kept, AttemptsAreCounted, HeldAreProcessing
  <2>6. ReceiptsAreCounted'
    BY <1>0, <2>1
       DEF Kept, ReceiptsAreCounted, HeldAreProcessing, HoldersAreSole, PassesAreWellFormed,
           Holds, Unpaid
  <2>7. CallsHaveEffects'
    BY <1>0, <2>1 DEF Kept, CallsHaveEffects, PassesAreWellFormed, HoldersAreSole, Holds
  <2>8. ProcessedIsMirrored'
    BY <1>0, <2>1 DEF Kept, ProcessedIsMirrored
  <2> QED
    BY <2>2, <2>3, <2>4, <2>5, <2>6, <2>7, <2>8 DEF Kept
<1>4. ASSUME NEW w \in Workers, NEW j \in Jobs, SkipJob(w, j) PROVE Kept'
  <2>1. /\ \A v \in Workers : v # w => worker'[v] = worker[v]
        /\ worker[w].step = "next" /\ j \in worker[w].held
        /\ worker'[w].step = "next" /\ worker'[w].held = worker[w].held \ {j}
        /\ worker'[w].current = worker[w].current
        /\ job[j].status = "processing" => job'[j].status = "pending"
        /\ job'[j].attempts = job[j].attempts
        /\ \A i \in Jobs : i # j => job'[i] = job[i]
        /\ UNCHANGED <<assets, receipts>>
    BY <1>0, <1>4 DEF SkipJob, StillProcessing, JobRow, Pass
  <2> QED
    BY <1>0, <2>1, SMTT(30)
       DEF Kept, PassesAreWellFormed, HoldersAreSole, HeldAreProcessing, AttemptsAreCounted,
           ReceiptsAreCounted, CallsHaveEffects, ProcessedIsMirrored, Holds, Unpaid
<1>5. ASSUME NEW w \in Workers, EndPass(w) \/ Abandon(w) \/ SettleRefused(w) PROVE Kept'
  <2>1. /\ \A v \in Workers : v # w => worker'[v] = worker[v]
        /\ worker'[w].step = "idle" /\ worker'[w].held = {} /\ worker'[w].current = NoJob
        /\ UNCHANGED <<job, assets, receipts>>
    BY <1>0, <1>5 DEF EndPass, Abandon, SettleRefused, NoPass
  <2> QED
    BY <1>0, <2>1
       DEF Kept, PassesAreWellFormed, HoldersAreSole, HeldAreProcessing, AttemptsAreCounted,
           ReceiptsAreCounted, CallsHaveEffects, ProcessedIsMirrored, Holds, Unpaid
<1>6. ASSUME NEW w \in Workers, Export(w) \/ CreateRelease(w) \/ CallFails(w) PROVE Kept'
  <2>1. /\ \A v \in Workers : v # w => worker'[v] = worker[v]
        /\ worker'[w].held = worker[w].held /\ worker'[w].current = worker[w].current
        /\ worker'[w].step \in {"release", "asset", "failed"}
        /\ worker'[w].step = "failed" \/ worker[w].step \in {"export", "release"}
        /\ worker[w].step \notin {"idle", "next", "failed"}
        /\ UNCHANGED <<job, assets, receipts>>
    BY <1>0, <1>6 DEF Export, CreateRelease, CallFails, Advance, Pass
  <2>2. PassesAreWellFormed'
    BY <1>0, <2>1 DEF Kept, PassesAreWellFormed
  <2>3. HoldersAreSole'
    BY <1>0, <2>1 DEF Kept, HoldersAreSole, Holds
  <2>4. HeldAreProcessing'
    BY <1>0, <2>1 DEF Kept, HeldAreProcessing, HoldersAreSole, PassesAreWellFormed, Holds
  <2>5. AttemptsAreCounted'
    BY <1>0, <2>1 DEF Kept, AttemptsAreCounted, HeldAreProcessing
  <2>6. ReceiptsAreCounted'
    BY <1>0, <2>1
       DEF Kept, ReceiptsAreCounted, HeldAreProcessing, HoldersAreSole, PassesAreWellFormed,
           Holds, Unpaid
  <2>7. CallsHaveEffects'
    BY <1>0, <2>1 DEF Kept, CallsHaveEffects, PassesAreWellFormed, HoldersAreSole, Holds
  <2>8. ProcessedIsMirrored'
    BY <1>0, <2>1 DEF Kept, ProcessedIsMirrored
  <2> QED
    BY <2>2, <2>3, <2>4, <2>5, <2>6, <2>7, <2>8 DEF Kept
<1>7. ASSUME NEW w \in Workers, UploadAsset(w) PROVE Kept'
  <2>1. /\ \A v \in Workers : v # w => worker'[v] = worker[v]
        /\ worker'[w].held = worker[w].held /\ worker'[w].current = worker[w].current
        /\ worker'[w].step \in {"receipt", "failed"}
        /\ worker[w].step = "asset"
        /\ assets' = assets \union {worker[w].current}
        /\ UNCHANGED <<job, receipts>>
    BY <1>0, <1>7 DEF UploadAsset, Advance, Pass
  <2>2. PassesAreWellFormed'
    BY <1>0, <2>1 DEF Kept, PassesAreWellFormed
  <2>3. HoldersAreSole'
    BY <1>0, <2>1 DEF Kept, HoldersAreSole, Holds
  <2>4. HeldAreProcessing'
    BY <1>0, <2>1 DEF Kept, HeldAreProcessing, HoldersAreSole, PassesAreWellFormed, Holds
  <2>5. AttemptsAreCounted'
    BY <1>0, <2>1 DEF Kept, AttemptsAreCounted, HeldAreProcessing
  <2>6. ReceiptsAreCounted'
    BY <1>0, <2>1
       DEF Kept, ReceiptsAreCounted, HeldAreProcessing, HoldersAreSole, PassesAreWellFormed,
           Holds, Unpaid
  <2>7. CallsHaveEffects'
    BY <1>0, <2>1 DEF Kept, CallsHaveEffects, PassesAreWellFormed, HoldersAreSole, Holds
  <2>8. ProcessedIsMirrored'
    BY <1>0, <2>1 DEF Kept, ProcessedIsMirrored
  <2> QED
    BY <2>2, <2>3, <2>4, <2>5, <2>6, <2>7, <2>8 DEF Kept
<1>8. ASSUME NEW w \in Workers, InsertReceipt(w) PROVE Kept'
  <2>1. /\ \A v \in Workers : v # w => worker'[v] = worker[v]
        /\ worker'[w].held = worker[w].held /\ worker'[w].current = worker[w].current
        /\ worker'[w].step \in {"ack", "failed"}
        /\ worker[w].step = "receipt" /\ worker[w].current \in Jobs
        /\ receipts'[worker[w].current] = receipts[worker[w].current] + 1
        /\ \A i \in Jobs : i # worker[w].current => receipts'[i] = receipts[i]
        /\ UNCHANGED <<job, assets>>
    BY <1>0, <1>8 DEF InsertReceipt, Advance, Pass, Kept, PassesAreWellFormed
  <2> QED
    BY <1>0, <2>1
       DEF Kept, PassesAreWellFormed, HoldersAreSole, HeldAreProcessing, AttemptsAreCounted,
           ReceiptsAreCounted, CallsHaveEffects, ProcessedIsMirrored, Holds, Unpaid
<1>9. ASSUME NEW w \in Workers, Acknowledge(w) PROVE Kept'
  <2>1. /\ \A v \in Workers : v # w => worker'[v] = worker[v]
        /\ worker[w].step = "ack" /\ worker[w].current \in Jobs
        /\ worker'[w].held = worker[w].held
        /\ \/ worker'[w].step = "next" /\ worker'[w].current = NoJob
           \/ worker'[w].step = "failed" /\ worker'[w].current = worker[w].current
        /\ job[worker[w].current].status = "processing"
        /\ job'[worker[w].current].status = "processed"
        /\ job'[worker[w].current].attempts = job[worker[w].current].attempts
        /\ \A i \in Jobs : i # worker[w].current => job'[i] = job[i]
        /\ UNCHANGED <<assets, receipts>>
    BY <1>0, <1>9 DEF Acknowledge, StillProcessing, JobRow, Pass, Kept, PassesAreWellFormed
  <2> QED
    BY <1>0, <2>1
       DEF Kept, PassesAreWellFormed, HoldersAreSole, HeldAreProcessing, AttemptsAreCounted,
           ReceiptsAreCounted, CallsHaveEffects, ProcessedIsMirrored, Holds, Unpaid
<1>10. ASSUME NEW w \in Workers, Settle(w) PROVE Kept'
  <2>1. /\ \A v \in Workers : v # w => worker'[v] = worker[v]
        /\ worker[w].step = "failed" /\ worker[w].current \in Jobs
        /\ \/ worker'[w].step = "next" /\ worker'[w].held = worker[w].held
           \/ worker'[w].step = "idle" /\ worker'[w].held = {}
        /\ worker'[w].current = NoJob
        /\ job[worker[w].current].status = "processing"
        /\ job'[worker[w].current].attempts = job[worker[w].current].attempts + 1
        /\ job'[worker[w].current].status =
              IF AtLimit(job[worker[w].current].attempts) THEN "dead_letter" ELSE "pending"
        /\ \A i \in Jobs : i # worker[w].current => job'[i] = job[i]
        /\ UNCHANGED <<assets, receipts>>
    BY <1>0, <1>10 DEF Settle, StillProcessing, NoPass, Pass, Kept, PassesAreWellFormed
  <2>2. PassesAreWellFormed'
    BY <1>0, <2>1 DEF Kept, PassesAreWellFormed
  <2>3. HoldersAreSole'
    BY <1>0, <2>1 DEF Kept, HoldersAreSole, Holds
  <2>4. HeldAreProcessing'
    BY <1>0, <2>1 DEF Kept, HeldAreProcessing, HoldersAreSole, PassesAreWellFormed, Holds
  <2>5. AttemptsAreCounted'
    <3> DEFINE i == worker[w].current
               n == job[i].attempts
    <3>1. n \in Nat /\ n < MaxAttempts
      <4>1. i \in Jobs /\ job[i].status # "dead_letter"
        BY <2>1
      <4>2. n \in 0 .. MaxAttempts
        BY <1>0, <4>1
      <4>3. n # MaxAttempts
        BY <4>1 DEF Kept, AttemptsAreCounted
      <4> QED
        BY <4>2, <4>3
    <3>2. AtLimit(n) <=> n + 1 = MaxAttempts
      BY <3>1 DEF AtLimit
    <3>3. job'[i].status = "dead_letter" <=> job'[i].attempts = MaxAttempts
      BY <2>1, <3>2
    <3> QED
      BY <2>1, <3>3 DEF Kept, AttemptsAreCounted
  <2>6. ReceiptsAreCounted'
    BY <1>0, <2>1
       DEF Kept, ReceiptsAreCounted, HeldAreProcessing, HoldersAreSole, PassesAreWellFormed,
           Holds, Unpaid, AtLimit
  <2>7. CallsHaveEffects'
    BY <1>0, <2>1 DEF Kept, CallsHaveEffects, PassesAreWellFormed, HoldersAreSole, Holds
  <2>8. ProcessedIsMirrored'
    BY <1>0, <2>1 DEF Kept, ProcessedIsMirrored, AtLimit
  <2> QED
    BY <2>2, <2>3, <2>4, <2>5, <2>6, <2>7, <2>8 DEF Kept
<1>11. CASE Tick
  <2>1. /\ \A w \in Workers : /\ worker'[w].step = worker[w].step
                              /\ worker'[w].held = worker[w].held
                              /\ worker'[w].current = worker[w].current
        /\ \A j \in Jobs : /\ job'[j].status = job[j].status
                           /\ job'[j].attempts = job[j].attempts
        /\ UNCHANGED <<assets, receipts>>
    BY <1>0, <1>11 DEF Tick, JobRow, Pass
  <2>2. PassesAreWellFormed'
    BY <1>0, <2>1 DEF Kept, PassesAreWellFormed
  <2>3. HoldersAreSole'
    BY <1>0, <2>1 DEF Kept, HoldersAreSole, Holds
  <2>4. HeldAreProcessing'
    BY <1>0, <2>1 DEF Kept, HeldAreProcessing, HoldersAreSole, PassesAreWellFormed, Holds
  <2>5. AttemptsAreCounted'
    BY <1>0, <2>1 DEF Kept, AttemptsAreCounted
  <2>6. ReceiptsAreCounted'
    BY <1>0, <2>1
       DEF Kept, ReceiptsAreCounted, HeldAreProcessing, HoldersAreSole, PassesAreWellFormed,
           Holds, Unpaid
  <2>7. CallsHaveEffects'
    BY <1>0, <2>1 DEF Kept, CallsHaveEffects, PassesAreWellFormed, HoldersAreSole, Holds
  <2>8. ProcessedIsMirrored'
    BY <1>0, <2>1 DEF Kept, ProcessedIsMirrored
  <2> QED
    BY <2>2, <2>3, <2>4, <2>5, <2>6, <2>7, <2>8 DEF Kept
<1>12. CASE UNCHANGED outboxVars
  BY <1>12 DEF outboxVars, Kept, PassesAreWellFormed, HoldersAreSole, HeldAreProcessing,
               AttemptsAreCounted, ReceiptsAreCounted, CallsHaveEffects,
               ProcessedIsMirrored, Holds, Unpaid
<1> QED
  BY <1>1, <1>2, <1>3, <1>4, <1>5, <1>6, <1>7, <1>8, <1>9, <1>10, <1>11, <1>12
     DEF OutboxNext, Work

-----------------------------------------------------------------------------
\* The inductive invariant, from which the properties below are read off.
THEOREM OutboxInvariant == OutboxSpec => [](TypeOK /\ Kept)
<1>1. OutboxInit => TypeOK
  BY OptionsAreValid, NoPassType DEF OutboxInit, TypeOK, JobRow
<1>2. OutboxInit => Kept
  <2> SUFFICES ASSUME OutboxInit PROVE Kept
    OBVIOUS
  <2>1. /\ \A j \in Jobs : /\ job[j].status = "unpublished" /\ job[j].attempts = 0
                           /\ receipts[j] = 0
        /\ \A w \in Workers : /\ worker[w].step = "idle" /\ worker[w].held = {}
                              /\ worker[w].current = NoJob
    BY DEF OutboxInit, NoPass
  <2> QED
    BY <2>1, OptionsAreValid, JobsAreKinded
       DEF Kept, PassesAreWellFormed, HoldersAreSole, HeldAreProcessing, AttemptsAreCounted,
           ReceiptsAreCounted, CallsHaveEffects, ProcessedIsMirrored, Holds, Unpaid
<1>3. TypeOK /\ Kept /\ [OutboxNext]_outboxVars => TypeOK' /\ Kept'
  BY TypeStep, KeptStep DEF Kept
<1> QED
  BY <1>1, <1>2, <1>3, PTL DEF OutboxSpec

\* Two passes never work on the same job (claimOutboxJobs; task M7-09).
THEOREM JobsHaveOneHolder == OutboxSpec => []OneHolder
<1>1. TypeOK /\ Kept => OneHolder
  <2> SUFFICES ASSUME TypeOK, Kept, NEW j \in Jobs
               PROVE  /\ Cardinality(Holders(j)) <= 1
                      /\ job[j].status \in {"unpublished", "pending"} => Holders(j) = {}
    BY DEF OneHolder
  <2>1. Cardinality(Holders(j)) <= 1
    <3>1. CASE Holders(j) = {}
      BY <3>1, FS_EmptySet
    <3>2. CASE Holders(j) # {}
      <4>1. PICK w : Holders(j) = {w}
        BY <3>2 DEF Kept, HoldersAreSole, Holds, Holders
      <4> QED
        BY <4>1, FS_Singleton
    <3> QED
      BY <3>1, <3>2
  <2>2. job[j].status \in {"unpublished", "pending"} => Holders(j) = {}
    BY DEF Kept, HeldAreProcessing, Holders
  <2> QED
    BY <2>1, <2>2
<1> QED
  BY <1>1, OutboxInvariant, PTL

\* A job is acknowledged only when its bundle is on the mirror and a receipt
\* says so (acknowledgeOutboxJob after mirrorFrontierBundle).
THEOREM AcknowledgedIsMirrored == OutboxSpec => []ProcessedIsMirrored
<1>1. Kept => ProcessedIsMirrored
  BY DEF Kept
<1> QED
  BY <1>1, OutboxInvariant, PTL

\* Every receipt is paid for by an attempt that was counted or by the one that
\* succeeded, and a job is dead-lettered at its last attempt and not before
\* (processFrontierMirrorJob, retryOutboxJob, deadLetterOutboxJob).
THEOREM AttemptsPayForReceipts == OutboxSpec => []ReceiptsArePaidFor
<1>1. TypeOK /\ Kept => ReceiptsArePaidFor
  <2> SUFFICES ASSUME TypeOK, Kept, NEW j \in Jobs
               PROVE  /\ receipts[j] <= job[j].attempts
                            + (IF job[j].status \in {"processing", "processed"} THEN 1 ELSE 0)
                      /\ job[j].status = "dead_letter" <=> job[j].attempts = MaxAttempts
    BY DEF ReceiptsArePaidFor
  <2>1. receipts[j] \in Nat /\ job[j].attempts \in Nat
    BY OptionsAreValid DEF TypeOK, JobRow
  <2> QED
    BY <2>1 DEF Kept, ReceiptsAreCounted, AttemptsAreCounted
<1> QED
  BY <1>1, OutboxInvariant, PTL

-----------------------------------------------------------------------------
\* Nothing but a published frontier is ever in a pass's hands.
HandsAreFrontiers == \A w \in Workers : worker[w].current \in FrontierJobs \union {NoJob}

\* A pass takes a job in hand only if it is one of a frontier.
LEMMA HandsStep ==
    TypeOK /\ HandsAreFrontiers /\ [OutboxNext]_outboxVars => HandsAreFrontiers'
<1> SUFFICES ASSUME TypeOK, HandsAreFrontiers, [OutboxNext]_outboxVars,
                    NEW v \in Workers
             PROVE  worker'[v].current \in FrontierJobs \union {NoJob}
  BY DEF HandsAreFrontiers
<1>0. worker \in [Workers -> Pass] /\ worker[v].current \in FrontierJobs \union {NoJob}
  BY DEF TypeOK, HandsAreFrontiers
<1>1. ASSUME NEW w \in Workers, StartPass(w) PROVE worker'[v].current \in {worker[v].current, NoJob}
  BY <1>0, <1>1 DEF StartPass, NoPass
<1>2. ASSUME NEW w \in Workers, NEW j \in Jobs, TakeJob(w, j)
      PROVE  worker'[v].current \in FrontierJobs \union {NoJob}
  BY <1>0, <1>2 DEF TakeJob, Pass
<1>3. ASSUME NEW w \in Workers, NEW j \in Jobs, SkipJob(w, j)
      PROVE  worker'[v].current = worker[v].current
  BY <1>0, <1>3 DEF SkipJob, Pass
<1>4. ASSUME NEW w \in Workers, EndPass(w) \/ Abandon(w) \/ SettleRefused(w)
      PROVE  worker'[v].current \in {worker[v].current, NoJob}
  BY <1>0, <1>4 DEF EndPass, Abandon, SettleRefused, NoPass
<1>5. ASSUME NEW w \in Workers, NEW from, NEW to, Advance(w, from, to)
      PROVE  worker'[v].current = worker[v].current
  BY <1>0, <1>5 DEF Advance, Pass
<1>6. ASSUME NEW w \in Workers, Acknowledge(w) \/ Settle(w)
      PROVE  worker'[v].current \in {worker[v].current, NoJob}
  BY <1>0, <1>6 DEF Acknowledge, Settle, NoPass, Pass
<1>7. CASE Tick
  BY <1>0, <1>7 DEF Tick, Pass
<1>8. ASSUME NEW w \in Workers,
             Export(w) \/ CreateRelease(w) \/ UploadAsset(w) \/ InsertReceipt(w) \/ CallFails(w)
      PROVE  worker'[v].current = worker[v].current
  BY <1>5, <1>8 DEF Export, CreateRelease, UploadAsset, InsertReceipt, CallFails
<1>9. ASSUME (\E j \in Jobs : Publish(j)) \/ UNCHANGED outboxVars
      PROVE  worker'[v].current = worker[v].current
  BY <1>0, <1>9 DEF Publish, outboxVars
<1> QED
  BY <1>0, <1>1, <1>2, <1>3, <1>4, <1>6, <1>7, <1>8, <1>9 DEF OutboxNext, Work

\* What each status shows.
LEMMA OutcomeOf ==
    ASSUME NEW row
    PROVE  /\ row.status = "unpublished" => Outcome(row) = "none"
           /\ row.status \in {"pending", "processing"} => Outcome(row) = "open"
           /\ row.status = "processed" => Outcome(row) = "delivered"
           /\ row.status = "dead_letter" => Outcome(row) = "dead"
BY DEF Outcome

Shown == [j \in Jobs |-> Outcome(job[j])]
Counted == [j \in Jobs |-> job[j].attempts]

\* A step of one row shows as a step of its job alone.
LEMMA OneRowShows ==
    ASSUME NEW i \in Jobs, \A j \in Jobs : j # i => job'[j] = job[j]
    PROVE  /\ Shown' = [Shown EXCEPT ![i] = Outcome(job'[i])]
           /\ Counted' = [Counted EXCEPT ![i] = job'[i].attempts]
BY DEF Shown, Counted

\* What leaves every outcome, count and effect as it was does not show.
LEMMA NothingShows ==
    ASSUME \A j \in Jobs : Outcome(job'[j]) = Outcome(job[j]) /\ job'[j].attempts = job[j].attempts,
           UNCHANGED <<assets, receipts>>
    PROVE  UNCHANGED Promise!vars
<1>1. Shown' = Shown /\ Counted' = Counted
  BY DEF Shown, Counted
<1> QED
  BY <1>1 DEF Promise!vars, Shown, Counted

\* Each step of the passes is one of the delivery, or does not show.
LEMMA DeliveryStep ==
    TypeOK /\ Kept /\ HandsAreFrontiers /\ [OutboxNext]_outboxVars
        => [Promise!Next]_(Promise!vars)
<1> SUFFICES ASSUME TypeOK, Kept, HandsAreFrontiers, [OutboxNext]_outboxVars
             PROVE  Promise!Next \/ UNCHANGED Promise!vars
  OBVIOUS
<1> USE OptionsAreValid, JobsAreKinded
<1>0. /\ job \in [Jobs -> JobRow] /\ worker \in [Workers -> Pass]
      /\ assets \in SUBSET Jobs /\ receipts \in [Jobs -> Nat]
      /\ \A j \in Jobs : job[j].attempts \in 0 .. MaxAttempts /\ receipts[j] \in Nat
  BY DEF TypeOK, JobRow
<1>1. \A w \in Workers : worker[w].step \notin {"idle", "next"} =>
         /\ worker[w].current \in FrontierJobs /\ worker[w].current \in Jobs
  BY DEF Kept, PassesAreWellFormed, HandsAreFrontiers
<1>2. \A w \in Workers : worker[w].step \notin {"idle", "next", "failed"} =>
         job[worker[w].current].status = "processing"
  BY <1>1 DEF Kept, HeldAreProcessing
<1>3. \A j \in Jobs : job[j].status = "processing" => Shown[j] = "open"
  BY OutcomeOf DEF Shown
<1>4. \A j \in Jobs : Counted[j] = job[j].attempts
  BY DEF Counted
<1>5. ASSUME NEW j \in Jobs, Publish(j) PROVE Promise!Next
  <2>1. /\ job[j].status = "unpublished" /\ job'[j].status = "pending"
        /\ job'[j].attempts = job[j].attempts
        /\ \A i \in Jobs : i # j => job'[i] = job[i]
        /\ UNCHANGED <<assets, receipts>>
    BY <1>0, <1>5 DEF Publish, JobRow
  <2>2. Shown[j] = "none" /\ Outcome(job'[j]) = "open"
    BY <2>1, OutcomeOf DEF Shown
  <2>3. Shown' = [Shown EXCEPT ![j] = "open"] /\ Counted' = Counted
    BY <2>1, <2>2, OneRowShows DEF Counted
  <2>4. Promise!Accept(j)
    BY <2>1, <2>2, <2>3 DEF Promise!Accept, Shown, Counted
  <2> QED
    BY <2>4 DEF Promise!Next
<1>6. ASSUME NEW w \in Workers, StartPass(w) PROVE UNCHANGED Promise!vars
  <2>1. PICK claimed \in SUBSET Due :
          job' = [j \in Jobs |-> IF j \in claimed
                                 THEN [job[j] EXCEPT !.status = "processing"]
                                 ELSE job[j]]
    BY <1>6 DEF StartPass
  <2>2. \A j \in Jobs : /\ job'[j].attempts = job[j].attempts
                        /\ \/ job'[j] = job[j]
                           \/ job[j].status = "pending" /\ job'[j].status = "processing"
    BY <1>0, <2>1 DEF Due, JobRow
  <2>3. \A j \in Jobs : Outcome(job'[j]) = Outcome(job[j])
    BY <2>2, OutcomeOf
  <2> QED
    BY <1>6, <2>2, <2>3, NothingShows DEF StartPass
<1>7. ASSUME NEW w \in Workers, NEW j \in Jobs, SkipJob(w, j) PROVE UNCHANGED Promise!vars
  <2>1. /\ job'[j].attempts = job[j].attempts
        /\ \/ job'[j] = job[j]
           \/ job[j].status = "processing" /\ job'[j].status = "pending"
        /\ \A i \in Jobs : i # j => job'[i] = job[i]
    BY <1>0, <1>7 DEF SkipJob, StillProcessing, JobRow
  <2>2. \A i \in Jobs : Outcome(job'[i]) = Outcome(job[i])
    BY <2>1, OutcomeOf
  <2> QED
    BY <1>7, <2>1, <2>2, NothingShows DEF SkipJob
<1>8. ASSUME UNCHANGED <<job, assets, receipts>> PROVE UNCHANGED Promise!vars
  BY <1>8, NothingShows
<1>9. ASSUME NEW w \in Workers, UploadAsset(w) PROVE Promise!Next
  <2> DEFINE j == worker[w].current
  <2>1. /\ worker[w].step = "asset" /\ assets' = assets \union {j}
        /\ UNCHANGED <<job, receipts>>
    BY <1>9 DEF UploadAsset, Advance
  <2>2. j \in FrontierJobs /\ j \in Jobs /\ Shown[j] = "open"
    BY <1>1, <1>2, <1>3, <2>1
  <2>3. Promise!Mirror(j)
    BY <2>1, <2>2 DEF Promise!Mirror, Promise!InWork, Shown
  <2> QED
    BY <2>2, <2>3 DEF Promise!Next
<1>10. ASSUME NEW w \in Workers, InsertReceipt(w) PROVE Promise!Next
  <2> DEFINE j == worker[w].current
  <2>1. /\ worker[w].step = "receipt" /\ receipts' = [receipts EXCEPT ![j] = @ + 1]
        /\ UNCHANGED <<job, assets>>
    BY <1>10 DEF InsertReceipt, Advance
  <2>2. j \in FrontierJobs /\ j \in Jobs /\ Shown[j] = "open"
    BY <1>1, <1>2, <1>3, <2>1
  <2>3. j \in assets /\ receipts[j] <= job[j].attempts
    BY <2>1, <2>2 DEF Kept, CallsHaveEffects, ReceiptsAreCounted, Unpaid
  <2>4. Promise!Receipt(j)
    BY <1>4, <2>1, <2>2, <2>3 DEF Promise!Receipt, Promise!InWork, Shown, Counted
  <2> QED
    BY <2>2, <2>4 DEF Promise!Next
<1>11. ASSUME NEW w \in Workers, Acknowledge(w) PROVE Promise!Next
  <2> DEFINE j == worker[w].current
  <2>1. worker[w].step = "ack" /\ UNCHANGED <<assets, receipts>>
    BY <1>11 DEF Acknowledge
  <2>2. j \in FrontierJobs /\ j \in Jobs /\ Shown[j] = "open"
    BY <1>1, <1>2, <1>3, <2>1
  <2>3. /\ job'[j].status = "processed" /\ job'[j].attempts = job[j].attempts
        /\ \A i \in Jobs : i # j => job'[i] = job[i]
    BY <1>0, <1>11, <2>2 DEF Acknowledge, JobRow
  <2>4. Shown' = [Shown EXCEPT ![j] = "delivered"] /\ Counted' = Counted
    BY <2>2, <2>3, OneRowShows, OutcomeOf DEF Counted
  <2>5. j \in assets /\ receipts[j] > 0
    BY <1>0, <2>1, <2>2 DEF Kept, CallsHaveEffects
  <2>6. Promise!Deliver(j)
    BY <2>1, <2>2, <2>4, <2>5 DEF Promise!Deliver, Promise!InWork, Shown, Counted
  <2> QED
    BY <2>2, <2>6 DEF Promise!Next
<1>12. ASSUME NEW w \in Workers, Settle(w) PROVE Promise!Next
  <2> DEFINE j == worker[w].current
             n == job[j].attempts
  <2>1. /\ worker[w].step = "failed" /\ job[j].status = "processing"
        /\ UNCHANGED <<assets, receipts>>
    BY <1>12 DEF Settle, StillProcessing
  <2>2. j \in FrontierJobs /\ j \in Jobs /\ Shown[j] = "open"
    BY <1>1, <1>3, <2>1
  <2>3. n \in Nat /\ n < MaxAttempts
    <3>1. n \in 0 .. MaxAttempts /\ n # MaxAttempts
      BY <1>0, <2>1, <2>2 DEF Kept, AttemptsAreCounted
    <3> QED
      BY <3>1
  <2>4. /\ job'[j].attempts = n + 1
        /\ job'[j].status = IF AtLimit(n) THEN "dead_letter" ELSE "pending"
        /\ \A i \in Jobs : i # j => job'[i] = job[i]
    BY <1>0, <1>12, <2>2 DEF Settle
  <2>5. AtLimit(n) <=> n + 1 = MaxAttempts
    BY <2>3 DEF AtLimit
  <2>6. Outcome(job'[j]) = IF n + 1 = MaxAttempts THEN "dead" ELSE "open"
    BY <2>4, <2>5, OutcomeOf
  <2>7. /\ Shown' = [Shown EXCEPT ![j] = IF n + 1 = MaxAttempts THEN "dead" ELSE "open"]
        /\ Counted' = [Counted EXCEPT ![j] = n + 1]
    BY <2>2, <2>4, <2>6, OneRowShows
  <2>8. Counted[j] = n /\ Counted'[j] = n + 1
    BY <1>4, <2>2, <2>7 DEF Counted
  <2>9. PICK i \in Jobs : i = j
    BY <2>2
  <2>10. Promise!Fail(i)
    BY <2>1, <2>2, <2>3, <2>7, <2>8, <2>9 DEF Promise!Fail, Promise!InWork, Shown, Counted
  <2> QED
    BY <2>10 DEF Promise!Next
<1>13. ASSUME Tick PROVE UNCHANGED Promise!vars
  <2>1. \A j \in Jobs : /\ job'[j].status = job[j].status
                        /\ job'[j].attempts = job[j].attempts
    BY <1>0, <1>13 DEF Tick, JobRow
  <2>2. \A j \in Jobs : Outcome(job'[j]) = Outcome(job[j])
    BY <2>1 DEF Outcome
  <2> QED
    BY <1>13, <2>1, <2>2, NothingShows DEF Tick
<1>14. ASSUME NEW w \in Workers,
              \/ \E j \in Jobs : TakeJob(w, j)
              \/ EndPass(w) \/ Export(w) \/ CreateRelease(w) \/ CallFails(w)
              \/ SettleRefused(w) \/ Abandon(w)
       PROVE  UNCHANGED Promise!vars
  BY <1>8, <1>14
     DEF TakeJob, EndPass, Export, CreateRelease, CallFails, SettleRefused, Abandon
<1>15. CASE UNCHANGED outboxVars
  BY <1>8, <1>15 DEF outboxVars
<1> QED
  BY <1>5, <1>6, <1>7, <1>9, <1>10, <1>11, <1>12, <1>13, <1>14, <1>15 DEF OutboxNext, Work

\* The passes implement the delivery: whatever they interleave, lose and leave
\* undone, a job is mirrored, receipted, delivered or dead as if one careful
\* worker had done it (runMirrorQueuePass, processFrontierMirrorJob).
THEOREM OutboxImplementsDelivery == OutboxSpec => ImplementsDelivery
<1>1. OutboxInit => Promise!Init
  <2> SUFFICES ASSUME OutboxInit PROVE Promise!Init
    OBVIOUS
  <2>1. \A j \in Jobs : job[j].status = "unpublished" /\ job[j].attempts = 0
    BY DEF OutboxInit
  <2>2. Shown = [j \in Jobs |-> "none"] /\ Counted = [j \in Jobs |-> 0]
    BY <2>1, OutcomeOf DEF Shown, Counted
  <2> QED
    BY <2>2 DEF OutboxInit, Promise!Init, Shown, Counted
<1>2. OutboxInit => HandsAreFrontiers
  BY DEF OutboxInit, HandsAreFrontiers, NoPass
<1> QED
  BY <1>1, <1>2, HandsStep, DeliveryStep, OutboxInvariant, PTL
     DEF OutboxSpec, ImplementsDelivery, Promise!Spec

\* A step of the delivery leaves a job that has ended as it is.
LEMMA EndedIsLeft ==
    ASSUME TypeOK, Promise!Next, NEW j \in Jobs, Shown[j] \in {"delivered", "dead"}
    PROVE  /\ Shown'[j] = Shown[j] /\ Counted'[j] = Counted[j]
           /\ j \in assets' <=> j \in assets
           /\ receipts'[j] = receipts[j]
<1>0. receipts \in [Jobs -> Nat]
  BY DEF TypeOK
<1>1. PICK i \in Jobs :
        Promise!Accept(i) \/ Promise!Mirror(i) \/ Promise!Receipt(i) \/ Promise!Deliver(i)
          \/ Promise!Fail(i)
  BY DEF Promise!Next
<1>2. Shown[i] \in {"none", "open"}
  BY <1>1 DEF Promise!Accept, Promise!Mirror, Promise!Receipt, Promise!Deliver, Promise!Fail,
              Promise!InWork, Shown
<1>3. i # j
  BY <1>2
<1>4. /\ Shown' = Shown \/ \E x : Shown' = [Shown EXCEPT ![i] = x]
      /\ Counted' = Counted \/ \E x : Counted' = [Counted EXCEPT ![i] = x]
      /\ assets' = assets \/ assets' = assets \union {i}
      /\ receipts' = receipts \/ \E x : receipts' = [receipts EXCEPT ![i] = x]
  BY <1>1 DEF Promise!Accept, Promise!Mirror, Promise!Receipt, Promise!Deliver, Promise!Fail,
              Shown, Counted
<1>5. DOMAIN Shown = Jobs /\ DOMAIN Counted = Jobs
  BY DEF Shown, Counted
<1> QED
  BY <1>0, <1>3, <1>4, <1>5

\* A job that was acknowledged or dead-lettered stays as it is: no attempt is
\* counted, no receipt stored and no bundle mirrored for it any more, though a
\* pass whose acknowledgement was answered late still has it in hand
\* (acknowledgeOutboxJob, retryOutboxJob, deadLetterOutboxJob).
THEOREM EndedJobsAreLeftAlone == OutboxSpec => Promise!EndsAreFinal
<1>1. TypeOK /\ [Promise!Next]_(Promise!vars) =>
        [\A j \in Jobs : Shown[j] \in {"delivered", "dead"} =>
            /\ Shown'[j] = Shown[j] /\ Counted'[j] = Counted[j]
            /\ j \in assets' <=> j \in assets
            /\ receipts'[j] = receipts[j]]_(Promise!vars)
  BY EndedIsLeft
<1> QED
  BY <1>1, OutboxInvariant, OutboxImplementsDelivery, PTL
     DEF Promise!EndsAreFinal, ImplementsDelivery, Promise!Spec, Shown, Counted

=============================================================================
