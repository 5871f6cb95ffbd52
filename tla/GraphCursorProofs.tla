--------------------------- MODULE GraphCursorProofs ---------------------------
(***************************************************************************)
(* Proofs about the pages of a neighbourhood, for any number of writers    *)
(* and any limits.                                                         *)
(***************************************************************************)
EXTENDS GraphCursor, FiniteSetTheorems, TLAPS

\* The least of three numbers, and of four.
LEMMA LeastOfThree ==
    ASSUME NEW a \in Int, NEW b \in Int, NEW c \in Int
    PROVE  /\ Least({a, b, c}) \in {a, b, c}
           /\ Least({a, b, c}) <= a /\ Least({a, b, c}) <= b /\ Least({a, b, c}) <= c
<1> DEFINE S == {a, b, c}
<1>1. \E x \in S : \A y \in S : x <= y
  OBVIOUS
<1>2. Least(S) \in S /\ \A y \in S : Least(S) <= y
  <2> HIDE DEF S
  <2> QED
    BY <1>1 DEF Least
<1> QED
  BY <1>2

\* How far a page traverses is a number.
LEMMA ReachIsANumber ==
    ASSUME NEW offset \in Nat
    PROVE  Reach(offset) \in Int
<1> DEFINE S == {Ceiling, EdgeLimit + offset, NodeLimit + 2 * offset - 1, Ceiling - 1}
<1>1. S \subseteq Int
  BY LimitsAreUsable
<1>2. \E x \in S : \A y \in S : x <= y
  <2> DEFINE a == EdgeLimit + offset
  <2> DEFINE b == NodeLimit + 2 * offset - 1
  <2> DEFINE c == Ceiling - 1
  <2>1. a \in Int /\ b \in Int /\ c \in Int /\ c <= Ceiling /\ Ceiling \in Int
    BY LimitsAreUsable
  <2>2. S = {Ceiling, a, b, c}
    OBVIOUS
  <2> HIDE DEF S, a, b, c
  <2> QED
    BY <2>1, <2>2
<1> HIDE DEF S
<1>3. Least(S) \in S
  BY <1>2 DEF Least
<1> QED
  BY <1>1, <1>3 DEF Reach, S

-----------------------------------------------------------------------------
(* Places *)

\* The rows up to the one given.
UpToRow(w, edges) == {x \in edges : writer[x].start <= writer[w].start}

\* A place is a number no greater than the number of rows, and at least 1.
LEMMA PlacesAreNumbers ==
    ASSUME NEW w, NEW edges, IsFiniteSet(edges)
    PROVE  /\ Place(w, edges) \in Nat /\ Cardinality(edges) \in Nat
           /\ Place(w, edges) <= Cardinality(edges)
<1>1. Place(w, edges) = Cardinality(UpToRow(w, edges)) /\ UpToRow(w, edges) \subseteq edges
  BY DEF Place, UpToRow
<1> QED
  BY <1>1, FS_Subset, FS_CardinalityType

\* More rows never move a row forward.
LEMMA PlacesGrow ==
    ASSUME NEW w, NEW many, IsFiniteSet(many), NEW few \in SUBSET many
    PROVE  Place(w, few) <= Place(w, many)
<1>1. UpToRow(w, few) \subseteq UpToRow(w, many) /\ UpToRow(w, many) \subseteq many
  BY DEF UpToRow
<1>2. IsFiniteSet(UpToRow(w, many))
  BY <1>1, FS_Subset
<1>3. Cardinality(UpToRow(w, few)) <= Cardinality(UpToRow(w, many))
  BY <1>1, <1>2, FS_Subset
<1> QED
  BY <1>3 DEF Place, UpToRow

\* A row that comes no later is placed no later.
LEMMA PlacesFollowStarts ==
    ASSUME NEW edges \in SUBSET Writers, IsFiniteSet(edges), NEW x \in Writers, NEW y \in Writers,
           \A v \in Writers : writer[v].start \in Nat, writer[x].start <= writer[y].start
    PROVE  Place(x, edges) <= Place(y, edges)
<1>1. UpToRow(x, edges) \subseteq UpToRow(y, edges) /\ UpToRow(y, edges) \subseteq edges
  BY DEF UpToRow
<1>2. IsFiniteSet(UpToRow(y, edges))
  BY <1>1, FS_Subset
<1>3. Cardinality(UpToRow(x, edges)) <= Cardinality(UpToRow(y, edges))
  BY <1>1, <1>2, FS_Subset
<1> QED
  BY <1>3 DEF Place, UpToRow

\* A row beyond all of some rows, and not one of them, is placed after them.
LEMMA PlacesBeyond ==
    ASSUME NEW many \in SUBSET Writers, IsFiniteSet(many), NEW few \in SUBSET many, NEW w \in many,
           w \notin few, \A x \in few : writer[x].start <= writer[w].start, writer[w].start \in Nat
    PROVE  Place(w, many) > Cardinality(few)
<1>1. few \union {w} \subseteq UpToRow(w, many) /\ UpToRow(w, many) \subseteq many
  BY DEF UpToRow
<1>2. IsFiniteSet(UpToRow(w, many)) /\ IsFiniteSet(few)
  BY <1>1, FS_Subset
<1>3. Cardinality(few \union {w}) = Cardinality(few) + 1
  BY <1>2, FS_AddElement
<1>4. Cardinality(few \union {w}) <= Cardinality(UpToRow(w, many))
  BY <1>1, <1>2, FS_Subset
<1>5. Cardinality(few) \in Nat /\ Cardinality(UpToRow(w, many)) \in Nat
  BY <1>2, FS_CardinalityType
<1>6. Place(w, many) = Cardinality(UpToRow(w, many))
  BY DEF Place, UpToRow
<1> QED
  BY <1>3, <1>4, <1>5, <1>6

\* A stored row has a place.
LEMMA PlacesArePositive ==
    ASSUME NEW edges \in SUBSET Writers, IsFiniteSet(edges), NEW w \in edges,
           writer[w].start \in Nat
    PROVE  Place(w, edges) > 0
<1>1. Cardinality({}) = 0
  BY FS_EmptySet
<1> QED
  BY <1>1, PlacesBeyond

-----------------------------------------------------------------------------
\* The transactions, the chain and the counts keep their types, and the edges
\* stored so far are finitely many.
CursorTypes ==
    /\ writer \in [Writers -> Row]
    /\ clock \in Nat /\ seq \in Nat
    /\ {"step", "offset", "mark", "rows", "truncated"} \subseteq DOMAIN reader
    /\ reader.step \in {"idle", "asking", "scanned", "done"}
    /\ reader.offset \in Nat
    /\ reader.step = "idle" => reader.offset = 0
    /\ delivered \in [Writers -> Nat]
    /\ old \subseteq Stored
    /\ IsFiniteSet(Stored)

\* The old edges that are not yet delivered.
Due == {w \in old : delivered[w] = 0}

\* What is due lies beyond the offset of the cursor, among the edges that are
\* stored by now.
DueIsAhead ==
    reader.step \in {"asking", "scanned"} => \A w \in Due : Place(w, Stored) > reader.offset

\* A scan has got what is due beyond the offset, or it was cut before it.
ScansReachDue ==
    reader.step = "scanned" =>
        /\ reader.rows \subseteq Stored
        /\ \A w \in Due :
              IF w \in reader.rows THEN Place(w, reader.rows) > reader.offset
              ELSE /\ reader.truncated
                   /\ \A x \in reader.rows : writer[x].start <= writer[w].start

\* At the end nothing is due.
NothingIsDue == reader.step = "done" => Due = {}

CursorInv == CursorTypes /\ DueIsAhead /\ ScansReachDue /\ NothingIsDue

\* No step of a transaction moves a stored edge: it may only add one.
LEMMA WritersAddEdges ==
    ASSUME CursorTypes, NEW w \in Writers, Write(w)
    PROVE  /\ writer' \in [Writers -> Row] /\ clock' \in Nat /\ seq' \in Nat
           /\ Stored \subseteq Stored' /\ Stored' \subseteq Stored \union {w}
           /\ \A x \in Stored : writer'[x].start = writer[x].start
           /\ UNCHANGED <<reader, delivered, old>>
<1>1. writer \in [Writers -> Row]
  BY DEF CursorTypes
<1>2. CASE Begin(w)
  <2>1. /\ writer[w].phase = "new" /\ clock \in Nat /\ seq \in Nat
        /\ writer' = [writer EXCEPT ![w].phase = "open", ![w].start = clock]
        /\ clock' = clock + 1 /\ UNCHANGED <<seq, reader, delivered, old>>
    BY <1>2 DEF CursorTypes, Begin
  <2>2. writer' \in [Writers -> Row] /\ clock' \in Nat /\ seq' \in Nat
    <3> DEFINE after == [writer[w] EXCEPT !.phase = "open", !.start = clock]
    <3>1. after \in Row
      BY <1>1, <2>1 DEF Row, Phase
    <3>2. writer' = [writer EXCEPT ![w] = after]
      BY <1>1, <2>1 DEF Row
    <3> HIDE DEF after
    <3>3. writer' \in [Writers -> Row]
      BY <1>1, <3>1, <3>2
    <3>4. clock' \in Nat /\ seq' \in Nat
      BY <2>1
    <3> QED
      BY <3>3, <3>4
  <2>3. writer'[w].phase = "open" /\ \A x \in Writers : x # w => writer'[x] = writer[x]
    BY <1>1, <2>1 DEF Row
  <2>4. Stored' = Stored /\ w \notin Stored
    <3>1. \A x \in Writers : writer'[x].phase = "stored" <=> writer[x].phase = "stored"
      BY <2>1, <2>3
    <3>2. Stored' = {x \in Writers : writer'[x].phase = "stored"}
      BY DEF Stored, InPhase
    <3>3. Stored = {x \in Writers : writer[x].phase = "stored"}
      BY DEF Stored, InPhase
    <3>4. Stored' = Stored
      BY <3>1, <3>2, <3>3, Zenon
    <3> QED
      BY <2>1, <3>3, <3>4
  <2>5. Stored \subseteq Writers
    BY DEF Stored, InPhase
  <2>6. \A x \in Stored : writer'[x].start = writer[x].start
    BY <2>3, <2>4, <2>5
  <2> QED
    BY <2>1, <2>2, <2>4, <2>6
<1>3. CASE AllocateRank(w)
  <2>1. /\ writer[w].phase = "open" /\ clock \in Nat /\ seq \in Nat
        /\ writer' = [writer EXCEPT ![w].phase = "ranked", ![w].rank = seq]
        /\ seq' = seq + 1 /\ UNCHANGED <<clock, reader, delivered, old>>
    BY <1>3 DEF CursorTypes, AllocateRank
  <2>2. writer' \in [Writers -> Row] /\ clock' \in Nat /\ seq' \in Nat
    <3> DEFINE after == [writer[w] EXCEPT !.phase = "ranked", !.rank = seq]
    <3>1. after \in Row
      BY <1>1, <2>1 DEF Row, Phase
    <3>2. writer' = [writer EXCEPT ![w] = after]
      BY <1>1, <2>1 DEF Row
    <3> HIDE DEF after
    <3>3. writer' \in [Writers -> Row]
      BY <1>1, <3>1, <3>2
    <3>4. clock' \in Nat /\ seq' \in Nat
      BY <2>1
    <3> QED
      BY <3>3, <3>4
  <2>3. writer'[w].phase = "ranked" /\ \A x \in Writers : x # w => writer'[x] = writer[x]
    BY <1>1, <2>1 DEF Row
  <2>4. Stored' = Stored /\ w \notin Stored
    <3>1. \A x \in Writers : writer'[x].phase = "stored" <=> writer[x].phase = "stored"
      BY <2>1, <2>3
    <3>2. Stored' = {x \in Writers : writer'[x].phase = "stored"}
      BY DEF Stored, InPhase
    <3>3. Stored = {x \in Writers : writer[x].phase = "stored"}
      BY DEF Stored, InPhase
    <3>4. Stored' = Stored
      BY <3>1, <3>2, <3>3, Zenon
    <3> QED
      BY <2>1, <3>3, <3>4
  <2>5. Stored \subseteq Writers
    BY DEF Stored, InPhase
  <2>6. \A x \in Stored : writer'[x].start = writer[x].start
    BY <2>3, <2>4, <2>5
  <2> QED
    BY <2>1, <2>2, <2>4, <2>6
<1>4. CASE Commit(w)
  BY <1>1, <1>4 DEF CursorTypes, Commit, Row, Phase, Stored, InPhase
<1>5. CASE Abort(w)
  BY <1>1, <1>5 DEF CursorTypes, Abort, Row, Phase, Stored, InPhase
<1> QED
  BY <1>2, <1>3, <1>4, <1>5 DEF Write

\* A step of a transaction keeps what is due ahead of the cursor.
LEMMA WritersKeepCursor ==
    ASSUME CursorInv, NEW w \in Writers, Write(w)
    PROVE  CursorInv'
<1>1. /\ writer' \in [Writers -> Row] /\ clock' \in Nat /\ seq' \in Nat
      /\ Stored \subseteq Stored' /\ Stored' \subseteq Stored \union {w}
      /\ \A x \in Stored : writer'[x].start = writer[x].start
      /\ reader' = reader /\ delivered' = delivered /\ old' = old
  BY WritersAddEdges DEF CursorInv
<1>2. IsFiniteSet(Stored')
  <2>1. IsFiniteSet(Stored \union {w})
    BY FS_AddElement DEF CursorInv, CursorTypes
  <2> QED
    BY <1>1, <2>1, FS_Subset
<1>3. CursorTypes'
  BY <1>1, <1>2 DEF CursorInv, CursorTypes
<1>4. Due' = Due /\ Due \subseteq Stored
  BY <1>1 DEF Due, CursorInv, CursorTypes
<1>5. ASSUME NEW x \in Stored, NEW few, few \subseteq Stored
      PROVE  {y \in few : writer'[y].start <= writer'[x].start} = UpToRow(x, few)
  BY <1>1, <1>5 DEF UpToRow
<1>6. ASSUME NEW x \in Stored
      PROVE  Cardinality({y \in Stored' : writer'[y].start <= writer'[x].start}) >= Place(x, Stored)
  <2> DEFINE now == {y \in Stored' : writer'[y].start <= writer'[x].start}
  <2>1. UpToRow(x, Stored) \subseteq now
    BY <1>1, <1>5
  <2>2. IsFiniteSet(now)
    <3>1. now \subseteq Stored'
      OBVIOUS
    <3> HIDE DEF now
    <3> QED
      BY <1>2, <3>1, FS_Subset
  <2> HIDE DEF now
  <2>3. /\ Cardinality(UpToRow(x, Stored)) <= Cardinality(now)
        /\ Cardinality(now) \in Nat /\ Cardinality(UpToRow(x, Stored)) \in Nat
    BY <2>1, <2>2, FS_Subset, FS_CardinalityType
  <2> QED
    BY <2>3 DEF now, Place, UpToRow
<1>7. DueIsAhead'
  <2>1. SUFFICES ASSUME reader.step \in {"asking", "scanned"}, NEW x \in Due
                 PROVE  Cardinality({y \in Stored' : writer'[y].start <= writer'[x].start}) > reader.offset
    BY <1>1, <1>4 DEF DueIsAhead, Place
  <2>2. Place(x, Stored) > reader.offset /\ reader.offset \in Nat /\ Place(x, Stored) \in Nat
    BY <2>1, PlacesAreNumbers DEF CursorInv, CursorTypes, DueIsAhead
  <2> DEFINE now == Cardinality({y \in Stored' : writer'[y].start <= writer'[x].start})
  <2>3. now >= Place(x, Stored) /\ now \in Nat
    <3>1. IsFiniteSet({y \in Stored' : writer'[y].start <= writer'[x].start})
      <4>1. {y \in Stored' : writer'[y].start <= writer'[x].start} \subseteq Stored'
        OBVIOUS
      <4> QED
        BY <1>2, <4>1, FS_Subset
    <3> QED
      BY <1>4, <1>6, <3>1, FS_CardinalityType
  <2> HIDE DEF now
  <2>4. now > reader.offset
    BY <2>2, <2>3
  <2> QED
    BY <2>4 DEF now
<1>8. ScansReachDue'
  <2>1. SUFFICES ASSUME reader.step = "scanned"
                 PROVE  /\ reader.rows \subseteq Stored'
                        /\ \A x \in Due :
                              IF x \in reader.rows
                              THEN Cardinality({y \in reader.rows : writer'[y].start <= writer'[x].start})
                                     > reader.offset
                              ELSE /\ reader.truncated
                                   /\ \A y \in reader.rows : writer'[y].start <= writer'[x].start
    BY <1>1, <1>4 DEF ScansReachDue, Place
  <2>2. reader.rows \subseteq Stored
    BY <2>1 DEF CursorInv, ScansReachDue
  <2>3. \A x \in Due : Cardinality({y \in reader.rows : writer'[y].start <= writer'[x].start})
                          = Place(x, reader.rows)
    BY <1>4, <1>5, <2>2 DEF Place, UpToRow
  <2>4. \A x \in Due : \A y \in reader.rows :
          writer'[y].start = writer[y].start /\ writer'[x].start = writer[x].start
    BY <1>1, <1>4, <2>2
  <2> QED
    BY <1>1, <2>1, <2>2, <2>3, <2>4 DEF CursorInv, ScansReachDue
<1>9. NothingIsDue'
  BY <1>1, <1>4 DEF CursorInv, NothingIsDue
<1> QED
  BY <1>3, <1>7, <1>8, <1>9 DEF CursorInv

\* All that is due when a chain begins has a place.
LEMMA OpenKeepsCursor ==
    ASSUME CursorInv, Open
    PROVE  CursorInv'
<1>1. /\ reader.step = "idle" /\ reader' = [reader EXCEPT !.step = "asking"]
      /\ delivered' = Nothing /\ old' = Stored /\ UNCHANGED <<writer, clock, seq>>
  BY DEF Open
<1>2. /\ DOMAIN reader' = DOMAIN reader /\ reader'.step = "asking"
      /\ reader'.offset = 0
  BY <1>1 DEF CursorInv, CursorTypes
<1>3. Stored' = Stored
  BY <1>1 DEF Stored, InPhase
<1>4. CursorTypes'
  BY <1>1, <1>2, <1>3 DEF CursorInv, CursorTypes, Nothing
<1>5. DueIsAhead'
  <2>1. \A w \in Stored : Place(w, Stored) > 0
    <3>1. Stored \in SUBSET Writers /\ \A w \in Stored : writer[w].start \in Nat
      BY DEF Stored, InPhase, CursorInv, CursorTypes, Row
    <3> QED
      BY <3>1, PlacesArePositive DEF CursorInv, CursorTypes
  <2>2. Due' \subseteq Stored
    BY <1>1 DEF Due
  <2> QED
    BY <1>1, <1>2, <1>3, <2>1, <2>2 DEF DueIsAhead, Place
<1>6. ScansReachDue' /\ NothingIsDue'
  BY <1>2 DEF ScansReachDue, NothingIsDue
<1> QED
  BY <1>4, <1>5, <1>6 DEF CursorInv

\* What is due is beyond the offset of a scan too, as the rows before it are
\* all in the scan; or the scan was cut.
LEMMA ScanKeepsCursor ==
    ASSUME CursorInv, Scan
    PROVE  CursorInv'
<1> DEFINE rows == {w \in Stored : Place(w, Stored) <= Reach(reader.offset)}
<1> DEFINE cut == Cardinality(Stored) > Reach(reader.offset)
<1>1. /\ reader.step = "asking"
      /\ reader' = [reader EXCEPT !.step = "scanned", !.rows = rows, !.truncated = cut]
      /\ UNCHANGED <<writer, clock, seq, delivered, old>>
  BY DEF Scan
<1>2. rows \subseteq Stored /\ Stored \subseteq Writers
  BY DEF Stored, InPhase
<1>3. \A x \in Stored : x \in rows <=> Place(x, Stored) <= Reach(reader.offset)
  OBVIOUS
<1>4. cut <=> Cardinality(Stored) > Reach(reader.offset)
  OBVIOUS
<1> HIDE DEF rows, cut
<1>5. /\ DOMAIN reader' = DOMAIN reader /\ reader'.step = "scanned"
      /\ reader'.offset = reader.offset /\ reader'.rows = rows /\ reader'.truncated = cut
  BY <1>1 DEF CursorInv, CursorTypes
<1>6. Stored' = Stored /\ Due' = Due /\ Due \subseteq Stored
  BY <1>1 DEF Stored, InPhase, Due, CursorInv, CursorTypes
<1>7. CursorTypes'
  BY <1>1, <1>5, <1>6 DEF CursorInv, CursorTypes
<1>8. DueIsAhead'
  BY <1>1, <1>5, <1>6 DEF CursorInv, DueIsAhead, Place
<1>9. Reach(reader.offset) \in Int /\ \A v \in Writers : writer[v].start \in Nat
  BY ReachIsANumber DEF CursorInv, CursorTypes, Row
<1>10. ASSUME NEW x \in rows, NEW y \in Stored, writer[y].start <= writer[x].start
       PROVE  y \in rows
  <2>1. Place(y, Stored) <= Place(x, Stored)
    BY <1>2, <1>9, <1>10, PlacesFollowStarts DEF CursorInv, CursorTypes
  <2>2. Place(x, Stored) \in Nat /\ Place(y, Stored) \in Nat
    BY PlacesAreNumbers DEF CursorInv, CursorTypes
  <2> QED
    BY <1>2, <1>3, <1>9, <2>1, <2>2
<1>11. ASSUME NEW w \in Due
       PROVE  IF w \in rows THEN Place(w, rows) > reader.offset
              ELSE cut /\ \A x \in rows : writer[x].start <= writer[w].start
  <2>1. CASE w \in rows
    <3>1. UpToRow(w, rows) = UpToRow(w, Stored)
      BY <1>2, <1>10, <2>1 DEF UpToRow
    <3>2. Place(w, rows) = Place(w, Stored)
      BY <3>1 DEF Place, UpToRow
    <3> QED
      BY <1>1, <2>1, <3>2 DEF CursorInv, DueIsAhead
  <2>2. CASE w \notin rows
    <3>1. /\ Place(w, Stored) \in Nat /\ Cardinality(Stored) \in Nat
          /\ Place(w, Stored) <= Cardinality(Stored)
      BY PlacesAreNumbers DEF CursorInv, CursorTypes
    <3>2. cut
      BY <1>3, <1>4, <1>6, <1>9, <2>2, <3>1
    <3>3. \A x \in rows : writer[x].start <= writer[w].start
      BY <1>2, <1>6, <1>9, <1>10, <2>2
    <3> QED
      BY <2>2, <3>2, <3>3
  <2> QED
    BY <2>1, <2>2
<1>12. ScansReachDue'
  BY <1>1, <1>2, <1>5, <1>6, <1>11 DEF ScansReachDue, Place
<1>13. NothingIsDue'
  BY <1>5 DEF NothingIsDue
<1> QED
  BY <1>7, <1>8, <1>12, <1>13 DEF CursorInv

\* A chain that starts over is as at the beginning.
LEMMA RejectKeepsCursor ==
    ASSUME CursorInv, RejectStale
    PROVE  CursorInv'
<1>1. reader' = NoChain /\ UNCHANGED <<writer, clock, seq, delivered, old>>
  BY DEF RejectStale
<1>2. Stored' = Stored
  BY <1>1 DEF Stored, InPhase
<1>3. CursorTypes'
  BY <1>1, <1>2 DEF CursorInv, CursorTypes, NoChain
<1>4. DueIsAhead' /\ ScansReachDue' /\ NothingIsDue'
  BY <1>1 DEF DueIsAhead, ScansReachDue, NothingIsDue, NoChain
<1> QED
  BY <1>3, <1>4 DEF CursorInv

\* What a page does not deliver lies beyond the next offset.
LEMMA PageKeepsCursor ==
    ASSUME CursorInv, ReturnPage
    PROVE  CursorInv'
<1> DEFINE next == IF PageEnd > reader.offset THEN PageEnd ELSE reader.offset
<1> DEFINE step == IF More(next) THEN "asking" ELSE "done"
<1>1. /\ reader.step = "scanned" /\ UNCHANGED <<writer, clock, seq, old>>
      /\ delivered' = [w \in Writers |-> delivered[w] + (IF w \in PageRows THEN 1 ELSE 0)]
      /\ reader' = [step |-> step, offset |-> next, mark |-> Watermark,
                    rows |-> {}, truncated |-> FALSE]
  BY DEF ReturnPage
<1>2. /\ reader.rows \subseteq Stored /\ Stored \subseteq Writers /\ IsFiniteSet(Stored)
      /\ IsFiniteSet(reader.rows) /\ Cardinality(reader.rows) \in Nat /\ reader.offset \in Nat
  <2>1. /\ reader.rows \subseteq Stored /\ Stored \subseteq Writers /\ IsFiniteSet(Stored)
        /\ reader.offset \in Nat
    BY <1>1 DEF CursorInv, CursorTypes, ScansReachDue, Stored, InPhase
  <2> QED
    BY <2>1, FS_Subset, FS_CardinalityType
<1>3. PageEnd \in Nat /\ PageEnd <= Cardinality(reader.rows)
  <2> DEFINE a == Cardinality(reader.rows)
  <2> DEFINE b == reader.offset + EdgeLimit
  <2> DEFINE c == reader.offset + NodeLimit - 1
  <2>1. a \in Nat /\ b \in Nat /\ c \in Nat
    BY <1>2, LimitsAreUsable
  <2>2. PageEnd = Least({a, b, c})
    BY DEF PageEnd
  <2> HIDE DEF a, b, c
  <2>3. Least({a, b, c}) \in {a, b, c} /\ Least({a, b, c}) <= a
    <3>1. a \in Int /\ b \in Int /\ c \in Int
      BY <2>1
    <3> QED
      BY <3>1, LeastOfThree
  <2>4. PageEnd \in Nat /\ PageEnd <= a
    BY <2>1, <2>2, <2>3
  <2> QED
    BY <2>4 DEF a
<1>4. /\ next \in Nat
      /\ \/ next = PageEnd /\ PageEnd > reader.offset
         \/ next = reader.offset /\ PageEnd <= reader.offset
  <2>1. CASE PageEnd > reader.offset
    BY <1>3, <2>1
  <2>2. CASE ~ PageEnd > reader.offset
    BY <1>2, <1>3, <2>2
  <2> QED
    BY <2>1, <2>2
<1>5. /\ step \in {"asking", "done"}
      /\ step = "done" => ~ next < Cardinality(reader.rows) /\ ~ reader.truncated
  BY DEF More
<1> HIDE DEF next, step
<1>6. /\ DOMAIN reader' = {"step", "offset", "mark", "rows", "truncated"}
      /\ reader'.step = step /\ reader'.offset = next
  BY <1>1
<1>7. Stored' = Stored
  BY <1>1 DEF Stored, InPhase
<1>8. CursorTypes'
  <2>1. delivered' \in [Writers -> Nat]
    BY <1>1 DEF CursorInv, CursorTypes
  <2> QED
    BY <1>1, <1>4, <1>5, <1>6, <1>7, <2>1 DEF CursorInv, CursorTypes
<1>9. ASSUME NEW w \in Due'
      PROVE  w \in Due /\ w \notin PageRows
  <2>1. w \in old /\ w \in Writers /\ delivered[w] \in Nat /\ delivered'[w] = 0
    BY <1>1, <1>2 DEF Due, CursorInv, CursorTypes
  <2>2. delivered'[w] = delivered[w] + (IF w \in PageRows THEN 1 ELSE 0)
    BY <1>1, <2>1
  <2> QED
    BY <2>1, <2>2 DEF Due
<1>10. ASSUME NEW w \in Due'
       PROVE  /\ w \in reader.rows => Place(w, reader.rows) > next
              /\ w \notin reader.rows => reader.truncated
              /\ Place(w, Stored) > next
  <2>1. w \in Due /\ w \notin PageRows /\ w \in Stored
    BY <1>9 DEF Due, CursorInv, CursorTypes
  <2>2. /\ Place(w, Stored) \in Nat /\ Place(w, reader.rows) \in Nat
        /\ Place(w, reader.rows) <= Place(w, Stored)
        /\ Place(w, Stored) > reader.offset
    BY <1>1, <1>2, <2>1, PlacesAreNumbers, PlacesGrow DEF CursorInv, DueIsAhead
  <2>3. CASE w \in reader.rows
    <3>1. Place(w, reader.rows) > reader.offset
      BY <1>1, <2>1, <2>3 DEF CursorInv, ScansReachDue
    <3>2. Place(w, reader.rows) > PageEnd
      BY <1>3, <2>1, <2>2, <2>3, <3>1 DEF PageRows
    <3> QED
      BY <1>2, <1>3, <1>4, <2>2, <2>3, <3>1, <3>2
  <2>4. CASE w \notin reader.rows
    <3>1. reader.truncated /\ \A x \in reader.rows : writer[x].start <= writer[w].start
      BY <1>1, <2>1, <2>4 DEF CursorInv, ScansReachDue
    <3>2. writer[w].start \in Nat
      BY <1>2, <2>1 DEF CursorInv, CursorTypes, Row
    <3>3. Place(w, Stored) > Cardinality(reader.rows)
      BY <1>2, <2>1, <2>4, <3>1, <3>2, PlacesBeyond
    <3> QED
      BY <1>2, <1>3, <1>4, <2>2, <2>4, <3>1, <3>3
  <2> QED
    BY <2>3, <2>4
<1>11. DueIsAhead'
  BY <1>1, <1>6, <1>7, <1>10 DEF DueIsAhead, Place
<1>12. ScansReachDue'
  BY <1>5, <1>6 DEF ScansReachDue
<1>13. NothingIsDue'
  <2>1. ASSUME step = "done", NEW w \in Due'
        PROVE  FALSE
    <3>1. w \in reader.rows
      BY <1>5, <1>10, <2>1
    <3>2. Place(w, reader.rows) <= Cardinality(reader.rows) /\ Place(w, reader.rows) \in Nat
      BY <1>2, PlacesAreNumbers
    <3> QED
      BY <1>2, <1>4, <1>5, <1>10, <2>1, <3>1, <3>2
  <2> QED
    BY <1>6, <2>1 DEF NothingIsDue
<1> QED
  BY <1>8, <1>11, <1>12, <1>13 DEF CursorInv

\* At the beginning nothing is stored and nothing is due.
LEMMA CursorInit == Init => CursorInv
<1> SUFFICES ASSUME Init
             PROVE  CursorInv
  OBVIOUS
<1>1. Stored = {} /\ IsFiniteSet({})
  BY FS_EmptySet DEF Init, Stored, InPhase
<1>2. CursorTypes
  BY <1>1 DEF Init, CursorTypes, Row, Phase, NoChain, Nothing
<1>3. DueIsAhead /\ ScansReachDue /\ NothingIsDue
  BY DEF Init, DueIsAhead, ScansReachDue, NothingIsDue, NoChain
<1> QED
  BY <1>2, <1>3 DEF CursorInv

\* What is due is always ahead of the cursor.
THEOREM DueStaysAhead == Spec => []CursorInv
<1>1. CursorInv /\ [Next]_vars => CursorInv'
  <2> SUFFICES ASSUME CursorInv, [Next]_vars
               PROVE  CursorInv'
    OBVIOUS
  <2>1. CASE UNCHANGED vars
    BY <2>1 DEF vars, CursorInv, CursorTypes, DueIsAhead, ScansReachDue, NothingIsDue, Due,
                Place, Stored, InPhase
  <2> QED
    BY <2>1, WritersKeepCursor, OpenKeepsCursor, ScanKeepsCursor, RejectKeepsCursor,
       PageKeepsCursor DEF Next, Read
<1> QED
  BY <1>1, CursorInit, PTL DEF Spec

\* A chain of pages that ends has delivered every edge that was stored when it
\* began, whatever commits in between and in whatever order of start, rank and
\* commit (researchNeighborhood).
THEOREM ChainsDeliverTheOld == Spec => []OldEdgesAreDelivered
<1>1. CursorInv => OldEdgesAreDelivered
  BY DEF CursorInv, CursorTypes, NothingIsDue, Due, OldEdgesAreDelivered, Stored, InPhase
<1> QED
  BY <1>1, DueStaysAhead, PTL

=============================================================================
