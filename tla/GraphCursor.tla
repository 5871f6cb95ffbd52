------------------------------ MODULE GraphCursor ------------------------------
(***************************************************************************)
(* Reading the neighbourhood of one node page by page while typed-node     *)
(* commands commit more edges into it.  The cursor holds an offset into    *)
(* the edges ordered by created_at (the start of the transaction that      *)
(* stored them) and the watermark, the highest commit rank seen; a rank is *)
(* drawn later in the transaction, and a transaction may commit after      *)
(* others that started, or drew their rank, after it.                      *)
(*                                                                         *)
(* Each writer stores one edge from the root to a new neighbour, which is  *)
(* the neighbourhood of depth 1 downstream of the root.                    *)
(***************************************************************************)
EXTENDS Naturals, FiniteSets

CONSTANTS
    Writers,    \* the transactions that add an edge to the neighbourhood
    NodeLimit,  \* nodes on a page, the root included
    EdgeLimit,  \* edges on a page
    Ceiling,    \* what one traversal reads at most, of each
    MaxOpen     \* transactions open at the same time

ASSUME LimitsAreUsable ==
    /\ NodeLimit \in Nat /\ NodeLimit >= 2
    /\ EdgeLimit \in Nat \ {0} /\ Ceiling \in Nat /\ MaxOpen \in Nat

VARIABLES
    writer,    \* each transaction, in [Writers -> Row]: phase, start, commit rank
    clock,     \* database time, in transaction starts
    seq,       \* the commit rank sequence
    reader,    \* the client's Chain of pages and the request in hand
    delivered, \* how often the chain has delivered each edge
    old        \* the edges that were stored when the chain began

vars == <<writer, clock, seq, reader, delivered, old>>

Phase == {"new", "open", "ranked", "stored", "aborted"}
Row == [phase : Phase, start : Nat, rank : Nat]
Chain == [step : {"idle", "asking", "scanned", "done"},
          offset : Nat, mark : Nat,   \* the cursor; 0 is no watermark
          rows : SUBSET Writers,      \* the edges a scan has returned
          truncated : BOOLEAN]

NoChain == [step |-> "idle", offset |-> 0, mark |-> 0, rows |-> {}, truncated |-> FALSE]
Nothing == [w \in Writers |-> 0]

\* The root itself was stored with rank 1.
Init ==
    /\ writer = [w \in Writers |-> [phase |-> "new", start |-> 0, rank |-> 0]]
    /\ clock = 1 /\ seq = 2
    /\ reader = NoChain
    /\ delivered = Nothing
    /\ old = {}

InPhase(p) == {w \in Writers : writer[w].phase = p}
Stored == InPhase("stored")

-----------------------------------------------------------------------------
(* The transactions of the write path *)

Begin(w) ==
    /\ writer[w].phase = "new"
    /\ Cardinality(InPhase("open") \union InPhase("ranked")) < MaxOpen
    /\ writer' = [writer EXCEPT ![w].phase = "open", ![w].start = clock]
    /\ clock' = clock + 1
    /\ UNCHANGED <<seq, reader, delivered, old>>

AllocateRank(w) ==
    /\ writer[w].phase = "open"
    /\ writer' = [writer EXCEPT ![w].phase = "ranked", ![w].rank = seq]
    /\ seq' = seq + 1
    /\ UNCHANGED <<clock, reader, delivered, old>>

\* Edge and neighbour become visible together.
Commit(w) ==
    /\ writer[w].phase = "ranked"
    /\ writer' = [writer EXCEPT ![w].phase = "stored"]
    /\ UNCHANGED <<clock, seq, reader, delivered, old>>

Abort(w) ==
    /\ writer[w].phase \in {"open", "ranked"}
    /\ writer' = [writer EXCEPT ![w].phase = "aborted"]
    /\ UNCHANGED <<clock, seq, reader, delivered, old>>

-----------------------------------------------------------------------------
(* researchNeighborhood *)

\* The place of an edge among the given ones in the order of created_at.
Place(w, edges) == Cardinality({x \in edges : writer[x].start <= writer[w].start})

Least(S) == CHOOSE x \in S : \A y \in S : x <= y

\* Fault: every page traverses as far as the first.
ReachOfFirst(offset) == Least({Ceiling, EdgeLimit, NodeLimit - 1, Ceiling - 1})

\* A later page traverses again from the root, further the larger its offset.
Reach(offset) ==
    Least({Ceiling, EdgeLimit + offset, NodeLimit + 2 * offset - 1, Ceiling - 1})

\* The client asks for the first page of a new chain.
Open ==
    /\ reader.step = "idle"
    /\ reader' = [reader EXCEPT !.step = "asking"]
    /\ delivered' = Nothing
    /\ old' = Stored
    /\ UNCHANGED <<writer, clock, seq>>

\* The relation query and the walk over it.
Scan ==
    /\ reader.step = "asking"
    /\ reader' = [reader EXCEPT
                    !.step = "scanned",
                    !.rows = {w \in Stored : Place(w, Stored) <= Reach(reader.offset)},
                    !.truncated = Cardinality(Stored) > Reach(reader.offset)]
    /\ UNCHANGED <<writer, clock, seq, delivered, old>>

\* The watermark is read after the edges, in a statement of its own.
Watermark ==
    LET ranks == {writer[w].rank : w \in Stored} \union {1}
    IN  CHOOSE r \in ranks : \A s \in ranks : s <= r

\* 409 when the cursor was issued at another watermark: the client starts over.
RejectStale ==
    /\ reader.step = "scanned"
    /\ reader.mark # 0 /\ reader.mark # Watermark
    /\ reader' = NoChain
    /\ UNCHANGED <<writer, clock, seq, delivered, old>>

PageEnd == Least({Cardinality(reader.rows), reader.offset + EdgeLimit,
                  reader.offset + NodeLimit - 1})

\* Fault: the last page of a truncated traversal counts as the last of all.
MoreRows(next) == next < Cardinality(reader.rows)

PageRows ==
    {w \in reader.rows : /\ reader.offset < Place(w, reader.rows)
                         /\ Place(w, reader.rows) <= PageEnd}
More(next) == next < Cardinality(reader.rows) \/ reader.truncated

\* A page, and the cursor of the next one unless this was the last.  An offset
\* beyond the rows selects nothing and stays where it is.
ReturnPage ==
    LET next == IF PageEnd > reader.offset THEN PageEnd ELSE reader.offset
    IN  /\ reader.step = "scanned"
        /\ reader.mark \in {0, Watermark}
        /\ delivered' = [w \in Writers |->
                           delivered[w] + (IF w \in PageRows THEN 1 ELSE 0)]
        /\ reader' = [step |-> IF More(next) THEN "asking" ELSE "done",
                      offset |-> next, mark |-> Watermark,
                      rows |-> {}, truncated |-> FALSE]
        /\ UNCHANGED <<writer, clock, seq, old>>

-----------------------------------------------------------------------------
Write(w) == Begin(w) \/ AllocateRank(w) \/ Commit(w) \/ Abort(w)
Read == Scan \/ RejectStale \/ ReturnPage

Next == (\E w \in Writers : Write(w)) \/ Open \/ Read

Spec == Init /\ [][Next]_vars

\* A client that has begun asks on, and every request is answered.
FairSpec == Spec /\ WF_vars(Read)

-----------------------------------------------------------------------------
\* A chain that ends has delivered every edge that was stored when it began,
\* whatever commits in between: rows only ever move towards the end of the
\* order, so no page boundary can jump over one (researchNeighborhood).
OldEdgesAreDelivered ==
    reader.step = "done" => \A w \in old : delivered[w] >= 1

\* Every page that offers a next one brings the client closer to the end, or
\* the watermark has moved and the client starts over: the chain ends.
ReaderFinishes == reader.step = "asking" ~> reader.step \in {"done", "idle"}

=============================================================================
