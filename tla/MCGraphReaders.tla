---------------------------- MODULE MCGraphReaders ----------------------------
(***************************************************************************)
(* The two readers of graphs: the pages of a neighbourhood in the kernel,  *)
(* and the graph on a Claim's page.  They share no variable and no         *)
(* property spans both; so in each behaviour just one of them leaves its   *)
(* initial state, and the states of the run are those of the two, one      *)
(* after the other.                                                        *)
(***************************************************************************)
EXTENDS GraphCursor, GraphView

-----------------------------------------------------------------------------
(* Four transactions and pages of two edges: chains of one page to three,  *)
(* with commits of every order before, between and after them.             *)

CONSTANTS w1, w2, w3, w4

-----------------------------------------------------------------------------
(* Two relations of different types between the same two Claims, one back, *)
(* and a third Claim further on; three relations are more than a graph may *)
(* hold.                                                                   *)

CONSTANTS c1, c2, c3

Relation(type, source, target) == [type |-> type, source |-> source, target |-> target]

MCLinks == {Relation("depends_on", c1, c2), Relation("refutes", c1, c2),
            Relation("extends", c2, c1), Relation("depends_on", c2, c3)}

-----------------------------------------------------------------------------
ReadersInit == Init /\ ViewInit

ReadersNext ==
    \/ ViewInit /\ Next /\ UNCHANGED viewVars
    \/ Init /\ ViewNext /\ UNCHANGED vars

ReadersSpec == ReadersInit /\ [][ReadersNext]_<<vars, viewVars>> /\ WF_vars(Read)

\* The Claim page alone.
PageSpec == ReadersInit /\ [][ViewNext /\ UNCHANGED vars]_<<vars, viewVars>>

=============================================================================
