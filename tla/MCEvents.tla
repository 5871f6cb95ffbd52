------------------------------- MODULE MCEvents -------------------------------
(***************************************************************************)
(* What happens to an event after it is signed: the log, its checkpoints   *)
(* and bundles (the instances of MCChronicle), and the delivery of the     *)
(* published frontiers (two overlapping passes, with or without a mirror   *)
(* client, two frontier jobs and one job of another type, two attempts for *)
(* each).  A job here is any job: no variable and no property joins the    *)
(* two; so in each behaviour just one of them leaves its initial state,    *)
(* the outbox beside a log that is idle.                                   *)
(***************************************************************************)
EXTENDS MCChronicle, MirrorOutbox

CONSTANTS f1, f2, o1

-----------------------------------------------------------------------------
EventsInit == Init /\ OutboxInit

EventsNext ==
    \/ OutboxInit /\ Next /\ UNCHANGED outboxVars
    \/ script = Idle /\ Init /\ OutboxNext /\ UNCHANGED vars

EventsSpec ==
    EventsInit /\ [][EventsNext]_<<vars, outboxVars>> /\ OutboxFairness

=============================================================================
