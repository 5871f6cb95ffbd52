------------------------------- MODULE Delivery -------------------------------
(***************************************************************************)
(* What the outbox promises to whoever published an event: a job that is   *)
(* accepted is tried a number of times and then ends, delivered or dead;   *)
(* what is mirrored for it comes before the receipt that says so, and the  *)
(* receipt before the delivery; and a job that has ended is left alone.    *)
(* Who works on it, when, and what is lost on the way does not show.       *)
(***************************************************************************)
EXTENDS Naturals

CONSTANTS Job,
          Mirrorable, \* the jobs that something is mirrored for
          Tries       \* that a job gets

VARIABLES outcome, \* of each job: "none", "open", "delivered" or "dead"
          tries,   \* that have failed, of each job
          mirror,  \* the jobs whose bundle is on the mirror
          receipts \* of each job

vars == <<outcome, tries, mirror, receipts>>

Init ==
    /\ outcome = [j \in Job |-> "none"]
    /\ tries = [j \in Job |-> 0]
    /\ mirror = {}
    /\ receipts = [j \in Job |-> 0]

Accept(j) ==
    /\ outcome[j] = "none"
    /\ outcome' = [outcome EXCEPT ![j] = "open"]
    /\ UNCHANGED <<tries, mirror, receipts>>

InWork(j) == j \in Mirrorable /\ outcome[j] = "open"

Mirror(j) ==
    /\ InWork(j)
    /\ mirror' = mirror \union {j}
    /\ UNCHANGED <<outcome, tries, receipts>>

\* A try leaves at most one receipt, of what is on the mirror.
Receipt(j) ==
    /\ InWork(j) /\ j \in mirror /\ receipts[j] <= tries[j]
    /\ receipts' = [receipts EXCEPT ![j] = @ + 1]
    /\ UNCHANGED <<outcome, tries, mirror>>

Deliver(j) ==
    /\ InWork(j) /\ j \in mirror /\ receipts[j] > 0
    /\ outcome' = [outcome EXCEPT ![j] = "delivered"]
    /\ UNCHANGED <<tries, mirror, receipts>>

\* The last try that fails ends the job.
Fail(j) ==
    /\ InWork(j) /\ tries[j] < Tries
    /\ tries' = [tries EXCEPT ![j] = @ + 1]
    /\ outcome' = [outcome EXCEPT ![j] = IF tries[j] + 1 = Tries THEN "dead" ELSE "open"]
    /\ UNCHANGED <<mirror, receipts>>

Next == \E j \in Job : Accept(j) \/ Mirror(j) \/ Receipt(j) \/ Deliver(j) \/ Fail(j)

Spec == Init /\ [][Next]_vars

-----------------------------------------------------------------------------
\* Nothing is done for a job that has ended.
EndsAreFinal ==
    [][\A j \in Job : outcome[j] \in {"delivered", "dead"} =>
           /\ outcome'[j] = outcome[j] /\ tries'[j] = tries[j]
           /\ j \in mirror' <=> j \in mirror
           /\ receipts'[j] = receipts[j]]_vars

=============================================================================
