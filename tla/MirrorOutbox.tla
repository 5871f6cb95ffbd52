----------------------------- MODULE MirrorOutbox -----------------------------
(***************************************************************************)
(* The delivery of published frontiers to their public mirror.  A signed   *)
(* event and its outbox job are stored together; worker passes, started by *)
(* a schedule, a queue or a request and possibly overlapping, claim the    *)
(* jobs that are due, mirror the frontier ones to a GitHub release, and    *)
(* acknowledge, reschedule or dead-letter each of them.                    *)
(*                                                                         *)
(* Every call a pass makes may fail, may fail after it took effect (its    *)
(* answer is lost), and the pass itself may die between any two calls.     *)
(* Time passes in ticks; a pass stamps what it writes with the time at     *)
(* which it began.                                                         *)
(***************************************************************************)
EXTENDS Naturals, FiniteSets

CONSTANTS
    Workers,      \* passes that may run at the same time
    Jobs,         \* outbox jobs
    FrontierJobs, \* the jobs of frontier.published events
    NoJob,
    Clients,      \* whether a pass finds a mirror client: a set of booleans
    Limit,        \* jobs claimed by one pass
    MaxAttempts,
    BaseDelay, MaxDelay  \* of the backoff, in ticks

ASSUME JobsAreKinded == FrontierJobs \subseteq Jobs /\ NoJob \notin Jobs
ASSUME ClientsAreBoolean == Clients \subseteq BOOLEAN
ASSUME OptionsAreValid ==
    /\ Limit \in Nat \ {0} /\ MaxAttempts \in Nat \ {0}
    /\ BaseDelay \in Nat \ {0} /\ MaxDelay \in Nat /\ BaseDelay <= MaxDelay

VARIABLES
    job,      \* event_outbox, in [Jobs -> JobRow]: one row for each published event
    worker,   \* what each pass is doing, in [Workers -> Pass]
    assets,   \* jobs whose bundle is on the mirror
    receipts  \* mirror_receipts, counted by job

outboxVars == <<job, worker, assets, receipts>>

Terminal == {"processed", "dead_letter"}
JobRow == [status : {"unpublished", "pending", "processing"} \union Terminal,
           attempts : 0 .. MaxAttempts,
           wait : 0 .. MaxDelay]  \* ticks until available_at

\* held: claimed and not yet looked at; current: the job in hand
Pass == [step : {"idle", "next", "export", "release", "asset", "receipt", "ack",
                 "failed"},
         held : SUBSET Jobs, current : Jobs \union {NoJob},
         client : BOOLEAN, age : 0 .. MaxDelay]

NoPass == [step |-> "idle", held |-> {}, current |-> NoJob, client |-> FALSE, age |-> 0]

OutboxInit ==
    /\ job = [j \in Jobs |-> [status |-> "unpublished", attempts |-> 0, wait |-> 0]]
    /\ worker = [w \in Workers |-> NoPass]
    /\ assets = {}
    /\ receipts = [j \in Jobs |-> 0]

-----------------------------------------------------------------------------
\* appendResearchEventWithOutbox: the event and its job, in one transaction.
Publish(j) ==
    /\ job[j].status = "unpublished"
    /\ job' = [job EXCEPT ![j].status = "pending"]
    /\ UNCHANGED <<worker, assets, receipts>>

\* Faults: claims look at the time only; a job at its last attempt is forgotten.
DueByTime == {j \in Jobs : job[j].status \in {"pending", "processing"} /\ job[j].wait = 0}
DueButTheLast ==
    {j \in Jobs : /\ job[j].status = "pending" /\ job[j].wait = 0
                  /\ job[j].attempts + 1 < MaxAttempts}

Due == {j \in Jobs : job[j].status = "pending" /\ job[j].wait = 0}

\* Every update of a claimed row is conditional on its status.
StillProcessing(j) == job[j].status = "processing"

\* claimOutboxJobs: one atomic compare-and-set takes as many due jobs as the
\* limit allows (which of them is the database's choice).
StartPass(w) ==
    /\ worker[w].step = "idle"
    /\ \E claimed \in SUBSET Due, client \in Clients :
         /\ claimed # {}
         /\ Cardinality(claimed) = Limit \/ (claimed = Due /\ Cardinality(Due) <= Limit)
         /\ job' = [j \in Jobs |-> IF j \in claimed
                                   THEN [job[j] EXCEPT !.status = "processing"]
                                   ELSE job[j]]
         /\ worker' = [worker EXCEPT ![w] = [NoPass EXCEPT !.step = "next",
                                               !.held = claimed, !.client = client]]
    /\ UNCHANGED <<assets, receipts>>

\* The worker turns to the next claimed job and mirrors it.
TakeJob(w, j) ==
    /\ worker[w].step = "next" /\ j \in worker[w].held
    /\ j \in FrontierJobs /\ worker[w].client
    /\ worker' = [worker EXCEPT ![w].step = "export", ![w].held = @ \ {j},
                                ![w].current = j]
    /\ UNCHANGED <<job, assets, receipts>>

\* An event of another type, or no mirror client: requeued at once, and the
\* attempt is not counted.  The answer of the repository is not looked at.
SkipJob(w, j) ==
    /\ worker[w].step = "next" /\ j \in worker[w].held
    /\ j \notin FrontierJobs \/ ~ worker[w].client
    /\ job' = IF StillProcessing(j)
              THEN [job EXCEPT ![j].status = "pending", ![j].wait = 0]
              ELSE job
    /\ worker' = [worker EXCEPT ![w].held = @ \ {j}]
    /\ UNCHANGED <<assets, receipts>>

\* The pass returns once it has been through its jobs.
EndPass(w) ==
    /\ worker[w].step = "next" /\ worker[w].held = {}
    /\ worker' = [worker EXCEPT ![w] = NoPass]
    /\ UNCHANGED <<job, assets, receipts>>

-----------------------------------------------------------------------------
(* processFrontierMirrorJob: a chain of calls; an error in any of them is    *)
(* caught and leads to "failed".                                             *)

Advance(w, from, to) ==
    /\ worker[w].step = from
    /\ worker' = [worker EXCEPT ![w].step = to]

\* Resolve the snapshot and export it as a ZIP: reads only.
Export(w) == Advance(w, "export", "release") /\ UNCHANGED <<job, assets, receipts>>

\* GitHub creates the release of the frontier's tag.
CreateRelease(w) == Advance(w, "release", "asset") /\ UNCHANGED <<job, assets, receipts>>

\* GitHub stores the ZIP; its answer may be lost.
UploadAsset(w) ==
    /\ \E next \in {"receipt", "failed"} : Advance(w, "asset", next)
    /\ assets' = assets \union {worker[w].current}
    /\ UNCHANGED <<job, receipts>>

\* Fault: an insert whose answer is lost is repeated on the spot.
InsertReceiptAgain(w) ==
    /\ \E next \in {"ack", "receipt"} : Advance(w, "receipt", next)
    /\ receipts' = [receipts EXCEPT ![worker[w].current] = @ + 1]
    /\ UNCHANGED <<job, assets>>

\* A receipt with a fresh id; the database's answer may be lost.
InsertReceipt(w) ==
    /\ \E next \in {"ack", "failed"} : Advance(w, "receipt", next)
    /\ receipts' = [receipts EXCEPT ![worker[w].current] = @ + 1]
    /\ UNCHANGED <<job, assets>>

\* Fault: the acknowledgement does not wait for the receipt.
AcknowledgeEarly(w) ==
    /\ worker[w].step \in {"receipt", "ack"}
    /\ StillProcessing(worker[w].current)
    /\ job' = [job EXCEPT ![worker[w].current].status = "processed"]
    /\ worker' = [worker EXCEPT ![w].step = "next", ![w].current = NoJob]
    /\ UNCHANGED <<assets, receipts>>

\* markOutboxProcessed changes a processing row only; if its answer is lost
\* the worker takes the acknowledgement as failed.
Acknowledge(w) ==
    LET j == worker[w].current
    IN  /\ worker[w].step = "ack"
        /\ StillProcessing(j)
        /\ job' = [job EXCEPT ![j].status = "processed"]
        /\ worker' \in {[worker EXCEPT ![w].step = "next", ![w].current = NoJob],
                        [worker EXCEPT ![w].step = "failed"]}
        /\ UNCHANGED <<assets, receipts>>

\* Any of the calls fails without an effect.
CallFails(w) ==
    /\ \E from \in {"export", "release", "asset", "receipt", "ack"} :
          Advance(w, from, "failed")
    /\ UNCHANGED <<job, assets, receipts>>

Smaller(a, b) == IF a <= b THEN a ELSE b
Backoff(attempts) == Smaller(BaseDelay * 2^attempts, MaxDelay)

\* available_at counts from the start of the pass, not from the failure.
WaitAfter(w, attempts) ==
    IF Backoff(attempts) > worker[w].age THEN Backoff(attempts) - worker[w].age ELSE 0

AtLimit(attempts) == attempts + 1 >= MaxAttempts

\* The caught error: dead-letter at the limit, reschedule below it.  If the
\* answer is lost the row has changed all the same and the pass dies.
Settle(w) ==
    LET j == worker[w].current
        n == job[j].attempts
    IN  /\ worker[w].step = "failed"
        /\ StillProcessing(j)
        /\ job' = [job EXCEPT ![j] =
                     IF AtLimit(n)
                     THEN [status |-> "dead_letter", attempts |-> n + 1, wait |-> 0]
                     ELSE [status |-> "pending", attempts |-> n + 1,
                           wait |-> WaitAfter(w, n)]]
        /\ worker' \in {[worker EXCEPT ![w].step = "next", ![w].current = NoJob],
                        [worker EXCEPT ![w] = NoPass]}
        /\ UNCHANGED <<assets, receipts>>

\* A crash, an eviction, an error that nothing catches (reading an event,
\* requeueing or settling a job that is not processing any more): the pass is
\* gone and what it had claimed stays as it was.
Abandon(w) ==
    /\ worker[w].step # "idle"
    /\ worker' = [worker EXCEPT ![w] = NoPass]
    /\ UNCHANGED <<job, assets, receipts>>

\* A job whose row was already settled cannot be settled again: the error of
\* the retry ends the pass.
SettleRefused(w) ==
    /\ worker[w].step = "failed"
    /\ ~ StillProcessing(worker[w].current)
    /\ Abandon(w)

Tick ==
    /\ \/ \E j \in Jobs : job[j].wait > 0
       \/ \E w \in Workers : worker[w].step # "idle" /\ worker[w].age < MaxDelay
    /\ job' = [j \in Jobs |-> [job[j] EXCEPT !.wait = IF @ = 0 THEN 0 ELSE @ - 1]]
    /\ worker' = [w \in Workers |->
                    IF worker[w].step = "idle" THEN worker[w]
                    ELSE [worker[w] EXCEPT !.age = Smaller(@ + 1, MaxDelay)]]
    /\ UNCHANGED <<assets, receipts>>

-----------------------------------------------------------------------------
\* The steps a running pass takes by itself.
Work(w) ==
    \/ \E j \in Jobs : TakeJob(w, j) \/ SkipJob(w, j)
    \/ EndPass(w) \/ Export(w) \/ CreateRelease(w) \/ UploadAsset(w)
    \/ InsertReceipt(w) \/ Acknowledge(w) \/ CallFails(w) \/ Settle(w)
    \/ SettleRefused(w)

OutboxNext ==
    \/ \E j \in Jobs : Publish(j)
    \/ \E w \in Workers : StartPass(w) \/ Work(w) \/ Abandon(w)
    \/ Tick

OutboxSpec == OutboxInit /\ [][OutboxNext]_outboxVars

\* Passes are started again and again, a pass that lives goes on, and time
\* passes.  Nothing forces a publication, a success or a crash.
OutboxFairness ==
    /\ \A w \in Workers : WF_outboxVars(StartPass(w)) /\ WF_outboxVars(Work(w))
    /\ WF_outboxVars(Tick)

FairOutbox == OutboxSpec /\ OutboxFairness

-----------------------------------------------------------------------------
Holders(j) == {w \in Workers : j \in worker[w].held \/ worker[w].current = j}

\* Two passes never work on the same job, however they overlap, fail and
\* restart: the mirror is not written twice at once (claimOutboxJobs; task
\* M7-09: concurrent workers do not process the same job twice).
OneHolder ==
    \A j \in Jobs : /\ Cardinality(Holders(j)) <= 1
                    /\ job[j].status \in {"unpublished", "pending"} => Holders(j) = {}

\* A job is acknowledged only when the bundle is on the mirror and a receipt
\* says so (acknowledgeOutboxJob after mirrorFrontierBundle).
ProcessedIsMirrored ==
    \A j \in Jobs : job[j].status = "processed" => j \in assets /\ receipts[j] >= 1

\* Delivery is at least once: an attempt that fails after its receipt was
\* stored leaves the receipt behind, but every receipt is paid for by an
\* attempt that was counted or by the one that succeeded; and the count is
\* exact, a job is dead-lettered at its last attempt and not before
\* (processFrontierMirrorJob, retryOutboxJob, deadLetterOutboxJob).
ReceiptsArePaidFor ==
    \A j \in Jobs :
        /\ receipts[j] <= job[j].attempts
                            + (IF job[j].status \in {"processing", "processed"} THEN 1 ELSE 0)
        /\ job[j].status = "dead_letter" <=> job[j].attempts = MaxAttempts

Outcome(row) ==
    CASE row.status = "unpublished" -> "none"
      [] row.status \in {"pending", "processing"} -> "open"
      [] row.status = "processed" -> "delivered"
      [] row.status = "dead_letter" -> "dead"

\* What publishers may rely on, whatever passes there are and whoever of them
\* has the job in hand.
Promise == INSTANCE Delivery WITH
              Job <- Jobs, Mirrorable <- FrontierJobs, Tries <- MaxAttempts,
              outcome <- [j \in Jobs |-> Outcome(job[j])],
              tries <- [j \in Jobs |-> job[j].attempts],
              mirror <- assets

\* However passes overlap, fail, lose answers and die, each step of theirs is
\* one of a single careful delivery, or shows nothing: no mirror without an open
\* job, no receipt without the mirror, no second receipt in one attempt, no
\* acknowledgement without a receipt, no step of a job that has ended
\* (runMirrorQueuePass, processFrontierMirrorJob and the conditional updates).
ImplementsDelivery == Promise!Spec

Orphaned(j) == job[j].status = "processing" /\ Holders(j) = {}

PassesHaveClients == \A w \in Workers : worker[w].step # "idle" => worker[w].client

Settled(j) == job[j].status \in Terminal \/ Orphaned(j)

\* Again and again a moment comes when every frontier job that has been published
\* is processed or dead-lettered, or the pass that held it died; since jobs that
\* have settled stay so, none is left open for ever (docs/m12-frontier-bundles.md:
\* acknowledged on success, rescheduled on failure, dead-lettered over the limit).
\* Two things it takes are not the worker's.  Passes must have a mirror client:
\* without one they requeue for ever and count no attempt, so the moment is one
\* after the last of those.  And a claim must have room for more than the jobs of
\* other events: they are requeued at once and due again, and could fill it every
\* time.
FrontierJobsSettle ==
    Cardinality(Jobs \ FrontierJobs) < Limit =>
        []<>(\/ ~ PassesHaveClients
             \/ \A j \in FrontierJobs : job[j].status = "unpublished" \/ Settled(j))

=============================================================================
