------------------------------ MODULE TaskLease ------------------------------
(***************************************************************************)
(* The leases of one Task.  Each command takes the time once, reads the    *)
(* leases, waits for its event to be signed and then writes what it        *)
(* decided on; other commands commit in between.  Actors hold at most one  *)
(* row each (the primary key), and a row is never removed.                 *)
(***************************************************************************)
EXTENDS Naturals, FiniteSets

CONSTANTS
    Actors,
    Invocations, \* of commands
    Duration,  \* of a new lease, in ticks
    Extension, \* of a renewal
    MaxTime,   \* bound: the clock
    MaxExpiry  \* bound: the expiry of a renewed lease

ASSUME DurationsArePositive == Duration \in Nat \ {0} /\ Extension \in Nat \ {0}
ASSUME BoundsAreNatural == MaxTime \in Nat /\ MaxExpiry \in Nat

VARIABLES
    lease,  \* task_leases: the row of each actor
    now,
    running, \* the command each invocation is in, and what it has read
    crossed \* history: the pairs of actors of whom one's row was written while
            \* a command of the other was between its read and its write

leaseVars == <<lease, now, running, crossed>>

Lease == [state : {"none", "current", "deleted"}, expires : Nat]
Command == {"none", "acquire", "renew", "release", "expire"}

\* missed: history, the actors whose rows others have written since the read.
Invocation == [command : Command, actors : SUBSET Actors, expires : Nat,
               missed : SUBSET Actors]

TypeOK ==
    /\ lease \in [Actors -> Lease]
    /\ now \in Nat
    /\ running \in [Invocations -> Invocation]
    /\ crossed \subseteq SUBSET Actors

NotRunning == [command |-> "none", actors |-> {}, expires |-> 0, missed |-> {}]

LeaseInit ==
    /\ lease = [a \in Actors |-> [state |-> "none", expires |-> 0]]
    /\ now = 0
    /\ running = [t \in Invocations |-> NotRunning]
    /\ crossed = {}

Current == {a \in Actors : lease[a].state = "current"}
ActiveAt(time) == {a \in Current : lease[a].expires > time}

\* An invocation starts: it has taken the time and read the leases.
Start(t, command, actors, expires) ==
    /\ running[t] = NotRunning
    /\ running' = [running EXCEPT ![t] = [command |-> command, actors |-> actors,
                                           expires |-> expires, missed |-> {}]]
    /\ UNCHANGED <<lease, now, crossed>>

\* An invocation writes the rows of its actors and commits.
Finish(t, rows) ==
    /\ lease' = rows
    /\ running' = [u \in Invocations |->
          IF u = t THEN NotRunning
          ELSE IF running[u] = NotRunning THEN NotRunning
          ELSE [running[u] EXCEPT !.missed = @ \union running[t].actors]]
    /\ crossed' = crossed \union {{a, b} : a \in running[t].actors, b \in running[t].missed}
    /\ UNCHANGED now

-----------------------------------------------------------------------------
\* Fault: only the actor's own lease stands in the way.
AcquireBeside(t, a) ==
    /\ a \notin ActiveAt(now)
    /\ Start(t, "acquire", {a}, now + Duration)

Acquire(t, a) ==
    /\ ActiveAt(now) = {}
    /\ Start(t, "acquire", {a}, now + Duration)

StoreLease(t) ==
    /\ running[t].command = "acquire"
    /\ \A a \in running[t].actors : lease[a].state = "none"
    /\ Finish(t, [a \in Actors |->
                    IF a \in running[t].actors
                    THEN [state |-> "current", expires |-> running[t].expires]
                    ELSE lease[a]])

Renew(t, a) ==
    /\ a \in ActiveAt(now)
    /\ lease[a].expires + Extension <= MaxExpiry
    /\ Start(t, "renew", {a}, lease[a].expires + Extension)

\* The update names the row by Task and holder and sets its expiry.
StoreRenewal(t) ==
    /\ running[t].command = "renew"
    /\ Finish(t, [a \in Actors |->
                    IF a \in running[t].actors
                    THEN [lease[a] EXCEPT !.expires = running[t].expires]
                    ELSE lease[a]])

Release(t, a) ==
    /\ a \in Current
    /\ Start(t, "release", {a}, 0)

\* Fault: the sweep takes leases in their last tick.
ExpireEarly(t) ==
    LET closing == {a \in Current : lease[a].expires <= now + 1}
    IN  closing # {} /\ Start(t, "expire", closing, 0)

\* The sweep: one invocation closes every lease it found expired.
Expire(t) ==
    /\ Current \ ActiveAt(now) # {}
    /\ Start(t, "expire", Current \ ActiveAt(now), 0)

\* Both set deleted_at on the rows they read.
StoreDeletion(t) ==
    /\ running[t].command \in {"release", "expire"}
    /\ Finish(t, [a \in Actors |->
                    IF a \in running[t].actors
                    THEN [lease[a] EXCEPT !.state = "deleted"]
                    ELSE lease[a]])

\* A refused signature, a refused write or a crash.
AbortInvocation(t) ==
    /\ running[t] # NotRunning
    /\ running' = [running EXCEPT ![t] = NotRunning]
    /\ UNCHANGED <<lease, now, crossed>>

Tick ==
    /\ now < MaxTime
    /\ now' = now + 1
    /\ UNCHANGED <<lease, running, crossed>>

LeaseNext ==
    \/ \E t \in Invocations :
          \/ \E a \in Actors : Acquire(t, a) \/ Renew(t, a) \/ Release(t, a)
          \/ Expire(t) \/ StoreLease(t) \/ StoreRenewal(t) \/ StoreDeletion(t)
          \/ AbortInvocation(t)
    \/ Tick

LeaseSpec == LeaseInit /\ [][LeaseNext]_leaseVars

-----------------------------------------------------------------------------
\* Two actors never hold the Task at the same time ("grants one exclusive
\* time-bounded lease per Task").  It does not hold: see the next property.
LeaseIsExclusive == Cardinality(ActiveAt(now)) <= 1

\* Two actors hold the Task at the same time only if the row of one was written
\* between the read and the write of a command of the other: who reads the
\* leases after a holder's lease was stored or renewed is refused, through
\* every acquisition, renewal, release and sweep of the two and of others.
OnlyCrossedLeasesOverlap ==
    \A a, b \in ActiveAt(now) : a = b \/ {a, b} \in crossed

SweepSpares(t) ==
    running[t].command = "expire" /\ running'[t] = NotRunning =>
        \A a \in ActiveAt(now) \ running[t].missed : lease'[a] = lease[a]

RenewalExtends(t) ==
    running[t].command = "renew" /\ lease' # lease /\ running'[t] = NotRunning =>
        \A a \in running[t].actors \ running[t].missed :
            /\ lease'[a].state = "current"
            /\ lease'[a].expires > lease[a].expires

\* No command takes from a holder what another gave, unless that was written
\* between its own read and its write: the sweep closes only leases that have
\* run out, however long ago it read them and whatever others hold by now; and
\* a renewal that is stored leaves its actor a current lease of a later expiry,
\* though the lease may have run out and others been stored since it was read
\* ("soft-deletes leases whose expiry has passed", "extends only an unexpired
\* lease held by the authenticated Actor").
HoldersKeepTheirLeases ==
    [][\A t \in Invocations : SweepSpares(t) /\ RenewalExtends(t)]_leaseVars

\* A lease that was released or swept never becomes current again, though
\* renewals and acquisitions decided earlier are written after it.
DeletedStaysDeleted ==
    [][\A a \in Actors : lease[a].state = "deleted" => lease'[a].state = "deleted"]_leaseVars

=============================================================================
