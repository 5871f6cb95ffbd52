---------------------------- MODULE TaskWorkProofs ----------------------------
(***************************************************************************)
(* What surrounds the work on one Task: its leases, the context bundles    *)
(* compiled for it, and the verification of the Runs it leads to; for any  *)
(* actors, members, rows, submissions, policies and commands in flight.    *)
(***************************************************************************)
EXTENDS TaskLease, ContextBundles, Verification, FiniteSetTheorems, TLAPS

-----------------------------------------------------------------------------
(* The leases *)

\* What an invocation may hold once it has started.
LEMMA StartedType ==
    ASSUME TypeOK, NEW t \in Invocations, NEW command \in Command,
           NEW actors \in SUBSET Actors, NEW expires \in Nat,
           Start(t, command, actors, expires)
    PROVE  TypeOK'
<1>1. [command |-> command, actors |-> actors, expires |-> expires, missed |-> {}] \in Invocation
  BY DEF TypeOK, Invocation
<1> QED
  BY <1>1 DEF TypeOK, Start

\* What an invocation may write.
LEMMA FinishedType ==
    ASSUME TypeOK, NEW t \in Invocations, NEW rows \in [Actors -> Lease], Finish(t, rows)
    PROVE  TypeOK'
<1>1. NotRunning \in Invocation
  BY DEF NotRunning, Invocation, Command
<1>2. \A u \in Invocations : running[u] \in Invocation
  BY DEF TypeOK
<1>3. \A u \in Invocations :
         [running[u] EXCEPT !.missed = @ \union running[t].actors] \in Invocation
  BY <1>2 DEF Invocation
<1>4. running' \in [Invocations -> Invocation]
  BY <1>1, <1>3 DEF Finish
<1> DEFINE pairs == {{a, b} : a \in running[t].actors, b \in running[t].missed}
<1>5. pairs \subseteq SUBSET Actors
  BY <1>2 DEF Invocation
<1>6. crossed' \subseteq SUBSET Actors
  <2>1. crossed' = crossed \union pairs
    BY DEF Finish
  <2>2. crossed \subseteq SUBSET Actors
    BY DEF TypeOK
  <2> HIDE DEF pairs
  <2> QED
    BY <1>5, <2>1, <2>2
<1>7. lease' = rows /\ now' = now
  BY DEF Finish
<1> HIDE DEF Lease
<1> QED
  BY <1>4, <1>6, <1>7 DEF TypeOK

\* Every step of a lease command keeps the types.
LEMMA TypeStep == TypeOK /\ [LeaseNext]_leaseVars => TypeOK'
<1> SUFFICES ASSUME TypeOK, [LeaseNext]_leaseVars PROVE TypeOK'
  OBVIOUS
<1> USE DurationsArePositive
<1>0. /\ \A a \in Actors : lease[a] \in Lease /\ lease[a].expires \in Nat
      /\ \A t \in Invocations : running[t].expires \in Nat /\ running[t].actors \subseteq Actors
      /\ now \in Nat /\ Current \subseteq Actors
  BY DEF TypeOK, Lease, Invocation, Current
<1>1. ASSUME NEW t \in Invocations, NEW a \in Actors, Acquire(t, a) PROVE TypeOK'
  <2>1. now + Duration \in Nat /\ "acquire" \in Command /\ {a} \subseteq Actors
    BY <1>0 DEF Command
  <2> QED
    BY <1>1, <2>1, StartedType DEF Acquire
<1>2. ASSUME NEW t \in Invocations, NEW a \in Actors, Renew(t, a) PROVE TypeOK'
  <2>1. lease[a].expires + Extension \in Nat /\ "renew" \in Command /\ {a} \subseteq Actors
    BY <1>0 DEF Command
  <2> QED
    BY <1>2, <2>1, StartedType DEF Renew
<1>3. ASSUME NEW t \in Invocations, NEW a \in Actors, Release(t, a) PROVE TypeOK'
  <2>1. 0 \in Nat /\ "release" \in Command /\ {a} \subseteq Actors
    BY DEF Command
  <2> QED
    BY <1>3, <2>1, StartedType DEF Release
<1>4. ASSUME NEW t \in Invocations, Expire(t) PROVE TypeOK'
  <2>1. /\ 0 \in Nat /\ "expire" \in Command
        /\ Current \ ActiveAt(now) \subseteq Actors
    BY <1>0 DEF Command
  <2> QED
    BY <1>4, <2>1, StartedType DEF Expire
<1>5. ASSUME NEW t \in Invocations, StoreLease(t) PROVE TypeOK'
  <2> DEFINE rows == [a \in Actors |->
                        IF a \in running[t].actors
                        THEN [state |-> "current", expires |-> running[t].expires]
                        ELSE lease[a]]
  <2>1. rows \in [Actors -> Lease]
    BY <1>0 DEF Lease
  <2>2. Finish(t, rows)
    BY <1>5 DEF StoreLease
  <2> QED
    BY <2>1, <2>2, FinishedType
<1>6. ASSUME NEW t \in Invocations, StoreRenewal(t) PROVE TypeOK'
  <2> DEFINE rows == [a \in Actors |->
                        IF a \in running[t].actors
                        THEN [lease[a] EXCEPT !.expires = running[t].expires]
                        ELSE lease[a]]
  <2>1. rows \in [Actors -> Lease]
    BY <1>0 DEF Lease
  <2>2. Finish(t, rows)
    BY <1>6 DEF StoreRenewal
  <2> QED
    BY <2>1, <2>2, FinishedType
<1>7. ASSUME NEW t \in Invocations, StoreDeletion(t) PROVE TypeOK'
  <2> DEFINE rows == [a \in Actors |->
                        IF a \in running[t].actors
                        THEN [lease[a] EXCEPT !.state = "deleted"]
                        ELSE lease[a]]
  <2>1. rows \in [Actors -> Lease]
    BY <1>0 DEF Lease
  <2>2. Finish(t, rows)
    BY <1>7 DEF StoreDeletion
  <2> QED
    BY <2>1, <2>2, FinishedType
<1>8. ASSUME NEW t \in Invocations, AbortInvocation(t) PROVE TypeOK'
  <2>1. NotRunning \in Invocation
    BY DEF NotRunning, Invocation, Command
  <2> QED
    BY <1>8, <2>1 DEF AbortInvocation, TypeOK
<1>9. CASE Tick
  BY <1>9 DEF Tick, TypeOK
<1>10. CASE UNCHANGED leaseVars
  BY <1>10 DEF leaseVars, TypeOK
<1> QED
  BY <1>1, <1>2, <1>3, <1>4, <1>5, <1>6, <1>7, <1>8, <1>9, <1>10 DEF LeaseNext

\* The rows and the invocations keep their types.
THEOREM LeaseTypes == LeaseSpec => []TypeOK
<1>1. LeaseInit => TypeOK
  BY DEF LeaseInit, TypeOK, Lease, Invocation, NotRunning, Command
<1> QED
  BY <1>1, TypeStep, PTL DEF LeaseSpec

-----------------------------------------------------------------------------
\* The rows change in three actions only; the two that could put something
\* else in the place of a deletion are the insert, which the primary key
\* refuses, and the renewal, which leaves the state alone.
LEMMA DeletionStays ==
    ASSUME TypeOK, [LeaseNext]_leaseVars, NEW a \in Actors, lease[a].state = "deleted"
    PROVE  lease'[a].state = "deleted"
<1>1. ASSUME NEW t \in Invocations, StoreLease(t) PROVE lease'[a].state = "deleted"
  <2>1. a \notin running[t].actors
    BY <1>1 DEF StoreLease
  <2> QED
    BY <1>1, <2>1 DEF StoreLease, Finish
<1>2. ASSUME NEW t \in Invocations, StoreRenewal(t) PROVE lease'[a].state = "deleted"
  <2>1. lease[a] \in Lease
    BY DEF TypeOK
  <2>2. lease'[a] = lease[a] \/ lease'[a] = [lease[a] EXCEPT !.expires = running[t].expires]
    BY <1>2 DEF StoreRenewal, Finish
  <2> QED
    BY <2>1, <2>2 DEF Lease
<1>3. ASSUME NEW t \in Invocations, StoreDeletion(t) PROVE lease'[a].state = "deleted"
  <2>1. lease[a] \in Lease
    BY DEF TypeOK
  <2>2. lease'[a] = lease[a] \/ lease'[a] = [lease[a] EXCEPT !.state = "deleted"]
    BY <1>3 DEF StoreDeletion, Finish
  <2> QED
    BY <2>1, <2>2 DEF Lease
<1>4. ASSUME NEW t \in Invocations, NEW b \in Actors,
             Acquire(t, b) \/ Renew(t, b) \/ Release(t, b)
      PROVE  lease' = lease
  BY <1>4 DEF Acquire, Renew, Release, Start
<1>5. ASSUME NEW t \in Invocations, Expire(t) \/ AbortInvocation(t) PROVE lease' = lease
  BY <1>5 DEF Expire, AbortInvocation, Start, Finish
<1>6. Tick \/ UNCHANGED leaseVars => lease' = lease
  BY DEF Tick, leaseVars
<1> QED
  BY <1>1, <1>2, <1>3, <1>4, <1>5, <1>6 DEF LeaseNext

\* A lease that was released or swept never becomes current again, however
\* many commands were decided before and are written after it
\* (acquireTaskLease, renewTaskLease, the primary key of task_leases).
THEOREM DeletedNeverReturns == LeaseSpec => DeletedStaysDeleted
<1>1. TypeOK /\ [LeaseNext]_leaseVars =>
        [\A a \in Actors : lease[a].state = "deleted" => lease'[a].state = "deleted"]_leaseVars
  BY DeletionStays
<1> QED
  BY <1>1, LeaseTypes, PTL DEF LeaseSpec, DeletedStaysDeleted

-----------------------------------------------------------------------------
(* Lease commands that run across one another.                             *)

\* Two actors that hold the Task have crossed.
Paired == \A a, b \in ActiveAt(now) : a = b \/ {a, b} \in crossed

\* What a command under way was decided on is still so, but for the rows that
\* others have written since: who acquires or renews is one actor, and of other
\* holders none is new but those; what is swept has run out; and a renewal is of
\* a current lease, and later than its expiry.
Reserved ==
    \A t \in Invocations :
        /\ running[t].command \in {"acquire", "renew"} =>
              /\ \A a, b \in running[t].actors : a = b
              /\ \A b \in running[t].actors : \A a \in ActiveAt(now) :
                    a = b \/ a \in running[t].missed \/ {a, b} \in crossed
        /\ running[t].command = "expire" =>
              \A a \in running[t].actors :
                  a \in running[t].missed \/ a \notin ActiveAt(now)
        /\ running[t].command = "renew" =>
              \A a \in running[t].actors :
                  \/ a \in running[t].missed
                  \/ /\ lease[a].state = "current"
                     /\ running[t].expires > lease[a].expires

LeaseInv == TypeOK /\ Paired /\ Reserved

\* A command that starts finds what it is decided on, and others go on.
LEMMA StartReserves ==
    ASSUME LeaseInv, NEW t \in Invocations, NEW command \in Command,
           NEW actors \in SUBSET Actors, NEW expires \in Nat,
           Start(t, command, actors, expires),
           command \in {"acquire", "renew"} =>
              /\ \A a, b \in actors : a = b
              /\ \A b \in actors : \A a \in ActiveAt(now) : a = b \/ {a, b} \in crossed,
           command = "expire" => \A a \in actors : a \notin ActiveAt(now),
           command = "renew" => \A a \in actors : lease[a].state = "current"
                                                  /\ expires > lease[a].expires
    PROVE  LeaseInv'
<1>1. TypeOK'
  BY StartedType DEF LeaseInv
<1>2. /\ running'[t] = [command |-> command, actors |-> actors, expires |-> expires,
                        missed |-> {}]
      /\ \A u \in Invocations : u # t => running'[u] = running[u]
      /\ lease' = lease /\ now' = now /\ crossed' = crossed
  BY DEF Start, LeaseInv, TypeOK
<1>3. ActiveAt(now)' = ActiveAt(now)
  BY <1>2 DEF ActiveAt, Current
<1>4. Paired'
  BY <1>2, <1>3 DEF LeaseInv, Paired
<1>5. ASSUME NEW u \in Invocations
      PROVE  /\ running'[u].command \in {"acquire", "renew"} =>
                  /\ \A a, b \in running'[u].actors : a = b
                  /\ \A b \in running'[u].actors : \A a \in ActiveAt(now)' :
                        a = b \/ a \in running'[u].missed \/ {a, b} \in crossed'
             /\ running'[u].command = "expire" =>
                  \A a \in running'[u].actors :
                      a \in running'[u].missed \/ a \notin ActiveAt(now)'
             /\ running'[u].command = "renew" =>
                  \A a \in running'[u].actors :
                      \/ a \in running'[u].missed
                      \/ /\ lease'[a].state = "current"
                         /\ running'[u].expires > lease'[a].expires
  <2>1. CASE u = t
    BY <1>2, <1>3, <2>1
  <2>2. CASE u # t
    BY <1>2, <1>3, <2>2 DEF LeaseInv, Reserved
  <2> QED
    BY <2>1, <2>2
<1>6. Reserved'
  BY <1>5 DEF Reserved
<1> QED
  BY <1>1, <1>4, <1>6 DEF LeaseInv

\* A command that writes no row but its actors' own tells every other of them.
\* Who becomes a holder by it is in hand, and the others that hold were missed
\* or are paired already.
LEMMA FinishTells ==
    ASSUME LeaseInv, NEW t \in Invocations, NEW rows \in [Actors -> Lease], Finish(t, rows),
           \A a \in Actors : a \notin running[t].actors => rows[a] = lease[a],
           running[t].command \notin {"acquire", "renew"} => ActiveAt(now)' \subseteq ActiveAt(now)
    PROVE  LeaseInv'
<1>1. TypeOK'
  BY FinishedType DEF LeaseInv
<1>2. /\ lease' = rows /\ now' = now
      /\ running'[t] = NotRunning
      /\ \A u \in Invocations : u # t => running'[u].command = running[u].command
                                         /\ running'[u].actors = running[u].actors
                                         /\ running'[u].expires = running[u].expires
                                         /\ running[u].missed \subseteq running'[u].missed
      /\ \A u \in Invocations :
            u # t /\ running'[u] # NotRunning => running[t].actors \subseteq running'[u].missed
      /\ crossed \subseteq crossed'
      /\ \A a \in running[t].actors : \A b \in running[t].missed : {a, b} \in crossed'
  BY DEF Finish, LeaseInv, TypeOK, Invocation
<1>3. /\ running[t].actors \subseteq Actors
      /\ ActiveAt(now) \subseteq Actors /\ ActiveAt(now)' \subseteq Actors
  BY DEF LeaseInv, TypeOK, Invocation, ActiveAt, Current
<1>4. \A a \in ActiveAt(now)' : a \in ActiveAt(now) \/ a \in running[t].actors
  BY <1>2, <1>3 DEF ActiveAt, Current
<1>5. ASSUME NEW a \in ActiveAt(now)', NEW b \in ActiveAt(now)', a # b
      PROVE  {a, b} \in crossed'
  <2>1. CASE a \in ActiveAt(now) /\ b \in ActiveAt(now)
    BY <1>2, <1>5, <2>1 DEF LeaseInv, Paired
  <2>2. CASE a \notin ActiveAt(now) \/ b \notin ActiveAt(now)
    <3>1. PICK x \in {a, b} : x \notin ActiveAt(now)
      BY <2>2
    <3>2. PICK y \in {a, b} : y # x
      BY <1>5
    <3>3. x \in running[t].actors /\ running[t].command \in {"acquire", "renew"}
      BY <1>4, <1>5, <3>1
    <3>4. y \in ActiveAt(now)
      BY <1>4, <1>5, <3>2, <3>3 DEF LeaseInv, Reserved
    <3>5. y \in running[t].missed \/ {y, x} \in crossed
      BY <3>2, <3>3, <3>4 DEF LeaseInv, Reserved
    <3>6. {x, y} = {a, b} /\ {y, x} = {x, y}
      BY <3>1, <3>2
    <3> QED
      BY <1>2, <3>3, <3>5, <3>6
  <2> QED
    BY <2>1, <2>2
<1>6. Paired'
  BY <1>5 DEF Paired
<1>7. ASSUME NEW u \in Invocations, running'[u].command # "none"
      PROVE  /\ u # t /\ running'[u].command = running[u].command
             /\ running'[u].actors = running[u].actors
             /\ running'[u].expires = running[u].expires
             /\ running[u].missed \subseteq running'[u].missed
             /\ running[t].actors \subseteq running'[u].missed
  <2>1. u # t /\ running'[u] # NotRunning
    BY <1>2, <1>7 DEF NotRunning
  <2> QED
    BY <1>2, <2>1
<1>8. ASSUME NEW u \in Invocations, running'[u].command \in {"acquire", "renew"},
             NEW b \in running'[u].actors, NEW a \in ActiveAt(now)'
      PROVE  a = b \/ a \in running'[u].missed \/ {a, b} \in crossed'
  <2>1. CASE a \in running[t].actors
    BY <1>7, <1>8, <2>1
  <2>2. CASE a \notin running[t].actors
    <3>1. a \in ActiveAt(now)
      BY <1>4, <2>2
    <3>2. a = b \/ a \in running[u].missed \/ {a, b} \in crossed
      BY <1>7, <1>8, <3>1 DEF LeaseInv, Reserved
    <3> QED
      BY <1>2, <1>7, <1>8, <3>2
  <2> QED
    BY <2>1, <2>2
<1>9. ASSUME NEW u \in Invocations, running'[u].command = "expire", NEW a \in running'[u].actors
      PROVE  a \in running'[u].missed \/ a \notin ActiveAt(now)'
  <2>1. CASE a \in running[t].actors
    BY <1>7, <1>9, <2>1
  <2>2. CASE a \notin running[t].actors
    <3>1. a \in running[u].missed \/ a \notin ActiveAt(now)
      BY <1>7, <1>9 DEF LeaseInv, Reserved
    <3> QED
      BY <1>4, <1>7, <1>9, <2>2, <3>1
  <2> QED
    BY <2>1, <2>2
<1>10. ASSUME NEW u \in Invocations, running'[u].command = "renew", NEW a \in running'[u].actors
       PROVE  \/ a \in running'[u].missed
              \/ lease'[a].state = "current" /\ running'[u].expires > lease'[a].expires
  <2>1. CASE a \in running[t].actors
    BY <1>7, <1>10, <2>1
  <2>2. CASE a \notin running[t].actors
    <3>1. a \in Actors
      BY <1>7, <1>10 DEF LeaseInv, TypeOK, Invocation
    <3>2. lease'[a] = lease[a]
      BY <1>2, <2>2, <3>1
    <3>3. \/ a \in running[u].missed
          \/ lease[a].state = "current" /\ running[u].expires > lease[a].expires
      BY <1>7, <1>10 DEF LeaseInv, Reserved
    <3> QED
      BY <1>7, <1>10, <3>2, <3>3
  <2> QED
    BY <2>1, <2>2
<1>11. ASSUME NEW u \in Invocations, running'[u].command \in {"acquire", "renew"},
              NEW a \in running'[u].actors, NEW b \in running'[u].actors
       PROVE  a = b
  BY <1>7, <1>11 DEF LeaseInv, Reserved
<1>12. Reserved'
  BY <1>8, <1>9, <1>10, <1>11 DEF Reserved
<1> QED
  BY <1>1, <1>6, <1>12 DEF LeaseInv

\* What ends a command without writing, and the clock, leave the others what
\* they were decided on.
LEMMA RestReserved ==
    ASSUME LeaseInv, TypeOK', UNCHANGED <<lease, crossed>>, ActiveAt(now)' \subseteq ActiveAt(now),
           \A u \in Invocations : running'[u] \in {running[u], NotRunning}
    PROVE  LeaseInv'
<1>1. Paired'
  BY DEF LeaseInv, Paired
<1>2. ASSUME NEW u \in Invocations
      PROVE  /\ running'[u].command \in {"acquire", "renew"} =>
                  /\ \A a, b \in running'[u].actors : a = b
                  /\ \A b \in running'[u].actors : \A a \in ActiveAt(now)' :
                        a = b \/ a \in running'[u].missed \/ {a, b} \in crossed'
             /\ running'[u].command = "expire" =>
                  \A a \in running'[u].actors :
                      a \in running'[u].missed \/ a \notin ActiveAt(now)'
             /\ running'[u].command = "renew" =>
                  \A a \in running'[u].actors :
                      \/ a \in running'[u].missed
                      \/ /\ lease'[a].state = "current"
                         /\ running'[u].expires > lease'[a].expires
  <2>1. CASE running'[u] = NotRunning
    BY <2>1 DEF NotRunning
  <2>2. CASE running'[u] = running[u]
    BY <2>2 DEF LeaseInv, Reserved
  <2> QED
    BY <2>1, <2>2
<1>3. Reserved'
  BY <1>2 DEF Reserved
<1> QED
  BY <1>1, <1>3 DEF LeaseInv

\* Every step of a lease command keeps the invariant.
LEMMA LeaseStep == LeaseInv /\ [LeaseNext]_leaseVars => LeaseInv'
<1> SUFFICES ASSUME LeaseInv, [LeaseNext]_leaseVars PROVE LeaseInv'
  OBVIOUS
<1> USE DurationsArePositive
<1>0. /\ \A a \in Actors : lease[a] \in Lease /\ lease[a].expires \in Nat
      /\ lease \in [Actors -> Lease] /\ now \in Nat /\ Current \subseteq Actors
      /\ \A t \in Invocations : running[t].expires \in Nat /\ running[t].actors \subseteq Actors
  BY DEF LeaseInv, TypeOK, Lease, Invocation, Current
<1>T. TypeOK'
  BY TypeStep DEF LeaseInv
<1>1. ASSUME NEW t \in Invocations, NEW a \in Actors, Acquire(t, a) PROVE LeaseInv'
  <2>1. now + Duration \in Nat /\ "acquire" \in Command /\ {a} \subseteq Actors
    BY <1>0 DEF Command
  <2> QED
    BY <1>1, <2>1, StartReserves DEF Acquire
<1>2. ASSUME NEW t \in Invocations, NEW a \in Actors, Renew(t, a) PROVE LeaseInv'
  <2>1. /\ lease[a].expires + Extension \in Nat /\ "renew" \in Command /\ {a} \subseteq Actors
        /\ lease[a].expires + Extension > lease[a].expires
    BY <1>0 DEF Command
  <2>2. a \in ActiveAt(now) /\ lease[a].state = "current"
    BY <1>2 DEF Renew, ActiveAt, Current
  <2>3. \A b \in ActiveAt(now) : b = a \/ {b, a} \in crossed
    BY <2>2 DEF LeaseInv, Paired
  <2>4. /\ \A x, y \in {a} : x = y
        /\ \A x \in {a} : \A b \in ActiveAt(now) : b = x \/ {b, x} \in crossed
        /\ \A x \in {a} : lease[x].state = "current"
                           /\ lease[a].expires + Extension > lease[x].expires
    BY <2>1, <2>2, <2>3
  <2>5. Start(t, "renew", {a}, lease[a].expires + Extension)
    BY <1>2 DEF Renew
  <2>6. {a} \in SUBSET Actors
    OBVIOUS
  <2> DEFINE later == lease[a].expires + Extension
  <2>7. later \in Nat
    BY <2>1
  <2> HIDE DEF later
  <2> QED
    BY <2>1, <2>4, <2>5, <2>6, <2>7, StartReserves DEF later
<1>3. ASSUME NEW t \in Invocations, NEW a \in Actors, Release(t, a) PROVE LeaseInv'
  <2>1. 0 \in Nat /\ "release" \in Command /\ {a} \subseteq Actors
    BY DEF Command
  <2> QED
    BY <1>3, <2>1, StartReserves DEF Release
<1>4. ASSUME NEW t \in Invocations, Expire(t) PROVE LeaseInv'
  <2>1. /\ 0 \in Nat /\ "expire" \in Command
        /\ Current \ ActiveAt(now) \subseteq Actors
    BY <1>0 DEF Command
  <2> QED
    BY <1>4, <2>1, StartReserves DEF Expire
<1>5. ASSUME NEW t \in Invocations, StoreLease(t) PROVE LeaseInv'
  <2> DEFINE rows == [a \in Actors |->
                        IF a \in running[t].actors
                        THEN [state |-> "current", expires |-> running[t].expires]
                        ELSE lease[a]]
  <2>1. rows \in [Actors -> Lease] /\ \A a \in Actors : a \notin running[t].actors => rows[a] = lease[a]
    BY <1>0 DEF Lease
  <2>2. Finish(t, rows) /\ running[t].command = "acquire"
    BY <1>5 DEF StoreLease
  <2> HIDE DEF rows
  <2> QED
    BY <2>1, <2>2, FinishTells
<1>6. ASSUME NEW t \in Invocations, StoreRenewal(t) PROVE LeaseInv'
  <2> DEFINE rows == [a \in Actors |->
                        IF a \in running[t].actors
                        THEN [lease[a] EXCEPT !.expires = running[t].expires]
                        ELSE lease[a]]
  <2>1. rows \in [Actors -> Lease] /\ \A a \in Actors : a \notin running[t].actors => rows[a] = lease[a]
    BY <1>0 DEF Lease
  <2>2. Finish(t, rows) /\ running[t].command = "renew"
    BY <1>6 DEF StoreRenewal
  <2> HIDE DEF rows
  <2> QED
    BY <2>1, <2>2, FinishTells
<1>7. ASSUME NEW t \in Invocations, StoreDeletion(t) PROVE LeaseInv'
  <2> DEFINE rows == [a \in Actors |->
                        IF a \in running[t].actors
                        THEN [lease[a] EXCEPT !.state = "deleted"]
                        ELSE lease[a]]
  <2>1. rows \in [Actors -> Lease] /\ \A a \in Actors : a \notin running[t].actors => rows[a] = lease[a]
    BY <1>0 DEF Lease
  <2>2. Finish(t, rows) /\ running[t].command \in {"release", "expire"}
    BY <1>7 DEF StoreDeletion
  <2>3. \A a \in Actors : rows[a] = lease[a] \/ rows[a].state = "deleted"
    BY <1>0 DEF Lease
  <2>4. ActiveAt(now)' \subseteq ActiveAt(now)
    BY <2>2, <2>3 DEF Finish, ActiveAt, Current
  <2> HIDE DEF rows
  <2> QED
    BY <2>1, <2>2, <2>4, FinishTells
<1>8. ASSUME NEW t \in Invocations, AbortInvocation(t) PROVE LeaseInv'
  <2>1. /\ UNCHANGED <<lease, crossed>> /\ ActiveAt(now)' \subseteq ActiveAt(now)
        /\ \A u \in Invocations : running'[u] \in {running[u], NotRunning}
    BY <1>8 DEF AbortInvocation, ActiveAt, Current, LeaseInv, TypeOK
  <2> QED
    BY <1>T, <2>1, RestReserved
<1>9. CASE Tick
  <2>1. /\ UNCHANGED <<lease, crossed>> /\ ActiveAt(now)' \subseteq ActiveAt(now)
        /\ \A u \in Invocations : running'[u] \in {running[u], NotRunning}
    BY <1>0, <1>9 DEF Tick, ActiveAt, Current
  <2> QED
    BY <1>T, <2>1, RestReserved
<1>10. CASE UNCHANGED leaseVars
  <2>1. /\ UNCHANGED <<lease, crossed>> /\ ActiveAt(now)' \subseteq ActiveAt(now)
        /\ \A u \in Invocations : running'[u] \in {running[u], NotRunning}
    BY <1>10 DEF leaseVars, ActiveAt, Current
  <2> QED
    BY <1>T, <2>1, RestReserved
<1> QED
  BY <1>1, <1>2, <1>3, <1>4, <1>5, <1>6, <1>7, <1>8, <1>9, <1>10 DEF LeaseNext

\* What each command was decided on is true until it writes, but for the rows
\* that others have written since.
THEOREM CommandsAreReserved == LeaseSpec => []LeaseInv
<1>1. LeaseInit => LeaseInv
  <2> SUFFICES ASSUME LeaseInit PROVE LeaseInv
    OBVIOUS
  <2>1. TypeOK
    BY DEF LeaseInit, TypeOK, Lease, Invocation, NotRunning, Command
  <2>2. ActiveAt(now) = {} /\ \A t \in Invocations : running[t] = NotRunning
    BY DEF LeaseInit, ActiveAt, Current
  <2> QED
    BY <2>1, <2>2 DEF LeaseInv, Paired, Reserved, NotRunning
<1> QED
  BY <1>1, LeaseStep, PTL DEF LeaseSpec

\* For any number of actors and of commands across one another, two actors hold
\* the Task only if the row of one was written between the read and the write of
\* a command of the other (acquireTaskLease reads the active leases and inserts
\* after its event is signed; renewTaskLease and expireTaskLeases likewise).
THEOREM OnlyCrossedHoldersOverlap == LeaseSpec => []OnlyCrossedLeasesOverlap
<1>1. LeaseInv => OnlyCrossedLeasesOverlap
  BY DEF LeaseInv, Paired, OnlyCrossedLeasesOverlap
<1> QED
  BY <1>1, CommandsAreReserved, PTL

\* For any number of commands across one another, the sweep and the renewal
\* leave to each holder what it has, unless that was written between their own
\* read and write (expireTaskLeases, renewTaskLease).
THEOREM HoldersAreLeftAlone == LeaseSpec => HoldersKeepTheirLeases
<1>1. LeaseInv /\ [LeaseNext]_leaseVars =>
        [\A t \in Invocations : SweepSpares(t) /\ RenewalExtends(t)]_leaseVars
  <2> DEFINE Kept(t) == SweepSpares(t) /\ RenewalExtends(t)
  <2> SUFFICES ASSUME LeaseInv, LeaseNext, NEW t \in Invocations
               PROVE  Kept(t)
    OBVIOUS
  <2>0. \A u \in Invocations : running[u].actors \subseteq Actors
    BY DEF LeaseInv, TypeOK, Invocation
  <2>1. CASE lease' = lease
    BY <2>1 DEF SweepSpares, RenewalExtends
  <2>2. ASSUME NEW u \in Invocations, NEW rows, Finish(u, rows), u # t, running[t].command # "none"
        PROVE  Kept(t)
    <3>1. running'[t].command = running[t].command
      BY <2>2 DEF Finish, LeaseInv, TypeOK, Invocation
    <3>2. running'[t] # NotRunning
      BY <2>2, <3>1 DEF NotRunning
    <3> QED
      BY <3>2 DEF SweepSpares, RenewalExtends
  <2>3. CASE running[t].command = "none"
    BY <2>3 DEF SweepSpares, RenewalExtends
  <2>4. ASSUME NEW u \in Invocations, StoreLease(u) PROVE Kept(t)
    <3>1. CASE u = t
      BY <2>4, <3>1 DEF StoreLease, SweepSpares, RenewalExtends
    <3> QED
      BY <2>2, <2>3, <2>4, <3>1 DEF StoreLease
  <2>5. ASSUME NEW u \in Invocations, StoreRenewal(u) PROVE Kept(t)
    <3>1. CASE u = t
      <4>1. running[t].command = "renew"
        BY <2>5, <3>1 DEF StoreRenewal
      <4>2. ASSUME NEW a \in running[t].actors \ running[t].missed
            PROVE  lease'[a].state = "current" /\ lease'[a].expires > lease[a].expires
        <5>1. /\ a \in Actors /\ lease[a] \in Lease /\ lease[a].state = "current"
              /\ running[t].expires > lease[a].expires
          BY <2>0, <4>1 DEF LeaseInv, TypeOK, Reserved
        <5>2. lease'[a] = [lease[a] EXCEPT !.expires = running[t].expires]
          BY <2>5, <3>1, <5>1 DEF StoreRenewal, Finish
        <5> QED
          BY <5>1, <5>2 DEF Lease
      <4> QED
        BY <4>1, <4>2 DEF SweepSpares, RenewalExtends
    <3> QED
      BY <2>2, <2>3, <2>5, <3>1 DEF StoreRenewal
  <2>6. ASSUME NEW u \in Invocations, StoreDeletion(u) PROVE Kept(t)
    <3>1. CASE u = t
      <4>1. running[t].command \in {"release", "expire"}
        BY <2>6, <3>1 DEF StoreDeletion
      <4>2. ASSUME running[t].command = "expire", NEW a \in ActiveAt(now) \ running[t].missed
            PROVE  lease'[a] = lease[a]
        <5>1. a \notin running[t].actors /\ a \in Actors
          BY <4>2 DEF LeaseInv, Reserved, ActiveAt, Current
        <5> QED
          BY <2>6, <3>1, <5>1 DEF StoreDeletion, Finish
      <4> QED
        BY <4>1, <4>2 DEF SweepSpares, RenewalExtends
    <3> QED
      BY <2>2, <2>3, <2>6, <3>1 DEF StoreDeletion
  <2>7. ASSUME NEW u \in Invocations, NEW a \in Actors,
               Acquire(u, a) \/ Renew(u, a) \/ Release(u, a) \/ Expire(u) \/ AbortInvocation(u)
        PROVE  lease' = lease
    BY <2>7 DEF Acquire, Renew, Release, Expire, AbortInvocation, Start
  <2>8. ASSUME NEW u \in Invocations, Expire(u) \/ AbortInvocation(u)
        PROVE  lease' = lease
    BY <2>8 DEF Expire, AbortInvocation, Start
  <2>9. Tick => lease' = lease
    BY DEF Tick
  <2> QED
    BY <2>1, <2>4, <2>5, <2>6, <2>7, <2>8, <2>9 DEF LeaseNext
<1> QED
  BY <1>1, CommandsAreReserved, PTL DEF LeaseSpec, HoldersKeepTheirLeases

-----------------------------------------------------------------------------
(***************************************************************************)
(* The compilers.  Members are only added, so a job has read at least what *)
(* its caller saw, and what it hides is in the bundle; relations are       *)
(* listed for the members it read, unless it compiles a full trace.        *)
(***************************************************************************)

\* What a job cites are the members it read.
CitesMembers(given) ==
    /\ given.trace = {} /\ "trace" \notin given.due
    /\ \A r \in given.relations : {r.source, r.target} \subseteq given.members
    /\ given.mainstream \subseteq given.members

\* A job hides what its caller saw, at the place where it was seen.
HidesTheSeen(given) ==
    /\ given.secret \subseteq given.seen
    /\ given.hidden = {PositionIn(given.seen, m) : m \in given.secret}

JobIsFormed(given) ==
    {"mode", "due", "members", "relations", "mainstream", "trace", "seen", "secret", "hidden"}
        \subseteq DOMAIN given

\* Nothing is cited before the members are read, and what was seen is among them.
ReadsInOrder(given) ==
    IF "members" \in given.due THEN given.relations = {} /\ given.mainstream = {}
    ELSE given.seen \subseteq given.members

SnapshotGrows ==
    /\ IsFiniteSet(member) /\ member \subseteq Members
    /\ view \subseteq member /\ compiling.seen \subseteq member /\ compiling.members \subseteq member

BundleInv ==
    /\ SnapshotGrows
    /\ JobIsFormed(compiling)
    /\ HidesTheSeen(compiling)
    /\ ReadsInOrder(compiling)
    /\ compiling.mode # "full_trace" => CitesMembers(compiling)
    /\ FixedInputsCompile
    /\ WithheldStaysWithheld

\* A member that was seen has its place among the members that are read later.
LEMMA PlacesAreWithin ==
    ASSUME NEW read, IsFiniteSet(read), read \subseteq Members, NEW seen \in SUBSET read, NEW m \in seen
    PROVE  PositionIn(seen, m) \in Nat /\ PositionIn(seen, m) < Cardinality(read)
<1> DEFINE before == {other \in seen : other < m}
<1>1. m \in Nat /\ ~(m < m) /\ m \in read
  BY MembersAreNumbered
<1>2. before \subseteq read \ {m} /\ IsFiniteSet(read \ {m})
  BY <1>1, FS_Subset
<1>3. Cardinality(before) <= Cardinality(read \ {m}) /\ Cardinality(before) \in Nat
  BY <1>2, FS_Subset, FS_CardinalityType
<1>4. Cardinality(read \ {m}) = Cardinality(read) - 1 /\ Cardinality(read) \in Nat
  BY <1>1, FS_RemoveElement, FS_CardinalityType
<1> QED
  BY <1>3, <1>4 DEF PositionIn

\* A job that has read everything compiles, unless it had no members or was a full trace.
LEMMA ReadJobsCompile ==
    ASSUME BundleInv, compiling.due = {}, compiling.mode # "full_trace", compiling.members # {}
    PROVE  Pinned(compiling) /\ Hides(compiling)
<1>1. Pinned(compiling)
  BY DEF BundleInv, CitesMembers, Pinned
<1>2. Hides(compiling)
  <2>1. compiling.seen \subseteq compiling.members
    BY DEF BundleInv, ReadsInOrder
  <2>2. IsFiniteSet(compiling.members) /\ compiling.members \subseteq Members
    BY FS_Subset DEF BundleInv, SnapshotGrows
  <2>3. \A m \in compiling.secret : PositionIn(compiling.seen, m) < Cardinality(compiling.members)
    BY <2>1, <2>2, PlacesAreWithin DEF BundleInv, HidesTheSeen
  <2> QED
    BY <2>3 DEF BundleInv, HidesTheSeen, Hides
<1> QED
  BY <1>1, <1>2

\* What is stored beside a job leaves it as it is.
LEMMA StoringKeepsBundles ==
    ASSUME BundleInv, \/ \E m \in Members : AddMember(m) \/ Classify(m)
                      \/ \E r \in Relations : SetRelated(r)
                      \/ \E e \in TraceEvents : Trace(e)
    PROVE  BundleInv'
<1>1. compiling' = compiling /\ result' = result /\ view' = view
  BY DEF AddMember, Classify, SetRelated, Trace
<1>2. member' = member \/ \E m \in Members : member' = member \union {m}
  BY DEF AddMember, Classify, SetRelated, Trace
<1>3. SnapshotGrows'
  BY <1>1, <1>2, FS_AddElement DEF BundleInv, SnapshotGrows
<1> QED
  BY <1>1, <1>3 DEF BundleInv, FixedInputsCompile, WithheldStaysWithheld

\* A job begins with what its caller sees.
LEMMA StartKeepsBundles ==
    ASSUME BundleInv, NEW mode \in ContextModes, NEW secret \in SUBSET view, StartJob(mode, secret)
    PROVE  BundleInv'
<1> DEFINE hidden == {PositionIn(view, m) : m \in secret}
<1> DEFINE due == Lists(mode)
<1>1. compiling' = [NoContextJob EXCEPT !.mode = mode, !.due = due, !.seen = view,
                                        !.secret = secret, !.hidden = hidden]
  BY DEF StartJob
<1>2. "members" \in due /\ (mode # "full_trace" => "trace" \notin due)
  BY DEF Lists, ContextModes
<1> HIDE DEF hidden, due
<1>3. /\ JobIsFormed(compiling')
      /\ compiling'.mode = mode /\ compiling'.due = due /\ compiling'.seen = view
      /\ compiling'.secret = secret /\ compiling'.hidden = hidden
      /\ compiling'.members = {} /\ compiling'.relations = {} /\ compiling'.mainstream = {}
      /\ compiling'.trace = {}
  BY <1>1 DEF NoContextJob, JobIsFormed
<1>4. HidesTheSeen(compiling')
  BY <1>3 DEF HidesTheSeen, hidden
<1>5. SnapshotGrows'
  BY <1>3 DEF StartJob, BundleInv, SnapshotGrows
<1>6. ReadsInOrder(compiling') /\ (compiling'.mode # "full_trace" => CitesMembers(compiling'))
  BY <1>2, <1>3 DEF ReadsInOrder, CitesMembers
<1>7. FixedInputsCompile' /\ WithheldStaysWithheld'
  BY DEF StartJob, NoBundle, FixedInputsCompile, WithheldStaysWithheld
<1> QED
  BY <1>3, <1>4, <1>5, <1>6, <1>7 DEF BundleInv

\* The members are read once, before what is listed for them; a full trace before them.
LEMMA ReadingKeepsBundles ==
    ASSUME BundleInv, ReadTrace \/ ReadMembers \/ ReadDependencies \/ ReadCounterRelations \/ ReadMainstream
    PROVE  BundleInv'
<1>1. UNCHANGED <<member, result, view>>
  BY DEF ReadTrace, ReadMembers, ReadDependencies, ReadCounterRelations, ReadMainstream, ReadRelations
<1>2. FixedInputsCompile' /\ WithheldStaysWithheld'
  BY <1>1 DEF BundleInv, FixedInputsCompile, WithheldStaysWithheld
<1>3. CASE ReadTrace
  <2>1. /\ JobIsFormed(compiling') /\ "trace" \in compiling.due
        /\ compiling' = [compiling EXCEPT !.due = compiling.due \ {"trace"}, !.trace = trace]
    BY <1>3 DEF ReadTrace, BundleInv, JobIsFormed
  <2>2. compiling'.mode = "full_trace"
    BY <2>1 DEF BundleInv, CitesMembers, JobIsFormed
  <2> QED
    BY <1>1, <1>2, <2>1, <2>2
       DEF BundleInv, JobIsFormed, SnapshotGrows, HidesTheSeen, ReadsInOrder
<1>4. CASE ReadMembers
  <2>1. /\ JobIsFormed(compiling') /\ "members" \in compiling.due
        /\ compiling' = [compiling EXCEPT !.due = compiling.due \ {"members"}, !.members = member]
    BY <1>4 DEF ReadMembers, BundleInv, JobIsFormed
  <2> QED
    BY <1>1, <1>2, <2>1 DEF BundleInv, JobIsFormed, SnapshotGrows, HidesTheSeen, ReadsInOrder, CitesMembers
<1>5. ASSUME NEW list, NEW types, ReadRelations(list, types)
      PROVE  BundleInv'
  <2> DEFINE found == RelationsAmong(types, Listed)
  <2>1. /\ JobIsFormed(compiling') /\ "members" \notin compiling.due
        /\ compiling' = [compiling EXCEPT !.due = compiling.due \ {list},
                                          !.relations = compiling.relations \union found]
    BY <1>5 DEF ReadRelations, BundleInv, JobIsFormed
  <2>2. compiling.mode # "full_trace" => \A r \in found : {r.source, r.target} \subseteq compiling.members
    BY DEF RelationsAmong, Listed
  <2> HIDE DEF found
  <2> QED
    BY <1>1, <1>2, <2>1, <2>2 DEF BundleInv, JobIsFormed, SnapshotGrows, HidesTheSeen, ReadsInOrder, CitesMembers
<1>6. CASE ReadMainstream
  <2> DEFINE found == mainstream \intersect Listed
  <2>1. /\ JobIsFormed(compiling') /\ "members" \notin compiling.due
        /\ compiling' = [compiling EXCEPT !.due = compiling.due \ {"mainstream"}, !.mainstream = found]
    BY <1>6 DEF ReadMainstream, BundleInv, JobIsFormed
  <2>2. compiling.mode # "full_trace" => found \subseteq compiling.members
    BY DEF Listed
  <2> HIDE DEF found
  <2> QED
    BY <1>1, <1>2, <2>1, <2>2 DEF BundleInv, JobIsFormed, SnapshotGrows, HidesTheSeen, ReadsInOrder, CitesMembers
<1> QED
  BY <1>3, <1>4, <1>5, <1>6 DEF ReadDependencies, ReadCounterRelations

\* A job is over once it has compiled.
LEMMA RestIsFormed ==
    /\ JobIsFormed(NoContextJob) /\ HidesTheSeen(NoContextJob) /\ ReadsInOrder(NoContextJob)
    /\ CitesMembers(NoContextJob)
    /\ NoContextJob.seen = {} /\ NoContextJob.members = {}
BY DEF NoContextJob, JobIsFormed, HidesTheSeen, ReadsInOrder, CitesMembers

\* A bundle that is compiled shows nothing that it is to withhold.
LEMMA CompileKeepsBundles ==
    ASSUME BundleInv, Compile
    PROVE  BundleInv'
<1>1. compiling' = NoContextJob /\ member' = member /\ compiling.due = {}
  BY DEF Compile
<1>2. view' = view \/ view' = compiling.members
  BY DEF Compile
<1>3. SnapshotGrows'
  BY <1>1, <1>2, RestIsFormed DEF BundleInv, SnapshotGrows
<1>4. CASE Pinned(compiling) /\ Hides(compiling)
  <2>1. result' = Compiled(compiling)
    BY <1>4 DEF Compile
  <2>2. /\ result'.mode = compiling.mode /\ result'.refused = FALSE /\ result'.members = compiling.members
        /\ result'.stated = Shown(compiling) \ compiling.mainstream /\ result'.trace = compiling.trace
        /\ result'.outputs = (compiling.mode # "blind") /\ result'.job = compiling
    BY <2>1 DEF Compiled
  <2>3. FixedInputsCompile'
    BY <2>2 DEF FixedInputsCompile
  <2>4. compiling.seen = compiling.members => compiling.secret \intersect Shown(compiling) = {}
    BY DEF BundleInv, HidesTheSeen, Shown
  <2>5. WithheldStaysWithheld'
    BY <1>4, <2>2, <2>4 DEF WithheldStaysWithheld, Pinned
  <2> QED
    BY <1>1, <1>3, <2>3, <2>5, RestIsFormed DEF BundleInv
<1>5. CASE ~(Pinned(compiling) /\ Hides(compiling))
  <2>1. result' = Refusal(compiling)
    BY <1>5 DEF Compile
  <2>2. result'.mode = compiling.mode /\ result'.refused = TRUE /\ result'.job = compiling
    BY <2>1 DEF Refusal, NoBundle
  <2>3. compiling.mode = "full_trace" \/ compiling.members = {}
    BY <1>1, <1>5, ReadJobsCompile
  <2>4. FixedInputsCompile' /\ WithheldStaysWithheld'
    BY <2>2, <2>3 DEF FixedInputsCompile, WithheldStaysWithheld
  <2> QED
    BY <1>1, <1>3, <2>4, RestIsFormed DEF BundleInv
<1> QED
  BY <1>4, <1>5

\* Whatever is stored between the reads of a job, its invariant holds.
THEOREM JobsReadInOrder == ContextSpec => []BundleInv
<1>1. ContextInit => BundleInv
  BY RestIsFormed, FS_EmptySet DEF ContextInit, BundleInv, SnapshotGrows, FixedInputsCompile, WithheldStaysWithheld,
     NoBundle
<1>2. BundleInv /\ [ContextNext]_contextVars => BundleInv'
  <2> SUFFICES ASSUME BundleInv, [ContextNext]_contextVars
               PROVE  BundleInv'
    OBVIOUS
  <2>1. CASE ContextNext
    BY <2>1, StoringKeepsBundles, StartKeepsBundles, ReadingKeepsBundles, CompileKeepsBundles DEF ContextNext
  <2>2. CASE UNCHANGED contextVars
    BY <2>2 DEF contextVars, BundleInv, SnapshotGrows, FixedInputsCompile, WithheldStaysWithheld
  <2> QED
    BY <2>1, <2>2
<1> QED
  BY <1>1, <1>2, PTL DEF ContextSpec

\* A frontier, blind or adversarial bundle of a snapshot that has members is
\* never refused, whatever is added, related or classified between its reads
\* (compileFrontierContextJob, compileBlindContextJob,
\* compileAdversarialContextJob).
THEOREM FixedInputsAlwaysCompile == ContextSpec => []FixedInputsCompile
<1>1. BundleInv => FixedInputsCompile
  BY DEF BundleInv
<1> QED
  BY <1>1, JobsReadInOrder, PTL

\* What a bundle is to withhold cannot be read in it (compileBlindContext and
\* its deleteAtPointer, compileFullTraceContextJob).
THEOREM WithheldIsNeverRead == ContextSpec => []WithheldStaysWithheld
<1>1. BundleInv => WithheldStaysWithheld
  BY DEF BundleInv
<1> QED
  BY <1>1, JobsReadInOrder, PTL

-----------------------------------------------------------------------------
(***************************************************************************)
(* Verification.  A receipt and its findings are stored at once, so that a *)
(* job that lists a receipt finds them; a submission names an earlier      *)
(* receipt of its actor for its Run, or there was none when it was checked.*)
(* Two receipts that are no duplicates are of two actors or of two Runs,   *)
(* unless one was stored between the other's check and insert.             *)
(***************************************************************************)

Submitting(t) == txn[t].submission # None

TxnsAreFormed ==
    /\ DOMAIN txn = Txns
    /\ \A t \in Txns :
          /\ {"phase", "row", "submission", "duplicateOf", "beside"} \subseteq DOMAIN txn[t]
          /\ txn[t].beside \in BOOLEAN
          /\ txn[t].submission \in Submissions \union {None}
DuplicatesAreNamed ==
    \A t \in Txns : Submitting(t) =>
        txn[t].duplicateOf \in DuplicatesOf(txn[t].submission) \union {None}
ReceiptsAreSubmitted ==
    /\ IsFiniteSet(receipts)
    /\ \A r \in receipts : \E q \in Submissions : \E d, b : r = Receipt(q, d, b)
FindingsAreStored ==
    /\ \A r \in receipts : {f \in findings : f.receipt = r.id} = FindingsWith(r)
    /\ \A f \in findings : f.receipt \in {r.id : r \in receipts}

\* What is counted for a Claim are receipts for it, none a duplicate.
CountsFor(claim, policy, counted) ==
    /\ policy \in DOMAIN Policies
    /\ counted \subseteq receipts
    /\ \A r \in counted : r.claim = claim /\ r.duplicateOf = None

FindingsOf(rs) == UNION {FindingsWith(r) : r \in rs}

JobCounts(b) ==
    /\ {"phase", "claim", "policy", "counted", "unread", "heard"} \subseteq DOMAIN b
    /\ b.phase # "idle" =>
          /\ CountsFor(b.claim, b.policy, b.counted)
          /\ b.unread \subseteq b.counted /\ (b.phase = "listing" => b.counted = {})
          /\ b.heard = FindingsOf(b.counted \ b.unread)
JobsCount == DOMAIN job = Jobs /\ \A j \in Jobs : JobCounts(job[j])
EvaluationsCount ==
    \A e \in evaluations :
        /\ CountsFor(e.claim, e.policy, e.counted)
        /\ e.input = Input(e.counted, FindingsOf(e.counted))
        /\ e.met = RequirementsMet(e.policy, e.input)
ProposalsAreEvaluated ==
    \A p \in proposals :
        p.evaluation \in evaluations /\ (p.status = "ready" => p.evaluation.met)

\* A command that was not passed by another of its actor and Run names what
\* there is, so that of receipts that were not, one is no duplicate.
CountedOnce ==
    /\ \A t \in Txns : Submitting(t) /\ txn[t].duplicateOf = None /\ ~txn[t].beside =>
          \A r \in receipts : ~SameVoice(r, txn[t].submission)
    /\ \A r, s \in receipts :
          /\ r.duplicateOf = None /\ s.duplicateOf = None /\ ~r.beside /\ ~s.beside
          /\ SameVoice(r, s)
          => r = s

VerificationInv ==
    /\ TxnsAreFormed
    /\ DuplicatesAreNamed
    /\ ReceiptsAreSubmitted
    /\ FindingsAreStored
    /\ NoVoiceIsLost
    /\ CountedOnce
    /\ JobsCount
    /\ EvaluationsCount
    /\ ProposalsAreEvaluated

\* Commands that store rows leave what is verified alone, and submit nothing themselves.
Aside ==
    /\ UNCHANGED <<receipts, findings, job, evaluations, proposals>>
    /\ DOMAIN txn' = Txns
    /\ \A t \in Txns : \/ txn'[t] = txn[t]
                       \/ /\ {"phase", "row", "submission", "duplicateOf", "beside"} \subseteq DOMAIN txn'[t]
                          /\ txn'[t].submission = None /\ txn'[t].beside = FALSE

\* Nothing is submitted at rest.
LEMMA IdleSubmitsNothing ==
    /\ {"phase", "row", "submission", "duplicateOf", "beside"} \subseteq DOMAIN Idle
    /\ Idle.submission = None /\ Idle.beside = FALSE
BY DEF Idle

\* The commands that store rows.
LEMMA RowsAreStoredAside ==
    ASSUME VerificationInv,
           \/ \E a \in Artifacts : Verify(a)
           \/ \E t \in Txns : (\E r \in Rows \ stored : CheckRow(t, r)) \/ StoreRow(t) \/ Abort(t)
    PROVE  Aside
<1>1. DOMAIN txn = Txns
  BY DEF VerificationInv, TxnsAreFormed
<1>2. ASSUME NEW a \in Artifacts, Verify(a)
      PROVE  Aside
  BY <1>1, <1>2 DEF Verify, Aside
<1>3. ASSUME NEW t \in Txns, NEW r \in Rows, CheckRow(t, r)
      PROVE  Aside
  <2>1. Sign(t, r)
    BY <1>3 DEF CheckRow, CreateArtifact, AppendArtifactLocation, SubmitExternalArtifactLocation,
                CreateContextBundle, CreateRun, CreateEvidence, LinkEvidenceClaim,
                CreateVerificationContract, CreateVerificationPolicy
  <2>2. txn' = [txn EXCEPT ![t].phase = "signing", ![t].row = r] /\ txn[t] = Idle
    BY <2>1 DEF Sign
  <2>3. DOMAIN txn'[t] = DOMAIN Idle /\ txn'[t].submission = Idle.submission
          /\ txn'[t].beside = Idle.beside
    BY <1>1, <2>2, IdleSubmitsNothing
  <2> QED
    BY <1>1, <2>1, <2>2, <2>3, IdleSubmitsNothing DEF Sign, Aside
<1>4. ASSUME NEW t \in Txns, StoreRow(t) \/ Abort(t)
      PROVE  Aside
  BY <1>1, <1>4, IdleSubmitsNothing DEF StoreRow, Abort, Aside
<1> QED
  BY <1>2, <1>3, <1>4

\* They keep the invariant.
LEMMA AsideKeeps ==
    ASSUME VerificationInv, Aside
    PROVE  VerificationInv'
<1>1. \A t \in Txns : Submitting(t)' => txn'[t] = txn[t] /\ Submitting(t)
  BY DEF Aside, Submitting
<1>2. \A q : DuplicatesOf(q)' = DuplicatesOf(q)
  BY DEF Aside, DuplicatesOf
<1>3. TxnsAreFormed' /\ DuplicatesAreNamed'
  <2>1. TxnsAreFormed'
    BY DEF VerificationInv, TxnsAreFormed, Aside
  <2>2. DuplicatesAreNamed'
    BY <1>1, <1>2 DEF VerificationInv, DuplicatesAreNamed
  <2> QED
    BY <2>1, <2>2
<1>4. /\ ReceiptsAreSubmitted' /\ FindingsAreStored' /\ NoVoiceIsLost'
      /\ JobsCount' /\ EvaluationsCount' /\ ProposalsAreEvaluated'
  BY DEF VerificationInv, Aside, ReceiptsAreSubmitted, FindingsAreStored, NoVoiceIsLost, JobsCount,
         JobCounts, EvaluationsCount, CountsFor, ProposalsAreEvaluated
<1>5. CountedOnce'
  BY <1>1 DEF VerificationInv, CountedOnce, Aside
<1> QED
  BY <1>3, <1>4, <1>5 DEF VerificationInv

\* A submission names a receipt that is there, if one is.
LEMMA CheckKeeps ==
    ASSUME VerificationInv, NEW t \in Txns, NEW q \in Submissions, CheckReceipt(t, q)
    PROVE  VerificationInv'
<1>1. PICK d \in IF DuplicatesOf(q) = {} THEN {None} ELSE DuplicatesOf(q) :
        txn' = [txn EXCEPT ![t] = [phase |-> "signing", row |-> None, submission |-> q,
                                   duplicateOf |-> d, beside |-> FALSE]]
  BY DEF CheckReceipt
<1>2. DOMAIN txn = Txns /\ q # None
  BY NoneIsNoSubmission DEF VerificationInv, TxnsAreFormed
<1>3. /\ DOMAIN txn' = Txns
      /\ \A u \in Txns : u # t => txn'[u] = txn[u]
      /\ {"phase", "row", "submission", "duplicateOf", "beside"} \subseteq DOMAIN txn'[t]
      /\ txn'[t].submission = q /\ txn'[t].duplicateOf = d /\ txn'[t].beside = FALSE
  BY <1>1, <1>2
<1>4. UNCHANGED <<receipts, findings, job, evaluations, proposals>>
  BY DEF CheckReceipt
<1>5. \A p : DuplicatesOf(p)' = DuplicatesOf(p)
  BY <1>4 DEF DuplicatesOf
<1>6. TxnsAreFormed'
  BY <1>3 DEF VerificationInv, TxnsAreFormed
<1>7. DuplicatesAreNamed'
  BY <1>1, <1>3, <1>5 DEF VerificationInv, DuplicatesAreNamed, Submitting
<1>8. /\ ReceiptsAreSubmitted' /\ FindingsAreStored' /\ NoVoiceIsLost'
      /\ JobsCount' /\ EvaluationsCount' /\ ProposalsAreEvaluated'
  BY <1>4 DEF VerificationInv, ReceiptsAreSubmitted, FindingsAreStored, NoVoiceIsLost, JobsCount,
              JobCounts, EvaluationsCount, CountsFor, ProposalsAreEvaluated
<1>9. CountedOnce'
  <2>1. d = None => \A r \in receipts : ~SameVoice(r, q)
    BY <1>1, NoneIsNoSubmission DEF DuplicatesOf, VerificationInv, ReceiptsAreSubmitted, Receipt
  <2> QED
    BY <1>3, <1>4, <2>1 DEF VerificationInv, CountedOnce, Submitting
<1> QED
  BY <1>6, <1>7, <1>8, <1>9 DEF VerificationInv

\* A receipt is stored with its findings, and with the duplicate that its submission named.
LEMMA StoreReceiptKeeps ==
    ASSUME VerificationInv, NEW t \in Txns, StoreReceipt(t)
    PROVE  VerificationInv'
<1> DEFINE q == txn[t].submission
<1> DEFINE d == txn[t].duplicateOf
<1> DEFINE b == txn[t].beside
<1> DEFINE new == Receipt(q, d, b)
<1>1. /\ q # None /\ q \in Submissions /\ b \in BOOLEAN
      /\ q.id \notin {r.id : r \in receipts}
      /\ receipts' = receipts \union {new} /\ findings' = findings \union FindingsWith(q)
      /\ UNCHANGED <<job, evaluations, proposals>>
  BY DEF StoreReceipt, VerificationInv, TxnsAreFormed
<1>2. /\ DOMAIN txn' = Txns /\ txn'[t] = Idle
      /\ \A u \in Txns : u # t =>
            txn'[u] = IF Submitting(u) /\ SameVoice(txn[u].submission, q)
                      THEN [txn[u] EXCEPT !.beside = TRUE] ELSE txn[u]
  BY DEF StoreReceipt, Submitted, Submitting
<1>3. /\ new.id = q.id /\ new.actor = q.actor /\ new.run = q.run /\ new.findings = q.findings
      /\ new.duplicateOf = d /\ new.beside = b
  BY DEF Receipt
<1>4. d \in DuplicatesOf(q) \union {None}
  BY <1>1 DEF VerificationInv, DuplicatesAreNamed, Submitting
<1>5. \A p : DuplicatesOf(p) \subseteq DuplicatesOf(p)'
  BY <1>1 DEF DuplicatesOf
<1>6. \A u \in Txns : u # t =>
        /\ DOMAIN txn'[u] = DOMAIN txn[u]
        /\ txn'[u].submission = txn[u].submission /\ txn'[u].duplicateOf = txn[u].duplicateOf
        /\ txn'[u].beside \in BOOLEAN /\ (txn[u].beside => txn'[u].beside)
        /\ Submitting(u) /\ SameVoice(txn[u].submission, q) => txn'[u].beside
  BY <1>2 DEF VerificationInv, TxnsAreFormed
<1>7. ReceiptsAreSubmitted'
  <2>1. IsFiniteSet(receipts')
    BY <1>1, FS_AddElement DEF VerificationInv, ReceiptsAreSubmitted
  <2>2. \A r \in receipts : \E p \in Submissions : \E e, c : r = Receipt(p, e, c)
    BY DEF VerificationInv, ReceiptsAreSubmitted
  <2>3. \E p \in Submissions : \E e, c : new = Receipt(p, e, c)
    BY <1>1
  <2> HIDE DEF new
  <2> QED
    BY <1>1, <2>1, <2>2, <2>3 DEF ReceiptsAreSubmitted
<1>8. FindingsAreStored'
  <2>1. FindingsWith(new) = FindingsWith(q) /\ \A f \in FindingsWith(q) : f.receipt = q.id
    BY <1>3 DEF FindingsWith
  <2>2. /\ \A r \in receipts : {f \in findings : f.receipt = r.id} = FindingsWith(r) /\ r.id # q.id
        /\ \A f \in findings : f.receipt \in {r.id : r \in receipts} /\ f.receipt # q.id
    BY <1>1 DEF VerificationInv, FindingsAreStored
  <2> HIDE DEF new, q
  <2>3. {f \in findings' : f.receipt = q.id} = FindingsWith(q)
    BY <1>1, <2>1, <2>2
  <2>4. \A r \in receipts : {f \in findings' : f.receipt = r.id} = FindingsWith(r)
    BY <1>1, <2>1, <2>2
  <2>5. \A f \in findings' : f.receipt \in {r.id : r \in receipts'}
    BY <1>1, <1>3, <2>1, <2>2
  <2> QED
    BY <1>1, <1>3, <2>1, <2>3, <2>4, <2>5 DEF FindingsAreStored
<1>9. TxnsAreFormed'
  BY <1>2, <1>6, IdleSubmitsNothing DEF VerificationInv, TxnsAreFormed
<1>10. DuplicatesAreNamed'
  BY <1>2, <1>5, <1>6, IdleSubmitsNothing DEF VerificationInv, DuplicatesAreNamed, Submitting
<1>11. JobsCount' /\ EvaluationsCount' /\ ProposalsAreEvaluated'
  <2> HIDE DEF new
  <2> QED
    BY <1>1 DEF VerificationInv, JobsCount, JobCounts, EvaluationsCount, CountsFor, ProposalsAreEvaluated
<1>12. NoVoiceIsLost'
  <2> HIDE DEF new, q, d, b
  <2>1. SUFFICES ASSUME NEW r \in receipts'
                 PROVE  /\ \E s \in receipts' : SameVoice(s, r) /\ s.duplicateOf = None
                        /\ r.duplicateOf # None =>
                              \E s \in receipts' : SameVoice(s, r) /\ s.id = r.duplicateOf
    BY DEF NoVoiceIsLost
  <2>2. \A s \in receipts :
          /\ \E o \in receipts : SameVoice(o, s) /\ o.duplicateOf = None
          /\ s.duplicateOf # None =>
                \E o \in receipts : SameVoice(o, s) /\ o.id = s.duplicateOf
    BY DEF VerificationInv, NoVoiceIsLost
  <2>3. CASE r \in receipts
    BY <1>1, <2>2, <2>3
  <2>4. CASE r = new /\ d = None
    BY <1>1, <1>3, <2>4 DEF SameVoice
  <2>5. CASE r = new /\ d # None
    <3>1. PICK s \in receipts : SameVoice(s, q) /\ s.id = d
      BY <1>4, <2>5 DEF DuplicatesOf
    <3> QED
      BY <1>1, <1>3, <2>2, <2>5, <3>1 DEF SameVoice
  <2> QED
    BY <1>1, <2>3, <2>4, <2>5
<1>13. CountedOnce'
  <2>1. d = None /\ ~b => \A s \in receipts : ~SameVoice(s, q)
    BY <1>1 DEF VerificationInv, CountedOnce, Submitting
  <2>2. \A u \in Txns : Submitting(u)' /\ ~txn'[u].beside =>
          u # t /\ Submitting(u) /\ ~txn[u].beside /\ ~SameVoice(new, txn[u].submission)
    BY <1>2, <1>3, <1>6, IdleSubmitsNothing DEF Submitting, SameVoice
  <2> HIDE DEF new, q, d, b
  <2>3. \A r, s \in receipts' :
          /\ r.duplicateOf = None /\ s.duplicateOf = None /\ ~r.beside /\ ~s.beside
          /\ SameVoice(r, s)
          => r = s
    BY <1>1, <1>3, <2>1 DEF VerificationInv, CountedOnce, SameVoice
  <2>4. \A u \in Txns : Submitting(u)' /\ txn'[u].duplicateOf = None /\ ~txn'[u].beside =>
          \A r \in receipts' : ~SameVoice(r, txn'[u].submission)
    BY <1>1, <1>6, <2>2 DEF VerificationInv, CountedOnce
  <2> QED
    BY <2>3, <2>4 DEF CountedOnce
<1> QED
  BY <1>7, <1>8, <1>9, <1>10, <1>11, <1>12, <1>13 DEF VerificationInv

\* A step of a job that goes on counting keeps the invariant, whatever it records.
LEMMA CountingKeeps ==
    ASSUME VerificationInv, NEW j \in Jobs, DOMAIN job' = Jobs,
           \A i \in Jobs : i # j => job'[i] = job[i],
           JobCounts(job[j])', EvaluationsCount', ProposalsAreEvaluated',
           UNCHANGED <<receipts, findings, txn>>
    PROVE  VerificationInv'
<1>1. JobsCount'
  <2>1. ASSUME NEW i \in Jobs, i # j
        PROVE  JobCounts(job[i])'
    <3>1. JobCounts(job[i]) /\ job'[i] = job[i]
      BY <2>1 DEF VerificationInv, JobsCount
    <3> QED
      BY <3>1 DEF JobCounts, CountsFor
  <2> QED
    BY <2>1 DEF JobsCount
<1>2. /\ TxnsAreFormed' /\ DuplicatesAreNamed' /\ ReceiptsAreSubmitted' /\ FindingsAreStored'
      /\ NoVoiceIsLost' /\ CountedOnce'
  BY DEF VerificationInv, TxnsAreFormed, DuplicatesAreNamed, Submitting, DuplicatesOf,
         ReceiptsAreSubmitted, FindingsAreStored, NoVoiceIsLost, CountedOnce
<1> QED
  BY <1>1, <1>2 DEF VerificationInv

\* What was recorded stays right while nothing is recorded.
LEMMA RecordedStays ==
    ASSUME VerificationInv, UNCHANGED <<receipts, evaluations, proposals>>
    PROVE  EvaluationsCount' /\ ProposalsAreEvaluated'
BY DEF VerificationInv, EvaluationsCount, CountsFor, ProposalsAreEvaluated

\* A job at rest counts nothing.
LEMMA NoJobCounts ==
    /\ {"phase", "claim", "policy", "counted", "unread", "heard"} \subseteq DOMAIN NoJob
    /\ NoJob.phase = "idle" /\ NoJob.counted = {} /\ NoJob.unread = {} /\ NoJob.heard = {}
BY DEF NoJob

\* A job lists the receipts of its Claim, and then hears the findings of one after the other.
LEMMA JobsKeep ==
    ASSUME VerificationInv, NEW j \in Jobs,
           \/ \E c \in Claims, p \in DOMAIN Policies : StartEvaluation(j, c, p)
           \/ ListReceipts(j) \/ ReadFindings(j) \/ FailEvaluation(j)
    PROVE  VerificationInv'
<1>1. UNCHANGED <<receipts, findings, txn, evaluations, proposals>>
  BY Zenon DEF StartEvaluation, ListReceipts, ReadFindings, FailEvaluation
<1>2. DOMAIN job = Jobs /\ JobCounts(job[j])
  BY DEF VerificationInv, JobsCount
<1>3. EvaluationsCount' /\ ProposalsAreEvaluated'
  BY <1>1, RecordedStays
<1>4. ASSUME NEW b, job' = [job EXCEPT ![j] = b], JobCounts(b)
      PROVE  VerificationInv'
  <2>1. job'[j] = b /\ DOMAIN job' = Jobs /\ \A i \in Jobs : i # j => job'[i] = job[i]
    BY <1>2, <1>4
  <2>2. JobCounts(job[j])'
    BY <1>1, <1>4, <2>1 DEF JobCounts, CountsFor
  <2> QED
    BY <1>1, <1>3, <2>1, <2>2, CountingKeeps
<1>5. ASSUME NEW c \in Claims, NEW p \in DOMAIN Policies, StartEvaluation(j, c, p)
      PROVE  VerificationInv'
  <2> DEFINE b == [NoJob EXCEPT !.phase = "listing", !.claim = c, !.policy = p]
  <2>1. job' = [job EXCEPT ![j] = b]
    BY <1>5, Zenon DEF StartEvaluation
  <2>2. /\ DOMAIN b = DOMAIN NoJob /\ b.claim = c /\ b.policy = p
        /\ b.counted = {} /\ b.unread = {} /\ b.heard = {}
    BY NoJobCounts
  <2> HIDE DEF b
  <2>3. JobCounts(b)
    BY <2>2, NoJobCounts DEF JobCounts, CountsFor, FindingsOf
  <2> QED
    BY <1>4, <2>1, <2>3
<1>6. CASE ListReceipts(j)
  <2> DEFINE counted == Counted(job[j].claim)
  <2> DEFINE b == [job[j] EXCEPT !.phase = "reading", !.counted = counted, !.unread = counted]
  <2>1. job' = [job EXCEPT ![j] = b] /\ job[j].phase = "listing"
    BY <1>2, <1>6 DEF ListReceipts
  <2>2. CountsFor(job[j].claim, job[j].policy, counted)
    BY <1>2, <2>1 DEF JobCounts, CountsFor, Counted
  <2>3. job[j].heard = {}
    BY <1>2, <2>1 DEF JobCounts, FindingsOf
  <2> HIDE DEF counted
  <2>4. /\ DOMAIN b = DOMAIN job[j] /\ b.phase = "reading" /\ b.claim = job[j].claim /\ b.policy = job[j].policy
        /\ b.counted = counted /\ b.unread = counted /\ b.heard = {}
    BY <1>2, <2>3 DEF JobCounts
  <2> HIDE DEF b
  <2>5. JobCounts(b)
    BY <1>2, <2>2, <2>4 DEF JobCounts, FindingsOf
  <2> QED
    BY <1>4, <2>1, <2>5
<1>7. CASE ReadFindings(j)
  <2>1. PICK r \in job[j].unread :
          job' = [job EXCEPT ![j].unread = @ \ {r},
                             ![j].heard = @ \union {f \in findings : f.receipt = r.id}]
    BY <1>7 DEF ReadFindings
  <2>2. /\ job[j].phase = "reading" /\ CountsFor(job[j].claim, job[j].policy, job[j].counted)
        /\ job[j].unread \subseteq job[j].counted
        /\ job[j].heard = FindingsOf(job[j].counted \ job[j].unread)
    <3>1. job[j].phase = "reading"
      BY <1>7, Zenon DEF ReadFindings
    <3> QED
      BY <1>2, <3>1 DEF JobCounts
  <2>3. {f \in findings : f.receipt = r.id} = FindingsWith(r)
    BY <2>2 DEF CountsFor, VerificationInv, FindingsAreStored
  <2> DEFINE heard == job[j].heard \union FindingsWith(r)
  <2> DEFINE left == job[j].unread \ {r}
  <2> DEFINE b == [job[j] EXCEPT !.unread = left, !.heard = heard]
  <2>4. job' = [job EXCEPT ![j] = b]
    BY <1>2, <2>1, <2>3 DEF JobCounts
  <2>5. heard = FindingsOf(job[j].counted \ left)
    <3>1. job[j].counted \ left = (job[j].counted \ job[j].unread) \union {r}
      BY <2>2
    <3> HIDE DEF left
    <3> QED
      BY <2>2, <3>1 DEF FindingsOf
  <2>6. left \subseteq job[j].counted
    BY <2>2
  <2> HIDE DEF heard, left
  <2>7. /\ DOMAIN b = DOMAIN job[j] /\ b.phase = "reading" /\ b.claim = job[j].claim /\ b.policy = job[j].policy
        /\ b.counted = job[j].counted /\ b.unread = left /\ b.heard = heard
    BY <1>2, <2>2 DEF JobCounts
  <2> HIDE DEF b
  <2>8. JobCounts(b)
    BY <1>2, <2>2, <2>5, <2>6, <2>7 DEF JobCounts
  <2> QED
    BY <1>4, <2>4, <2>8
<1>8. CASE FailEvaluation(j)
  <2>1. JobCounts(NoJob)
    BY NoJobCounts DEF JobCounts
  <2> QED
    BY <1>4, <1>8, <2>1 DEF FailEvaluation
<1> QED
  BY <1>5, <1>6, <1>7, <1>8

\* An evaluation is recorded when the findings of all that it counts were read.
LEMMA RecordKeeps ==
    ASSUME VerificationInv, NEW j \in Jobs, RecordEvaluation(j)
    PROVE  VerificationInv'
<1> DEFINE e == Evaluation(j)
<1>1. /\ job[j].phase = "reading" /\ job[j].unread = {}
      /\ evaluations' = evaluations \union {e} /\ job' = [job EXCEPT ![j] = NoJob]
      /\ UNCHANGED <<receipts, findings, txn, proposals>>
  BY DEF RecordEvaluation
<1>2. DOMAIN job = Jobs /\ JobCounts(job[j])
  BY DEF VerificationInv, JobsCount
<1>3. /\ CountsFor(job[j].claim, job[j].policy, job[j].counted)
      /\ job[j].heard = FindingsOf(job[j].counted)
  BY <1>1, <1>2 DEF JobCounts
<1>4. /\ e.claim = job[j].claim /\ e.policy = job[j].policy /\ e.counted = job[j].counted
      /\ e.input = Input(job[j].counted, job[j].heard)
      /\ e.met = RequirementsMet(job[j].policy, Input(job[j].counted, job[j].heard))
  BY DEF Evaluation
<1> HIDE DEF e
<1>5. EvaluationsCount'
  <2>1. EvaluationsCount
    BY DEF VerificationInv
  <2> QED
    BY <1>1, <1>3, <1>4, <2>1 DEF EvaluationsCount, CountsFor
<1>6. ProposalsAreEvaluated'
  BY <1>1 DEF VerificationInv, ProposalsAreEvaluated
<1>7. job'[j] = NoJob /\ DOMAIN job' = Jobs /\ \A i \in Jobs : i # j => job'[i] = job[i]
  BY <1>1, <1>2
<1>8. JobCounts(job[j])'
  BY <1>7, NoJobCounts DEF JobCounts
<1> QED
  BY <1>1, <1>5, <1>6, <1>7, <1>8, CountingKeeps

\* A proposal is ready if its evaluation is met.
LEMMA ProposeKeeps ==
    ASSUME VerificationInv, NEW e \in evaluations, NEW revision, Propose(e, revision)
    PROVE  VerificationInv'
<1>1. UNCHANGED <<receipts, findings, txn, job, evaluations>>
  BY DEF Propose
<1>2. ProposalsAreEvaluated'
  BY <1>1 DEF VerificationInv, ProposalsAreEvaluated, Propose
<1>3. /\ TxnsAreFormed' /\ DuplicatesAreNamed' /\ ReceiptsAreSubmitted' /\ FindingsAreStored'
      /\ NoVoiceIsLost' /\ CountedOnce'
  BY <1>1 DEF VerificationInv, TxnsAreFormed, DuplicatesAreNamed, Submitting, DuplicatesOf,
              ReceiptsAreSubmitted, FindingsAreStored, NoVoiceIsLost, CountedOnce
<1>4. JobsCount' /\ EvaluationsCount'
  BY <1>1 DEF VerificationInv, JobsCount, JobCounts, CountsFor, EvaluationsCount
<1> QED
  BY <1>2, <1>3, <1>4 DEF VerificationInv

\* Receipts stand on what was stored before them, and evaluations on receipts.
THEOREM ReceiptsAreCounted == Spec => []VerificationInv
<1>1. Init => VerificationInv
  <2> SUFFICES ASSUME Init
               PROVE  VerificationInv
    OBVIOUS
  <2>1. \A t \in Txns : txn[t] = Idle
    BY DEF Init
  <2>2. \A t \in Txns : ~Submitting(t)
    BY <2>1, IdleSubmitsNothing DEF Submitting
  <2>3. TxnsAreFormed /\ DuplicatesAreNamed
    BY <2>1, <2>2, IdleSubmitsNothing DEF Init, TxnsAreFormed, DuplicatesAreNamed, Submitting
  <2>4. JobsCount
    BY NoJobCounts DEF Init, JobsCount, JobCounts
  <2> QED
    BY <2>2, <2>3, <2>4, FS_EmptySet DEF Init, VerificationInv, ReceiptsAreSubmitted, FindingsAreStored,
       NoVoiceIsLost, CountedOnce, EvaluationsCount, ProposalsAreEvaluated
<1>2. VerificationInv /\ [Next]_vars => VerificationInv'
  <2> SUFFICES ASSUME VerificationInv, [Next]_vars
               PROVE  VerificationInv'
    OBVIOUS
  <2>1. CASE Next
    BY <2>1, RowsAreStoredAside, AsideKeeps, CheckKeeps, StoreReceiptKeeps, JobsKeep, RecordKeeps, ProposeKeeps
       DEF Next
  <2>2. CASE UNCHANGED vars
    <3>1. Aside
      BY <2>2 DEF vars, Aside, VerificationInv, TxnsAreFormed
    <3> QED
      BY <3>1, AsideKeeps
  <2> QED
    BY <2>1, <2>2
<1> QED
  BY <1>1, <1>2, PTL DEF Spec

\* Of the receipts of one actor for one Run one is no duplicate, and the others name one of them
\* (submitVerification: the first of the earlier receipts, or none).
THEOREM EveryVoiceIsHeard == Spec => []NoVoiceIsLost
<1>1. VerificationInv => NoVoiceIsLost
  BY DEF VerificationInv
<1> QED
  BY <1>1, ReceiptsAreCounted, PTL

\* An evaluation counts the blocking findings of all the receipts it counts (evaluateClaimPolicyJob).
THEOREM FindingsAreHeard == Spec => []EvaluationsHearFindings
<1>1. VerificationInv => EvaluationsHearFindings
  <2> SUFFICES ASSUME VerificationInv, NEW e \in evaluations
               PROVE  e.input.blocking_findings = Cardinality(Blocking(FindingsOf(e.counted)))
    BY DEF EvaluationsHearFindings, FindingsOf
  <2>1. e.input = Input(e.counted, FindingsOf(e.counted))
    BY DEF VerificationInv, EvaluationsCount
  <2> QED
    BY <2>1 DEF Input
<1> QED
  BY <1>1, ReceiptsAreCounted, PTL

\* Receipts of different actors or Runs have a voice each; those of fewer have no more.
LEMMA VoicesOfReceipts ==
    ASSUME NEW all, IsFiniteSet(all), NEW rs \in SUBSET all,
           \A r, s \in rs : r.actor = s.actor /\ r.run = s.run => r = s
    PROVE  /\ Cardinality(rs) \in Nat /\ Cardinality(Voices(all)) \in Nat
           /\ Cardinality(rs) <= Cardinality(Voices(all))
<1> DEFINE voice == [r \in all |-> <<r.actor, r.run>>]
<1> DEFINE own == [r \in rs |-> <<r.actor, r.run>>]
<1>1. voice \in Surjection(all, Voices(all))
  BY DEF Surjection, Voices
<1>2. IsFiniteSet(Voices(all))
  BY <1>1, FS_Surjection
<1>3. own \in Injection(rs, Voices(all))
  BY DEF Injection, IsInjective, Voices
<1>4. Cardinality(rs) <= Cardinality(Voices(all)) /\ IsFiniteSet(rs)
  BY <1>2, <1>3, FS_Injection
<1> QED
  BY <1>2, <1>4, FS_CardinalityType

\* Those stored beside another of their voice are counted on their own.
Beside(rs) == {r \in rs : r.beside}

LEMMA ReceiptsHaveVoices ==
    ASSUME NEW all, IsFiniteSet(all), NEW rs \in SUBSET all,
           \A r, s \in rs : ~r.beside /\ ~s.beside /\ SameVoice(r, s) => r = s
    PROVE  /\ Cardinality(rs) \in Nat /\ Cardinality(Voices(all)) \in Nat
           /\ Cardinality(Beside(all)) \in Nat
           /\ Cardinality(rs) <= Cardinality(Voices(all)) + Cardinality(Beside(all))
<1> DEFINE alone == {r \in rs : ~r.beside}
<1>1. alone \in SUBSET all /\ Beside(rs) \subseteq Beside(all) /\ Beside(all) \subseteq all
  BY DEF Beside
<1>2. /\ Cardinality(alone) \in Nat /\ Cardinality(Voices(all)) \in Nat
      /\ Cardinality(alone) <= Cardinality(Voices(all))
  <2>1. \A r, s \in alone : r.actor = s.actor /\ r.run = s.run => r = s
    BY DEF SameVoice
  <2> HIDE DEF alone
  <2> QED
    BY <1>1, <2>1, VoicesOfReceipts
<1>3. IsFiniteSet(Beside(all)) /\ IsFiniteSet(alone) /\ IsFiniteSet(rs)
  <2> HIDE DEF alone
  <2> QED
    BY <1>1, FS_Subset
<1>4. IsFiniteSet(Beside(rs)) /\ Cardinality(Beside(rs)) <= Cardinality(Beside(all))
  BY <1>1, <1>3, FS_Subset
<1>5. rs = alone \union Beside(rs) /\ alone \intersect Beside(rs) = {}
  BY DEF Beside
<1>6. Cardinality(Beside(rs)) \in Nat /\ Cardinality(Beside(all)) \in Nat /\ Cardinality(rs) \in Nat
  BY <1>3, <1>4, FS_CardinalityType
<1> HIDE DEF alone
<1>7. Cardinality(alone \union Beside(rs)) = Cardinality(alone) + Cardinality(Beside(rs)) - Cardinality(alone \intersect Beside(rs))
  BY <1>3, <1>4, FS_Union
<1>8. Cardinality(alone \intersect Beside(rs)) = 0
  BY <1>5, FS_EmptySet
<1>9. Cardinality(rs) = Cardinality(alone) + Cardinality(Beside(rs))
  BY <1>2, <1>5, <1>6, <1>7, <1>8
<1> QED
  BY <1>2, <1>4, <1>6, <1>9

\* The Runs of some receipts are no more than those of all.
LEMMA RunsOfReceipts ==
    ASSUME NEW all, IsFiniteSet(all), NEW rs \in SUBSET all
    PROVE  /\ Cardinality({r.run : r \in rs}) \in Nat /\ Cardinality({r.run : r \in all}) \in Nat
           /\ Cardinality({r.run : r \in rs}) <= Cardinality({r.run : r \in all})
<1> DEFINE runs == {r.run : r \in all}
<1> DEFINE run == [r \in all |-> r.run]
<1>1. run \in Surjection(all, runs)
  BY DEF Surjection
<1>2. IsFiniteSet(runs)
  BY <1>1, FS_Surjection
<1>3. {r.run : r \in rs} \subseteq runs
  OBVIOUS
<1> HIDE DEF runs
<1>4. IsFiniteSet({r.run : r \in rs}) /\ Cardinality({r.run : r \in rs}) <= Cardinality(runs)
  BY <1>2, <1>3, FS_Subset
<1>5. Cardinality({r.run : r \in rs}) \in Nat /\ Cardinality(runs) \in Nat
  BY <1>2, <1>4, FS_CardinalityType
<1> QED
  BY <1>4, <1>5 DEF runs

\* A ready proposal rests on as many actors' Runs as its policy asks for, but for receipts stored
\* beside another of their actor for their Run (createMergeProposal, evaluateVerificationPolicy).
THEOREM ReadyProposalsAreEarned == Spec => []ReadyIsEarned
<1>1. VerificationInv => ReadyIsEarned
  <2> SUFFICES ASSUME VerificationInv, NEW p \in proposals, p.status = "ready"
               PROVE  LET e == p.evaluation
                          required(key) == IF key \in DOMAIN Policies[e.policy]
                                           THEN Policies[e.policy][key] ELSE 0
                          support == Supporting({r \in receipts : r.claim = e.claim})
                          blind == {r \in support : r.mode = "blind"}
                      IN  /\ Cardinality(Voices(support)) + Cardinality(Beside(support))
                               >= required("successful_reproductions")
                          /\ Cardinality(Voices(blind)) + Cardinality(Beside(blind))
                               >= required("blind_reproductions")
                          /\ Cardinality({r.run : r \in support}) >= required("distinct_implementations")
    BY DEF ReadyIsEarned, Beside
  <2> DEFINE e == p.evaluation
  <2> DEFINE requires == Policies[e.policy]
  <2> DEFINE support == Supporting({r \in receipts : r.claim = e.claim})
  <2> DEFINE rs == Supporting(e.counted)
  <2> DEFINE blind == {r \in rs : r.mode = "blind"}
  <2> DEFINE allBlind == {r \in support : r.mode = "blind"}
  <2>1. /\ CountsFor(e.claim, e.policy, e.counted)
        /\ e.input = Input(e.counted, FindingsOf(e.counted))
        /\ RequirementsMet(e.policy, e.input)
    BY DEF VerificationInv, ProposalsAreEvaluated, EvaluationsCount
  <2>2. \A key \in DOMAIN requires : requires[key] \in Nat /\ Met(key, requires[key], e.input[key])
    BY <2>1, PoliciesRequireSomething DEF RequirementsMet, CountsFor
  <2>3. IsFiniteSet(support) /\ IsFiniteSet(allBlind)
    <3>1. IsFiniteSet(receipts) /\ support \subseteq receipts /\ allBlind \subseteq support
      BY DEF VerificationInv, ReceiptsAreSubmitted, Supporting
    <3> QED
      BY <3>1, FS_Subset
  <2>4. rs \subseteq support /\ blind \subseteq allBlind
    BY <2>1 DEF CountsFor, Supporting
  <2>5. \A r, s \in rs : ~r.beside /\ ~s.beside /\ SameVoice(r, s) => r = s
    BY <2>1 DEF CountsFor, Supporting, VerificationInv, CountedOnce
  <2>6. /\ e.input["successful_reproductions"] = Cardinality(rs)
        /\ e.input["blind_reproductions"] = Cardinality(blind)
        /\ e.input["distinct_implementations"] = Cardinality({r.run : r \in rs})
    BY <2>1 DEF Input
  <2>7. /\ Cardinality(rs) \in Nat
        /\ Cardinality(Voices(support)) \in Nat /\ Cardinality(Beside(support)) \in Nat
        /\ Cardinality(rs) <= Cardinality(Voices(support)) + Cardinality(Beside(support))
    <3> HIDE DEF rs, support
    <3> QED
      BY <2>3, <2>4, <2>5, ReceiptsHaveVoices
  <2>8. /\ Cardinality(blind) \in Nat
        /\ Cardinality(Voices(allBlind)) \in Nat /\ Cardinality(Beside(allBlind)) \in Nat
        /\ Cardinality(blind) <= Cardinality(Voices(allBlind)) + Cardinality(Beside(allBlind))
    <3>1. \A r, s \in blind : ~r.beside /\ ~s.beside /\ SameVoice(r, s) => r = s
      BY <2>5
    <3> HIDE DEF blind, allBlind
    <3> QED
      BY <2>3, <2>4, <3>1, ReceiptsHaveVoices
  <2>9. /\ Cardinality({r.run : r \in rs}) \in Nat /\ Cardinality({r.run : r \in support}) \in Nat
        /\ Cardinality({r.run : r \in rs}) <= Cardinality({r.run : r \in support})
    BY <2>3, <2>4, RunsOfReceipts
  <2> DEFINE required(key) == IF key \in DOMAIN requires THEN requires[key] ELSE 0
  <2> HIDE DEF requires, support, rs, blind, allBlind
  <2>10. \A key \in {"successful_reproductions", "blind_reproductions", "distinct_implementations"} :
           /\ required(key) \in Nat
           /\ key \in DOMAIN requires => e.input[key] >= required(key)
    BY <2>2 DEF Met
  <2>11. Cardinality(Voices(support)) + Cardinality(Beside(support)) >= required("successful_reproductions")
    BY <2>6, <2>7, <2>10
  <2>12. Cardinality(Voices(allBlind)) + Cardinality(Beside(allBlind)) >= required("blind_reproductions")
    BY <2>6, <2>8, <2>10
  <2>13. Cardinality({r.run : r \in support}) >= required("distinct_implementations")
    BY <2>6, <2>9, <2>10
  <2> QED
    BY <2>11, <2>12, <2>13 DEF requires, support, allBlind
<1> QED
  BY <1>1, ReceiptsAreCounted, PTL

=============================================================================
