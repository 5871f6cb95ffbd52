--------------------------- MODULE ContextBundles ---------------------------
(***************************************************************************)
(* The compilers of context bundles.  A job reads its Task revision and    *)
(* its frontier snapshot, which never change, then the snapshot's members, *)
(* then what relates them; members are added to the snapshot and relations *)
(* come and go between those reads.  The compiler refuses what is not      *)
(* pinned by the members it read, and withholds what its mode withholds.   *)
(* The repository that lists the rows is outside the source.               *)
(***************************************************************************)
EXTENDS Naturals, FiniteSets

CONSTANTS
    Members,    \* Claim revisions that may be members, numbered as they sort
    Relations,  \* relations between them that may be active
    TraceEvents,
    PrivateEvents \* those that carry a field that is not public

ASSUME MembersAreNumbered == Members \subseteq Nat
ASSUME RelationsJoinMembers ==
    Relations \subseteq [type : {"depends_on", "refutes"}, source : Members, target : Members]
ASSUME PrivateEventsAreEvents == PrivateEvents \subseteq TraceEvents

VARIABLES
    member,     \* the snapshot's members
    related,    \* the relations that are active now
    mainstream, \* the Claim revisions that policy classifies as mainstream
    trace,      \* the trace events that the repository lists for the Task
    compiling,  \* the job in hand: its mode, its request, and what it has read
    result,     \* what the last job compiled, until the next begins
    view        \* the members of the frontier bundle that the caller looks at

contextVars == <<member, related, mainstream, trace, compiling, result, view>>

ContextModes == {"frontier", "blind", "adversarial", "full_trace"}

\* due: the lists not read yet; secret: what the caller wants withheld, and
\* hidden: where in the bundle it saw those members.
NoContextJob == [mode |-> "none", due |-> {}, members |-> {}, relations |-> {},
          mainstream |-> {}, trace |-> {}, seen |-> {}, secret |-> {}, hidden |-> {}]

\* stated: the members whose statement can be read.
NoBundle == [mode |-> "none", refused |-> FALSE, members |-> {}, stated |-> {},
             relations |-> {}, trace |-> {}, outputs |-> FALSE, job |-> NoContextJob]

ContextInit ==
    /\ member = {} /\ related = {} /\ mainstream = {} /\ trace = {}
    /\ compiling = NoContextJob /\ result = NoBundle /\ view = {}

-----------------------------------------------------------------------------
(* What is stored meanwhile *)

\* A snapshot's members are never removed.
AddMember(m) ==
    /\ m \notin member
    /\ member' = member \union {m}
    /\ UNCHANGED <<related, mainstream, trace, compiling, result, view>>

SetRelated(r) ==
    /\ related' = IF r \in related THEN related \ {r} ELSE related \union {r}
    /\ UNCHANGED <<member, mainstream, trace, compiling, result, view>>

Classify(m) ==
    /\ mainstream' = IF m \in mainstream THEN mainstream \ {m} ELSE mainstream \union {m}
    /\ UNCHANGED <<member, related, trace, compiling, result, view>>

Trace(e) ==
    /\ e \notin trace
    /\ trace' = trace \union {e}
    /\ UNCHANGED <<member, related, mainstream, compiling, result, view>>

-----------------------------------------------------------------------------
(* A job reads *)

\* Where a member stands in the sorted list of these.
PositionIn(members, m) == Cardinality({other \in members : other < m})

\* The reads after the members; a full trace is read before them.
Lists(mode) ==
    CASE mode = "adversarial" -> {"members", "dependencies", "mainstream", "counter"}
      [] mode = "full_trace" -> {"trace", "members", "dependencies"}
      [] OTHER -> {"members", "dependencies"}

StartJob(mode, secret) ==
    /\ compiling = NoContextJob
    /\ secret # {} => mode = "blind" /\ secret \subseteq view
    /\ compiling' = [NoContextJob EXCEPT
          !.mode = mode, !.due = Lists(mode), !.seen = view, !.secret = secret,
          !.hidden = {PositionIn(view, m) : m \in secret}]
    /\ result' = NoBundle
    /\ UNCHANGED <<member, related, mainstream, trace, view>>

ReadTrace ==
    /\ "trace" \in compiling.due
    /\ compiling' = [compiling EXCEPT !.due = @ \ {"trace"}, !.trace = trace]
    /\ UNCHANGED <<member, related, mainstream, trace, result, view>>

\* Each member is read with the Claim revision that it pins.
ReadMembers ==
    /\ "members" \in compiling.due /\ "trace" \notin compiling.due
    /\ compiling' = [compiling EXCEPT !.due = @ \ {"members"}, !.members = member]
    /\ UNCHANGED <<member, related, mainstream, trace, result, view>>

\* Fault: every compiler lists by the snapshot alone, as the full trace's does.
ListedBySnapshot == member

\* What the repository lists for: the members that the job read.  The full
\* trace's compiler passes the snapshot alone, and gets its members of now.
Listed == IF compiling.mode = "full_trace" THEN member ELSE compiling.members

RelationsAmong(types, members) ==
    {r \in related : r.type \in types /\ {r.source, r.target} \subseteq members}

ReadRelations(list, types) ==
    /\ list \in compiling.due /\ "members" \notin compiling.due
    /\ compiling' = [compiling EXCEPT
          !.due = @ \ {list}, !.relations = @ \union RelationsAmong(types, Listed)]
    /\ UNCHANGED <<member, related, mainstream, trace, result, view>>

ReadDependencies == ReadRelations("dependencies", {"depends_on"})
ReadCounterRelations == ReadRelations("counter", {"refutes"})

ReadMainstream ==
    /\ "mainstream" \in compiling.due /\ "members" \notin compiling.due
    /\ compiling' = [compiling EXCEPT
          !.due = @ \ {"mainstream"}, !.mainstream = mainstream \intersect Listed]
    /\ UNCHANGED <<member, related, mainstream, trace, result, view>>

-----------------------------------------------------------------------------
(* and compiles *)

\* Everything that is cited must be a member, and a trace must be public.
Pinned(job) ==
    /\ job.members # {}
    /\ \A r \in job.relations : {r.source, r.target} \subseteq job.members
    /\ job.mainstream \subseteq job.members
    /\ job.trace \intersect PrivateEvents = {}

Hides(job) == \A h \in job.hidden : h < Cardinality(job.members)

\* Fault: what is redacted is cut out of its list, so that the positions that
\* come later are those of their successors.
ShownAfterCuts(job) ==
    {m \in job.members :
        \A h \in job.hidden :
            PositionIn(job.members, m) # h + Cardinality({g \in job.hidden : g < h})}

\* A redacted element leaves a hole: the others keep their positions.
Shown(job) == {m \in job.members : PositionIn(job.members, m) \notin job.hidden}

Compiled(job) ==
    [mode |-> job.mode, refused |-> FALSE, members |-> job.members,
     stated |-> Shown(job) \ job.mainstream,
     relations |-> job.relations, trace |-> job.trace,
     outputs |-> job.mode # "blind", job |-> job]

Refusal(job) == [NoBundle EXCEPT !.mode = job.mode, !.refused = TRUE, !.job = job]

\* The caller looks at a frontier bundle when it decides what to hide.
Compile ==
    /\ compiling # NoContextJob /\ compiling.due = {}
    /\ result' = IF Pinned(compiling) /\ Hides(compiling) THEN Compiled(compiling)
                 ELSE Refusal(compiling)
    /\ view' = IF result'.mode = "frontier" /\ ~ result'.refused THEN compiling.members ELSE view
    /\ compiling' = NoContextJob
    /\ UNCHANGED <<member, related, mainstream, trace>>

ContextNext ==
    \/ \E m \in Members : AddMember(m) \/ Classify(m)
    \/ \E r \in Relations : SetRelated(r)
    \/ \E e \in TraceEvents : Trace(e)
    \/ \E mode \in ContextModes : \E secret \in SUBSET view : StartJob(mode, secret)
    \/ ReadTrace \/ ReadMembers \/ ReadDependencies \/ ReadCounterRelations \/ ReadMainstream
    \/ Compile

ContextSpec == ContextInit /\ [][ContextNext]_contextVars

-----------------------------------------------------------------------------
\* A frontier, blind or adversarial bundle of a snapshot that had members is
\* never refused, whatever is stored between the reads of its job: what the
\* job cites is listed for the members it read.
FixedInputsCompile ==
    result.refused => result.mode = "full_trace" \/ result.job.members = {}

\* What a bundle is to withhold cannot be read in it: of a blind one the
\* expected outputs and, when the caller saw the members it has, each member
\* that the caller hid; of an adversarial one the statements of the mainstream;
\* of a full trace the private events.
WithheldStaysWithheld ==
    result.mode # "none" /\ ~ result.refused =>
        /\ result.mode = "blind" => ~ result.outputs
        /\ result.job.seen = result.members => result.job.secret \intersect result.stated = {}
        /\ result.job.mainstream \intersect result.stated = {}
        /\ result.trace \intersect PrivateEvents = {}

=============================================================================
