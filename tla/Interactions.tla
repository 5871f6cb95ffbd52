----------------------------- MODULE Interactions -----------------------------
(***************************************************************************)
(* The private signals of one signed-in visitor, in several tabs.  A tab   *)
(* loads the signals once, shows a toggle before it is stored, and loads   *)
(* again when a call fails.  A load lists the newest rows, up to a limit,  *)
(* and the views that pages record are rows too.  The first call that      *)
(* finds no actor bound to the visitor provisions one, by two inserts that *)
(* are requests of their own, and is then repeated once.  Requests fail,   *)
(* and answers are lost.                                                   *)
(***************************************************************************)
EXTENDS Naturals, FiniteSets

CONSTANTS
    Tabs,
    Signals,  \* an object and a kind of signal each, which a tab can turn on and off
    Views,    \* the signals that say that a page was opened
    Calls,    \* what may be under way at once; also names the actor it inserts
    Nobody,
    ListLimit, \* rows in one list
    MaxUses,    \* bound: clicks and pages opened
    MaxFailures \* bound: requests and answers that get lost

ASSUME NobodyIsNoCall == Nobody \notin Calls \union Tabs
ASSUME ViewsAreNotToggled == Signals \intersect Views = {}
ASSUME InteractionBoundsAreNatural ==
    ListLimit \in Nat /\ MaxUses \in Nat /\ MaxFailures \in Nat

VARIABLES
    actors,   \* the rows of actors with the visitor's auth_subject
    identity, \* the actor that the visitor's identity is bound to
    signals,  \* the rows of engagement_interactions
    newer,    \* those that were stored after each
    call,     \* each call: the tab it is of, what it wants and how far it is
    mine,     \* the signals that each tab shows
    uses,
    losses,
    stale,    \* history: tabs that have reason not to show what is stored
    cut       \* history: tabs whose last list did not hold all rows

rows == <<signals, newer>>
tabVars == <<call, mine, uses, stale, cut>>
interactionVars == <<actors, identity, rows, losses, tabVars>>

\* rows: what a load has read; retried: provisioning is tried only once.
Load(tab) == [at |-> "resolve", tab |-> tab, wants |-> "load", signal |-> Nobody,
              rows |-> {}, retried |-> FALSE]
Toggle(tab, s, wants) == [Load(tab) EXCEPT !.wants = wants, !.signal = s]
RecordView(s) == Toggle(Nobody, s, "view")
NoCall == [Load(Nobody) EXCEPT !.at = "idle"]

OpenIn(tab) == {c \in Calls : call[c].at # "idle" /\ call[c].tab = tab}

Earlier == CHOOSE c \in Calls : TRUE
CallsOfTheirOwn == {first \in [Tabs -> Calls] : \A t, u \in Tabs : first[t] = first[u] => t = u}
FirstCall == CHOOSE first \in CallsOfTheirOwn : TRUE
ASSUME EachTabHasACall == CallsOfTheirOwn # {}

\* The visitor was never here or has stored a signal before, and each tab has begun to load.
InteractionInit ==
    /\ \/ actors = {} /\ identity = Nobody /\ signals = {}
       \/ \E s \in Signals : actors = {Earlier} /\ identity = Earlier /\ signals = {s}
    /\ newer = [s \in Signals \union Views |-> {}]
    /\ call = [c \in Calls |->
          IF \E t \in Tabs : FirstCall[t] = c THEN Load(CHOOSE t \in Tabs : FirstCall[t] = c)
          ELSE NoCall]
    /\ mine = [t \in Tabs |-> {}]
    /\ uses = 0 /\ losses = 0 /\ stale = {} /\ cut = {}

Proceeds(c, at) == call' = [call EXCEPT ![c].at = at]
\* Whichever call is idle: a name means nothing.
Begins(new) ==
    /\ \E c \in Calls : call[c].at = "idle"
    /\ call' = [call EXCEPT ![CHOOSE c \in Calls : call[c].at = "idle"] = new]
Repeat(c) == call' = [call EXCEPT ![c].at = "resolve", ![c].retried = TRUE]

-----------------------------------------------------------------------------
(* The server: each step is one request to the Data API *)

\* What a lookup of the identity finds: an answer that reports an error is taken for none.
Finds(found) ==
    \/ found = (identity # Nobody) /\ UNCHANGED losses
    \/ ~found /\ identity # Nobody /\ losses < MaxFailures /\ losses' = losses + 1

\* A call without an actor is refused, and its tab provisions one, the first time.
ResolveActor(c) ==
    /\ call[c].at = "resolve"
    /\ \E found \in BOOLEAN :
          /\ Finds(found)
          /\ Proceeds(c, IF found THEN "act" ELSE IF call[c].retried THEN "failed" ELSE "provision")
    /\ UNCHANGED <<actors, identity, rows, mine, uses, stale, cut>>

\* History: the other tabs do not learn of a toggle that is stored.
Outdates(c) ==
    stale' = IF signals' \intersect Signals = signals \intersect Signals THEN stale
             ELSE stale \union (Tabs \ {call[c].tab})

\* The rows of one signal are unique, and a duplicate is refused: what is
\* ignored is only a duplicate of the row's own key.
RecordInteraction(c) ==
    /\ call[c].at = "act" /\ call[c].wants \in {"on", "view"}
    /\ Proceeds(c, IF call[c].signal \in signals THEN "failed" ELSE "done")
    /\ signals' = signals \union {call[c].signal}
    /\ newer' = IF call[c].signal \in signals THEN newer
                ELSE [s \in DOMAIN newer |->
                         IF s \in signals THEN newer[s] \union {call[c].signal} ELSE {}]
    /\ Outdates(c)
    /\ UNCHANGED <<actors, identity, mine, uses, losses, cut>>

RemoveInteraction(c) ==
    /\ call[c].at = "act" /\ call[c].wants = "off"
    /\ Proceeds(c, "done")
    /\ signals' = signals \ {call[c].signal}
    /\ newer' = [s \in DOMAIN newer |->
                    IF s = call[c].signal THEN {} ELSE newer[s] \ {call[c].signal}]
    /\ Outdates(c)
    /\ UNCHANGED <<actors, identity, mine, uses, losses, cut>>

\* The newest rows of any kind, the last stored first.
Newest == {s \in signals : Cardinality(newer[s]) < ListLimit}

ListInteractions(c) ==
    /\ call[c].at = "act" /\ call[c].wants = "load"
    /\ call' = [call EXCEPT ![c].at = "done", ![c].rows = Newest]
    /\ stale' = IF OpenIn(call[c].tab) = {c} THEN stale \ {call[c].tab} ELSE stale
    /\ cut' = IF Newest = signals THEN cut \ {call[c].tab} ELSE cut \union {call[c].tab}
    /\ UNCHANGED <<actors, identity, rows, mine, uses, losses>>

\* provisionSelfActor: an identity that is there is answered; else an actor is
\* inserted, unless the visitor has one, and then the identity, unless it was
\* bound meanwhile.  A refused insert looks for the identity once more.
FindIdentity(c) ==
    /\ call[c].at = "provision"
    /\ \E found \in BOOLEAN :
          /\ Finds(found)
          /\ IF found THEN Repeat(c) ELSE Proceeds(c, "actor")
    /\ UNCHANGED <<actors, identity, rows, mine, uses, stale, cut>>

InsertActor(c) ==
    /\ call[c].at = "actor"
    /\ Proceeds(c, IF actors = {} THEN "identity" ELSE "raced")
    /\ actors' = IF actors = {} THEN {c} ELSE actors
    /\ UNCHANGED <<identity, rows, mine, uses, losses, stale, cut>>

InsertIdentity(c) ==
    /\ call[c].at = "identity"
    /\ IF identity = Nobody
       THEN identity' = c /\ Repeat(c)
       ELSE Proceeds(c, "raced") /\ UNCHANGED identity
    /\ UNCHANGED <<actors, rows, mine, uses, losses, stale, cut>>

FindRaced(c) ==
    /\ call[c].at = "raced"
    /\ \E found \in BOOLEAN :
          /\ Finds(found)
          /\ IF found THEN Repeat(c) ELSE Proceeds(c, "refused")
    /\ UNCHANGED <<actors, identity, rows, mine, uses, stale, cut>>

-----------------------------------------------------------------------------
(* The tabs *)

\* What is shown as off is turned on, and the other way round, at once.
Click(tab, s) ==
    /\ uses < MaxUses
    /\ Begins(Toggle(tab, s, IF s \in mine[tab] THEN "off" ELSE "on"))
    /\ mine' = [mine EXCEPT ![tab] = IF s \in @ THEN @ \ {s} ELSE @ \union {s}]
    /\ uses' = uses + 1
    /\ stale' = IF OpenIn(tab) = {} THEN stale ELSE stale \union {tab}
    /\ UNCHANGED <<actors, identity, rows, losses, cut>>

\* recordView: a page that is opened says so, and does not ask what becomes of it.
OpenPage(s) ==
    /\ uses < MaxUses
    /\ Begins(RecordView(s))
    /\ uses' = uses + 1
    /\ UNCHANGED <<actors, identity, rows, mine, losses, stale, cut>>

Finish(c) ==
    /\ call[c].at = "done"
    /\ call' = [call EXCEPT ![c] = NoCall]
    /\ mine' = IF call[c].wants = "load" THEN [mine EXCEPT ![call[c].tab] = call[c].rows] ELSE mine
    /\ UNCHANGED <<actors, identity, rows, losses, uses, stale, cut>>

\* Fault: a toggle that fails is left as it is shown.
FailQuietly(c) ==
    /\ call[c].at \in {"failed", "refused"}
    /\ call' = [call EXCEPT ![c] = NoCall]
    /\ UNCHANGED <<actors, identity, rows, losses, mine, uses, stale, cut>>

\* A toggle that fails loads the signals again; a load that fails shows none; a view is given up.
FailCall(c) ==
    /\ call[c].at \in {"failed", "refused"}
    /\ call' = [call EXCEPT ![c] = IF @.wants \in {"on", "off"} THEN Load(@.tab) ELSE NoCall]
    /\ IF call[c].wants = "load"
       THEN /\ mine' = [mine EXCEPT ![call[c].tab] = {}]
            /\ stale' = stale \union {call[c].tab}
       ELSE UNCHANGED <<mine, stale>>
    /\ UNCHANGED <<actors, identity, rows, losses, uses, cut>>

\* A request is lost before it does anything, or an answer after it has.
Lose(c) ==
    /\ losses < MaxFailures
    /\ call[c].at \in {"resolve", "provision", "actor", "identity", "raced", "act", "done"}
    /\ Proceeds(c, "failed")
    /\ losses' = losses + 1
    /\ UNCHANGED <<actors, identity, rows, mine, uses, stale, cut>>

CallStep(c) ==
    \/ ResolveActor(c) \/ RecordInteraction(c) \/ RemoveInteraction(c) \/ ListInteractions(c)
    \/ FindIdentity(c) \/ InsertActor(c) \/ InsertIdentity(c) \/ FindRaced(c)
    \/ Finish(c) \/ FailCall(c)

InteractionNext ==
    \/ \E c \in Calls : CallStep(c) \/ Lose(c)
    \/ \E tab \in Tabs, s \in Signals : Click(tab, s)
    \/ \E s \in Views : OpenPage(s)

InteractionSpec == InteractionInit /\ [][InteractionNext]_interactionVars

-----------------------------------------------------------------------------
\* Between calls, whatever failed, raced or was provisioned on the way, a tab shows as on only what is
\* stored, and all of it if its last list held all rows (useMyInteractions), unless another tab has
\* changed what is stored since, two calls of the tab overlapped, or its last load failed.
TabsShowWhatIsStored ==
    \A t \in Tabs : OpenIn(t) = {} /\ t \notin stale =>
        /\ mine[t] \intersect Signals \subseteq signals
        /\ t \notin cut => signals \intersect Signals \subseteq mine[t]

\* apps/api-edge/src/interaction-query.mjs: provisioning is "Idempotent": it is
\* refused only while another call is between its two inserts.
ProvisioningIsIdempotent ==
    \A c \in Calls : call[c].at = "refused" =>
        identity # Nobody \/ \E d \in Calls : call[d].at = "identity"

=============================================================================
