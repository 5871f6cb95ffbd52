---------------------------- MODULE EdgeRequests ----------------------------
(***************************************************************************)
(* The HTTP edge (apps/api-edge): requests of several clients in flight at *)
(* once, which share the credentials, the signature nonces, the rate-limit *)
(* buckets, the pending device codes and the two projections of the        *)
(* research objects, the legacy tables and the kernel.                     *)
(*                                                                         *)
(* A request is received under the deployment of that moment, passes the   *)
(* rate limiter if its bearer credential is good, and is then handled by   *)
(* its route, one step per awaited call.  What a route writes is a command,*)
(* a row that two requests cannot both insert.  Parsing, validation of     *)
(* bodies and the shape of answers are left out; a refusal ends a request. *)
(***************************************************************************)
EXTENDS Naturals, FiniteSets, Sequences

CONSTANTS
    Actors,         \* actors that may authenticate
    Humans,         \* those whose type is human
    Tokens,         \* identifiers of API tokens
    Keys,           \* identifiers of signing keys
    Codes,          \* device codes, each with its user code
    Commands,       \* what a write stores
    Scripts,        \* the requests that clients make in one behaviour: a sequence of calls, sent in any order
    Deployments,    \* the configurations of the Worker, in the order in which they are deployed
    InitialTokens,  \* the API tokens at the start
    InitialKeys,    \* the signing keys at the start
    Limit,          \* requests of an actor in one window
    TokenLimit,     \* requests with an API token in one window
    Window,         \* length of a window
    Ttl,            \* life of a device code
    None,           \* no actor, no envelope, no credential
    MaxInFlight,    \* bound: requests in flight
    MaxTime,        \* bound: the clock
    MaxRevocations, \* bound: keys revoked
    MaxLost         \* bound: answers of the stores lost: to the limiter's lookup and to the nonce's insert

\* The bucket of an actor and that of a token are named by their scope: they are never the same one.
ASSUME ActorsAssumption ==
    /\ Humans \subseteq Actors
    /\ None \notin Actors \cup Tokens
    /\ Actors \cap Tokens = {}
ASSUME KeysAssumption == Keys \cap (Actors \cup Tokens \cup {None}) = {}
ASSUME LimitsAssumption ==
    /\ Limit \in Nat \ {0} /\ TokenLimit \in Nat \ {0} /\ Window \in Nat \ {0} /\ Ttl \in Nat \ {0}
    /\ MaxInFlight \in Nat /\ MaxTime \in Nat /\ MaxRevocations \in Nat /\ MaxLost \in Nat

----------------------------------------------------------------------------
(***************************************************************************)
(* Routes and what they need.                                              *)
(***************************************************************************)

\* The legacy mutations that a dual write mirrors into the kernel.
Surfaces == {"claim.create", "claim.revise", "claim.transition", "evidence.create", "evidence.link",
             "verification_receipt.submit", "challenge.create", "challenge.transition"}

\* Surfaces whose command an external signature can bind; the others have no such flow.
BindableSurfaces == {"claim.create", "verification_receipt.submit", "challenge.create"}

\* Answers, Rebuttals, Evaluations, Datasets and Tools: no legacy projection.
TypedRoutes == {"answer", "rebuttal", "evaluation", "dataset", "tool"}

\* Commands that the rollout does not see.
DirectRoutes == {"run.create", "task.create", "question.create", "artifact.create", "attempt.create"}

WriteRoutes == Surfaces \cup TypedRoutes \cup DirectRoutes
CodeRoutes == {"device.start", "device.approve", "device.token"}
CredentialRoutes == {"token.create", "token.revoke", "key.register"}
Routes == WriteRoutes \cup CodeRoutes \cup CredentialRoutes \cup {"read"}

\* The routes that look at an envelope and verify it; the other writes store what they are sent without it.
VerifyingRoutes == BindableSurfaces \cup TypedRoutes \cup {"run.create"}

\* A client signature: who signed what for which route, with which key and nonce.
Envelope == [signer : Actors, key : Keys, nonce : Nat, route : Routes, command : Commands]

\* About: the command, code, token or key that the request names.
Call == [route : Routes, credential : Actors \cup Tokens \cup {None},
         about : Commands \cup Codes \cup Tokens \cup Keys \cup {None},
         envelope : Envelope \cup {None}, drafter : Actors \cup {None}]

ASSUME ScriptsAssumption == \A script \in Scripts : script \in Seq(Call)

\* A device code that nobody was given is one that was never started.
ASSUME CodesAssumption ==
    \A script \in Scripts : \A r \in DOMAIN script :
        script[r].route \in CodeRoutes => script[r].about \in Codes

\* Modes that a deployment may name: kernel reads exclude legacy-only writes.
Deployment ==
    {d \in [read : {"legacy", "shadow", "kernel"}, write : {"legacy", "dual_write", "kernel"},
            ready : BOOLEAN, rpc : BOOLEAN] : ~(d.read = "kernel" /\ d.write = "legacy")}

ASSUME DeploymentsAssumption == Deployments \in Seq(Deployment) /\ Deployments # <<>>

----------------------------------------------------------------------------
VARIABLES
    deployed,   \* index of the deployment that receives requests
    clock,
    tokens,     \* api_tokens: owner, revocation and expiry of each token
    keys,       \* signing_keys: owner and revocation of each key
    nonces,     \* signature_nonces: actor, key and nonce of every consumed signature
    buckets,    \* the fixed-window state of each actor and of each API token
    codes,      \* the device codes in the store
    legacy,     \* commands in the legacy tables
    kernel,     \* commands in the kernel tables
    requests,   \* the script: what became of each request
    lost        \* answers of the stores that were lost

stores == <<tokens, keys, nonces, buckets, codes, legacy, kernel, lost>>
vars == <<deployed, clock, stores, requests>>

\* Reads: the scopes of the token include project:read.
Token == [owner : Actors \cup {None}, revoked : BOOLEAN, expires : Nat, reads : BOOLEAN]
Key == [owner : Actors \cup {None}, revoked : BOOLEAN]

NoToken == [owner |-> None, revoked |-> FALSE, expires |-> 0, reads |-> FALSE]
NoKey == [owner |-> None, revoked |-> FALSE]

\* What nobody has is not revoked.
ASSUME InitialRowsAssumption ==
    /\ InitialTokens \in [Tokens -> Token]
    /\ InitialKeys \in [Keys -> Key]
    /\ \A t \in Tokens : InitialTokens[t].owner = None => ~InitialTokens[t].revoked
    /\ \A k \in Keys : InitialKeys[k].owner = None => ~InitialKeys[k].revoked
NoCode == [status |-> "none", actor |-> None, expires |-> 0]

Outside == {"unsent", "stored", "answered", "refused"}
InFlight == {r \in DOMAIN requests : requests[r].phase \notin Outside}
At(r, phase) == requests[r].phase = phase
CallOf(r) == requests[r].call
Verifies(r) == CallOf(r).route \in VerifyingRoutes /\ CallOf(r).envelope # None
Config(r) == Deployments[requests[r].deployment]

\* Moves request r to a phase, with the given changes of its other fields.
Goes(r, phase) == requests' = [requests EXCEPT ![r].phase = phase]
GoesAs(r, phase, actor) == requests' = [requests EXCEPT ![r].phase = phase, ![r].actor = actor]
Refuse(r) == Goes(r, "refused") /\ UNCHANGED stores

----------------------------------------------------------------------------
(***************************************************************************)
(* Authentication and the rate limiter.                                    *)
(***************************************************************************)

\* Fault: the revocation is not looked at.
TokenOfRecord(t) == tokens[t].owner # None /\ clock < tokens[t].expires

GoodToken(t) == tokens[t].owner # None /\ ~tokens[t].revoked /\ clock < tokens[t].expires

\* The actor of a credential; a session is a JWT that the identity provider signed.
Identify(credential) ==
    IF credential \in Tokens
    THEN IF GoodToken(credential) THEN tokens[credential].owner ELSE None
    ELSE credential

\* The handler authenticates unless the limiter did.
ActorOf(r) == IF requests[r].actor # None THEN requests[r].actor ELSE Identify(CallOf(r).credential)

Revoked == {t \in Tokens : tokens[t].revoked} \cup {k \in Keys : keys[k].revoked}

\* Only a credential that is found good enters a bucket.  The others go on and are refused by the handlers
\* that need one, and so does a good one whose lookup fails: its handler looks once more.
Receive(r) ==
    /\ At(r, "unsent")
    /\ Cardinality(InFlight) < MaxInFlight
    /\ \E actor \in {None, Identify(CallOf(r).credential)} :
          /\ IF actor = Identify(CallOf(r).credential) THEN UNCHANGED lost
             ELSE lost < MaxLost /\ lost' = lost + 1
          /\ requests' = [requests EXCEPT
                 ![r].phase = IF actor = None THEN "handle" ELSE "actorBucket",
                 ![r].actor = actor,
                 ![r].deployment = deployed,
                 ![r].revoked = Revoked]
    /\ UNCHANGED <<deployed, clock, tokens, keys, nonces, buckets, codes, legacy, kernel>>

\* Fault: every request opens a window of its own.
AdvancedAnew(bucket) == [count |-> 1, resetAt |-> clock + Window]

\* One request more in the window, or a new window if the old one is over.
Advanced(bucket) ==
    IF clock < buckets[bucket].resetAt
    THEN [buckets[bucket] EXCEPT !.count = @ + 1]
    ELSE [count |-> 1, resetAt |-> clock + Window]

Consume(r, phase, bucket, limit, next) ==
    /\ At(r, phase)
    /\ buckets' = [buckets EXCEPT ![bucket] = Advanced(bucket)]
    /\ requests' = [requests EXCEPT
           ![r].phase = IF Advanced(bucket).count <= limit THEN next ELSE "refused",
           ![r].windows = IF Advanced(bucket).count <= limit
                          THEN @ \cup {<<bucket, Advanced(bucket).resetAt>>} ELSE @]
    /\ UNCHANGED <<deployed, clock, tokens, keys, nonces, codes, legacy, kernel, lost>>

LimitActor(r) ==
    Consume(r, "actorBucket", requests[r].actor, Limit,
            IF CallOf(r).credential \in Tokens THEN "tokenBucket" ELSE "handle")

LimitToken(r) ==
    Consume(r, "tokenBucket", CallOf(r).credential, TokenLimit, "handle")

----------------------------------------------------------------------------
(***************************************************************************)
(* Writes.                                                                 *)
(***************************************************************************)

\* Typed submissions are gated before anything else is looked at.
Gated(r) == CallOf(r).route \in TypedRoutes => Config(r).write = "kernel" /\ Config(r).ready

\* The signer of an envelope: the publisher it names, or whoever authenticated.
Publisher(r) ==
    IF CallOf(r).route \in TypedRoutes /\ CallOf(r).envelope # None THEN CallOf(r).envelope.signer ELSE ActorOf(r)

TypedAcceptable(r) ==
    CallOf(r).route \in TypedRoutes => CallOf(r).envelope # None /\ Publisher(r) \in Humans

\* A Claim that an agent or a service drafted needs the signature of the human who publishes it.
ClaimAcceptable(r) ==
    CallOf(r).route = "claim.create" =>
        /\ ActorOf(r) \in Humans
        /\ CallOf(r).drafter # None => CallOf(r).drafter \notin Humans /\ CallOf(r).envelope # None

RunAcceptable(r) ==
    CallOf(r).route = "run.create" =>
        CallOf(r).envelope # None /\ ActorOf(r) \in Humans /\ CallOf(r).drafter \notin Humans

Acceptable(r) ==
    Gated(r) /\ ActorOf(r) # None /\ TypedAcceptable(r) /\ ClaimAcceptable(r) /\ RunAcceptable(r)

\* The key that the lookup of an actor's active key may return.
ActiveKeys(actor) == {k \in Keys : keys[k].owner = actor /\ ~keys[k].revoked}

\* A Run is also signed by its producer, whose key is looked up first.
ProducerSigned(r) == CallOf(r).route = "run.create" => ActiveKeys(CallOf(r).drafter) # {}

HandleWrite(r) ==
    /\ At(r, "handle")
    /\ CallOf(r).route \in WriteRoutes
    /\ IF Acceptable(r) /\ ProducerSigned(r)
       THEN GoesAs(r, IF Verifies(r) THEN "signature" ELSE "authorize", ActorOf(r)) /\ UNCHANGED stores
       ELSE Refuse(r)
    /\ UNCHANGED <<deployed, clock>>

\* What was signed is what is submitted: this route, this command in its canonical form, by this signer.
Bound(r) ==
    LET envelope == CallOf(r).envelope
    IN  envelope.route = CallOf(r).route /\ envelope.command = CallOf(r).about /\ envelope.signer = Publisher(r)

Signed(r, key) == Bound(r) /\ CallOf(r).envelope.key = key

\* One of the active keys is found; the signature is checked against that one.
VerifiedAs(r, phase) ==
    \/ /\ \E key \in ActiveKeys(Publisher(r)) : Signed(r, key)
       /\ Goes(r, phase)
       /\ UNCHANGED stores
    \/ /\ ActiveKeys(Publisher(r)) = {} \/ \E key \in ActiveKeys(Publisher(r)) : ~Signed(r, key)
       /\ Refuse(r)

VerifySignature(r) ==
    /\ At(r, "signature")
    /\ VerifiedAs(r, "nonce")
    /\ UNCHANGED <<deployed, clock>>

Nonce(envelope) == <<envelope.signer, envelope.key, envelope.nonce>>

\* Fault: an insert that was ignored is taken for one that was made.
NeverRefused(envelope) == envelope \in Envelope

\* The insert ignores duplicates: a returned row means that the nonce was not used before.
Unused(envelope) == Nonce(envelope) \notin nonces

ClaimNonce(r) ==
    /\ At(r, "nonce")
    /\ nonces' = nonces \cup {Nonce(CallOf(r).envelope)}
    /\ \/ Goes(r, IF Unused(CallOf(r).envelope) THEN "authorize" ELSE "refused") /\ UNCHANGED lost
       \/ lost < MaxLost /\ lost' = lost + 1 /\ Goes(r, "refused")
    /\ UNCHANGED <<deployed, clock, tokens, keys, buckets, codes, legacy, kernel>>

\* The role is looked up after the nonce was consumed; it may not allow the write.
Authorize(r) ==
    /\ At(r, "authorize")
    /\ \/ Goes(r, "write") /\ UNCHANGED stores
       \/ Refuse(r)
    /\ UNCHANGED <<deployed, clock>>

\* Stores the command of r in the named projections, in one transaction, or fails on a row that is there.
Store(r, inLegacy, inKernel) ==
    LET command == CallOf(r).about
    IN  IF (inLegacy /\ command \in legacy) \/ (inKernel /\ command \in kernel)
        THEN Refuse(r)
        ELSE /\ legacy' = IF inLegacy THEN legacy \cup {command} ELSE legacy
             /\ kernel' = IF inKernel THEN kernel \cup {command} ELSE kernel
             /\ Goes(r, "stored")
             /\ UNCHANGED <<tokens, keys, nonces, buckets, codes, lost>>

\* The mutation is planned against captured inserts: its event carries the envelope, if there is one.
Plannable(r) == CallOf(r).route \in BindableSurfaces /\ CallOf(r).envelope # None

Write(r) ==
    /\ At(r, "write")
    /\ IF CallOf(r).route \in TypedRoutes THEN Store(r, FALSE, TRUE)
       ELSE IF CallOf(r).route \in DirectRoutes \/ Config(r).write = "legacy" THEN Store(r, TRUE, FALSE)
       ELSE IF Config(r).write = "kernel" \/ (Config(r).rpc /\ ~Plannable(r)) THEN Refuse(r)
       ELSE Goes(r, IF Config(r).rpc THEN "verify" ELSE "commit") /\ UNCHANGED stores
    /\ UNCHANGED <<deployed, clock>>

\* Before the service transaction the signature is checked once more; the nonce is not.
VerifyEvents(r) ==
    /\ At(r, "verify")
    /\ VerifiedAs(r, "commit")
    /\ UNCHANGED <<deployed, clock>>

\* Fault: the kernel's part fails and the legacy part stays.
CommitWithoutParity(r) ==
    /\ At(r, "commit")
    /\ Store(r, TRUE, TRUE) \/ Store(r, TRUE, FALSE)
    /\ UNCHANGED <<deployed, clock>>

\* Both projections and their parity in one transaction, which may also fail as a whole.
CommitDual(r) ==
    /\ At(r, "commit")
    /\ Store(r, TRUE, TRUE) \/ Refuse(r)
    /\ UNCHANGED <<deployed, clock>>

----------------------------------------------------------------------------
(***************************************************************************)
(* Compatibility reads.                                                    *)
(***************************************************************************)

\* What a reader of a projection finds of the legacy kinds.
Mirrored == {CallOf(r).about : r \in {s \in DOMAIN requests : CallOf(s).route \in Surfaces}}
Seen(projection) == projection \cap Mirrored

Read(r) ==
    /\ At(r, "handle")
    /\ CallOf(r).route = "read"
    /\ CASE CallOf(r).credential # None /\ ActorOf(r) = None -> Refuse(r)
         [] CallOf(r).credential \in Tokens /\ ~tokens[CallOf(r).credential].reads -> Refuse(r)
         [] Config(r).read = "kernel" /\ ~Config(r).ready -> Refuse(r)
         [] OTHER ->
              /\ requests' = [requests EXCEPT
                     ![r].phase = IF Config(r).read = "shadow" THEN "shadow" ELSE "answered",
                     ![r].holds = IF Config(r).read = "kernel" THEN Seen(kernel) ELSE Seen(legacy)]
              /\ UNCHANGED stores
    /\ UNCHANGED <<deployed, clock>>

\* The kernel is read after the legacy tables; whatever it says is only compared and observed.
Shadow(r) ==
    /\ At(r, "shadow")
    /\ Goes(r, "answered")
    /\ UNCHANGED <<deployed, clock, stores>>

----------------------------------------------------------------------------
(***************************************************************************)
(* Device codes, API tokens and signing keys.                              *)
(***************************************************************************)

Live(code) == codes[code].status # "none" /\ clock < codes[code].expires

\* A code is random, one that nobody had; codes that expired are pruned when it is created.
StartDevice(r) ==
    /\ At(r, "handle")
    /\ CallOf(r).route = "device.start"
    /\ \A s \in DOMAIN requests :
          requests[s].phase = "stored" /\ CallOf(s).route = "device.start" => CallOf(s).about # CallOf(r).about
    /\ codes' = [c \in Codes |-> IF c = CallOf(r).about
                                 THEN [status |-> "pending", actor |-> None, expires |-> clock + Ttl]
                                 ELSE IF Live(c) THEN codes[c] ELSE NoCode]
    /\ Goes(r, "stored")
    /\ UNCHANGED <<deployed, clock, tokens, keys, nonces, buckets, legacy, kernel, lost>>

\* The record is read and checked, and updated after another await.
ReadApproval(r) ==
    /\ At(r, "handle")
    /\ CallOf(r).route = "device.approve"
    /\ IF ActorOf(r) # None /\ Live(CallOf(r).about) /\ codes[CallOf(r).about].status = "pending"
       THEN GoesAs(r, "approve", ActorOf(r)) /\ UNCHANGED stores
       ELSE Refuse(r)
    /\ UNCHANGED <<deployed, clock>>

\* A record that is gone is not updated; the answer says approved all the same.
StoreApproval(r) ==
    /\ At(r, "approve")
    /\ codes' = IF codes[CallOf(r).about].status = "none" THEN codes
                ELSE [codes EXCEPT ![CallOf(r).about].status = "approved", ![CallOf(r).about].actor = requests[r].actor]
    /\ Goes(r, "stored")
    /\ UNCHANGED <<deployed, clock, tokens, keys, nonces, buckets, legacy, kernel, lost>>

\* An exchange reads the record; an expired one is deleted, a pending one is polled again.
Exchangeable(code) == Live(code) /\ codes[code].status = "approved"

ReadExchange(r) ==
    /\ At(r, "handle")
    /\ CallOf(r).route = "device.token"
    /\ LET code == CallOf(r).about
       IN  IF Exchangeable(code)
           THEN GoesAs(r, "issue", codes[code].actor) /\ UNCHANGED stores
           ELSE /\ Goes(r, "refused")
                /\ codes' = IF codes[code].status # "none" /\ ~Live(code) THEN [codes EXCEPT ![code] = NoCode] ELSE codes
                /\ UNCHANGED <<tokens, keys, nonces, buckets, legacy, kernel, lost>>
    /\ UNCHANGED <<deployed, clock>>

\* A token is random: one that nobody has.
Issue(r, actor, token, reads, next) ==
    /\ tokens[token].owner = None
    /\ tokens' = [tokens EXCEPT ![token] =
                     [owner |-> actor, revoked |-> FALSE, expires |-> MaxTime + 1, reads |-> reads]]
    /\ requests' = [requests EXCEPT ![r].phase = next, ![r].holds = {token}]
    /\ UNCHANGED <<keys, nonces, buckets, codes, legacy, kernel, lost>>

IssueForCode(r) ==
    /\ At(r, "issue")
    /\ \E token \in Tokens : Issue(r, requests[r].actor, token, TRUE, "forget")
    /\ UNCHANGED <<deployed, clock>>

ForgetCode(r) ==
    /\ At(r, "forget")
    /\ codes' = [codes EXCEPT ![CallOf(r).about] = NoCode]
    /\ Goes(r, "stored")
    /\ UNCHANGED <<deployed, clock, tokens, keys, nonces, buckets, legacy, kernel, lost>>

CreateToken(r) ==
    /\ At(r, "handle")
    /\ CallOf(r).route = "token.create"
    /\ ActorOf(r) # None
    /\ \E token \in Tokens, reads \in BOOLEAN : Issue(r, ActorOf(r), token, reads, "stored")
    /\ UNCHANGED <<deployed, clock>>

\* The update names the owner and asks for a token that is not revoked.
RevokeToken(r) ==
    /\ At(r, "handle")
    /\ CallOf(r).route = "token.revoke"
    /\ LET token == CallOf(r).about
       IN  IF ActorOf(r) # None /\ tokens[token].owner = ActorOf(r) /\ ~tokens[token].revoked
           THEN /\ tokens' = [tokens EXCEPT ![token].revoked = TRUE]
                /\ Goes(r, "stored")
                /\ UNCHANGED <<keys, nonces, buckets, codes, legacy, kernel, lost>>
           ELSE Refuse(r)
    /\ UNCHANGED <<deployed, clock>>

\* A request for credentials whose caller is not authenticated.
RefuseUnknown(r) ==
    /\ At(r, "handle")
    /\ CallOf(r).route = "token.create"
    /\ ActorOf(r) = None
    /\ Refuse(r)
    /\ UNCHANGED <<deployed, clock>>

\* The transaction looks for an active key and inserts; no constraint compares two of them.
ReadKeys(r) ==
    /\ At(r, "handle")
    /\ CallOf(r).route = "key.register"
    /\ IF ActorOf(r) # None /\ ActiveKeys(ActorOf(r)) = {}
       THEN GoesAs(r, "register", ActorOf(r)) /\ UNCHANGED stores
       ELSE Refuse(r)
    /\ UNCHANGED <<deployed, clock>>

RegisterKey(r) ==
    /\ At(r, "register")
    /\ LET key == CallOf(r).about
       IN  IF keys[key].owner = None
           THEN /\ keys' = [keys EXCEPT ![key] = [owner |-> requests[r].actor, revoked |-> FALSE]]
                /\ Goes(r, "stored")
                /\ UNCHANGED <<tokens, nonces, buckets, codes, legacy, kernel, lost>>
           ELSE Refuse(r)
    /\ UNCHANGED <<deployed, clock>>

----------------------------------------------------------------------------
(***************************************************************************)
(* The world around the requests.                                          *)
(***************************************************************************)

\* revokeActorSigningKey has no route of its own.
RevokeKey(key) ==
    /\ Cardinality({k \in Keys : keys[k].revoked}) < MaxRevocations
    /\ keys[key].owner # None /\ ~keys[key].revoked
    /\ keys' = [keys EXCEPT ![key].revoked = TRUE]
    /\ UNCHANGED <<deployed, clock, tokens, nonces, buckets, codes, legacy, kernel, requests, lost>>

\* Another configuration is deployed; requests in flight keep theirs.
Redeploy ==
    /\ deployed < Len(Deployments)
    /\ deployed' = deployed + 1
    /\ UNCHANGED <<clock, stores, requests>>

Tick ==
    /\ clock < MaxTime
    /\ clock' = clock + 1
    /\ UNCHANGED <<deployed, stores, requests>>

Init ==
    /\ deployed = 1
    /\ clock = 0
    /\ tokens = InitialTokens
    /\ keys = InitialKeys
    /\ nonces = {}
    /\ buckets = [b \in Actors \cup Tokens |-> [count |-> 0, resetAt |-> 0]]
    /\ codes = [c \in Codes |-> NoCode]
    /\ legacy = {}
    /\ kernel = {}
    /\ \E script \in Scripts :
          requests = [r \in DOMAIN script |->
              [call |-> script[r], phase |-> "unsent", deployment |-> 1, actor |-> None,
               revoked |-> {}, windows |-> {}, holds |-> {}]]
    /\ lost = 0

Serve(r) ==
    \/ Receive(r) \/ LimitActor(r) \/ LimitToken(r)
    \/ HandleWrite(r) \/ VerifySignature(r) \/ ClaimNonce(r) \/ Authorize(r)
    \/ Write(r) \/ VerifyEvents(r) \/ CommitDual(r)
    \/ Read(r) \/ Shadow(r)
    \/ StartDevice(r) \/ ReadApproval(r) \/ StoreApproval(r) \/ ReadExchange(r) \/ IssueForCode(r) \/ ForgetCode(r)
    \/ CreateToken(r) \/ RevokeToken(r) \/ RefuseUnknown(r) \/ ReadKeys(r) \/ RegisterKey(r)

Next ==
    \/ \E r \in DOMAIN requests : Serve(r)
    \/ \E key \in Keys : RevokeKey(key)
    \/ Redeploy
    \/ Tick

Spec == Init /\ [][Next]_vars

----------------------------------------------------------------------------
(***************************************************************************)
(* Properties.                                                             *)
(***************************************************************************)

Stored(r) == requests[r].phase = "stored"

\* On the routes that verify it, a signature is good for one write: of all the requests that carry a nonce
\* of one key, replayed, retried after a lost answer or sent at the same time, at most one stores anything.
SignatureWorksOnce ==
    \A r, s \in DOMAIN requests :
        /\ Stored(r) /\ Stored(s)
        /\ Verifies(r) /\ Verifies(s)
        /\ Nonce(CallOf(r).envelope) = Nonce(CallOf(s).envelope)
        => r = s

\* A request that was received after its token was revoked stores nothing, and one that was received after
\* the key of its signature was revoked stores nothing on a route that verifies the signature; only the two
\* ends of a device login ask for no credential.
NothingFromTheRevoked ==
    \A r \in DOMAIN requests :
        Stored(r) =>
            /\ CallOf(r).route \notin {"device.start", "device.token"} => CallOf(r).credential \notin requests[r].revoked
            /\ Verifies(r) => CallOf(r).envelope.key \notin requests[r].revoked

\* However a bucket is shared by requests and sessions, no window admits more than its limit of the requests
\* whose credential the limiter could look up; the others it does not count.
WindowsHold ==
    \A b \in Actors \cup Tokens, end \in 0 .. MaxTime + Window :
        Cardinality({r \in DOMAIN requests : <<b, end>> \in requests[r].windows})
            <= (IF b \in Tokens THEN TokenLimit ELSE Limit)

\* A row of a mirrored kind enters the kernel only together with its legacy row, and enters the legacy
\* tables alone only if its request was received by a deployment that writes the legacy tables alone.
ProjectionsMoveTogether ==
    [][\A r \in DOMAIN requests :
          ~Stored(r) /\ Stored(r)' /\ CallOf(r).route \in Surfaces =>
              \/ CallOf(r).about \in legacy' /\ CallOf(r).about \in kernel'
              \/ Config(r).write = "legacy" /\ kernel' = kernel]_vars

=============================================================================
