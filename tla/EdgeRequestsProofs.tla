-------------------------- MODULE EdgeRequestsProofs --------------------------
(***************************************************************************)
(* On the routes that verify it, a signature is good for one write, and    *)
(* nothing that was revoked when a request was received lets it write: for *)
(* any requests in flight at once, any deployments, windows and codes, and *)
(* any number of lost answers.                                             *)
(*                                                                         *)
(* The argument: a request that is past the nonce store has its nonce      *)
(* there, and no two such requests share one, since the second to arrive   *)
(* finds it and is refused.  A request is not stored without having passed,*)
(* unless it has no envelope or its route does not verify one.             *)
(* A bucket counts whomever it admits, and the window that it opens next   *)
(* ends later than any that admitted somebody.                             *)
(* A dual write stores both rows in the step that ends its request, and    *)
(* what a tab shows follows the stored signals from load to load, however  *)
(* the two inserts of a self-provisioning fall between.                    *)
(***************************************************************************)
EXTENDS EdgeRequests, Interactions, FiniteSetTheorems, TLAPS

Formed(q) ==
    {"call", "phase", "actor", "deployment", "revoked", "windows", "holds"} \subseteq DOMAIN q

PastNonce == {"authorize", "write", "verify", "commit", "stored"}
Custody == {"approve", "issue", "forget", "register"}

\* Request r is past the nonce store, on a route that verifies its envelope.
Consumed(r) == requests[r].phase \in PastNonce /\ Verifies(r)

RequestsAreFormed == \A r \in DOMAIN requests : Formed(requests[r])
CustodyIsBare == \A r \in DOMAIN requests : requests[r].phase \in Custody => ~Verifies(r)
ConsumedAreKept == \A r \in DOMAIN requests : Consumed(r) => Nonce(CallOf(r).envelope) \in nonces
ConsumedOnce ==
    \A r, s \in DOMAIN requests :
        /\ Consumed(r) /\ Consumed(s)
        /\ Nonce(CallOf(r).envelope) = Nonce(CallOf(s).envelope)
        => r = s

SignatureInv ==
    /\ RequestsAreFormed
    /\ CustodyIsBare
    /\ ConsumedAreKept
    /\ ConsumedOnce

----------------------------------------------------------------------------
(***************************************************************************)
(* What a step does to the requests.                                       *)
(***************************************************************************)

\* Request r goes to a phase; what was asked stays, and so do the other requests.
Steps(r, phase) ==
    /\ DOMAIN requests' = DOMAIN requests
    /\ \A s \in DOMAIN requests : s # r => requests'[s] = requests[s]
    /\ requests'[r].call = requests[r].call
    /\ requests'[r].phase = phase
    /\ Formed(requests'[r])

\* It leaves with this actor, and with these revocations known when it was received.
Marks(r, actor, revoked) == requests'[r].actor = actor /\ requests'[r].revoked = revoked

\* A request that changes its phase alone steps there.
LEMMA GoesSteps ==
    ASSUME NEW r \in DOMAIN requests, Formed(requests[r]), NEW phase, Goes(r, phase)
    PROVE  Steps(r, phase) /\ Marks(r, requests[r].actor, requests[r].revoked)
BY DEF Steps, Marks, Goes, Formed

\* A request that changes its phase and its actor steps there.
LEMMA GoesAsSteps ==
    ASSUME NEW r \in DOMAIN requests, Formed(requests[r]), NEW phase, NEW actor,
           GoesAs(r, phase, actor)
    PROVE  Steps(r, phase) /\ Marks(r, actor, requests[r].revoked)
BY DEF Steps, Marks, GoesAs, Formed

\* A request that changes its phase and what it holds steps there.
LEMMA HoldsSteps ==
    ASSUME NEW r \in DOMAIN requests, Formed(requests[r]), NEW phase, NEW holds,
           requests' = [requests EXCEPT ![r].phase = phase, ![r].holds = holds]
    PROVE  Steps(r, phase) /\ Marks(r, requests[r].actor, requests[r].revoked)
BY DEF Steps, Marks, Formed

\* A request that passes a bucket or is refused by it steps there.
LEMMA ConsumeSteps ==
    ASSUME NEW r \in DOMAIN requests, Formed(requests[r]),
           NEW phase, NEW bucket, NEW limit, NEW next, Consume(r, phase, bucket, limit, next)
    PROVE  /\ Steps(r, IF Advanced(bucket).count <= limit THEN next ELSE "refused")
           /\ Marks(r, requests[r].actor, requests[r].revoked)
<1> DEFINE passes == Advanced(bucket).count <= limit
<1> DEFINE window == {<<bucket, Advanced(bucket).resetAt>>}
<1> DEFINE to == IF passes THEN next ELSE "refused"
<1>1. requests' = [requests EXCEPT ![r].phase = to,
                                   ![r].windows = IF passes THEN @ \cup window ELSE @]
  BY DEF Consume
<1> HIDE DEF passes, window, to
<1>2. Steps(r, to) /\ Marks(r, requests[r].actor, requests[r].revoked)
  BY <1>1 DEF Steps, Marks, Formed
<1> QED
  BY <1>2 DEF to, passes

\* A request that is received steps to the limiter or to its handler.
LEMMA ReceiveSteps ==
    ASSUME NEW r \in DOMAIN requests, Formed(requests[r]), Receive(r)
    PROVE  \E actor \in {None, Identify(CallOf(r).credential)} :
               /\ Steps(r, IF actor = None THEN "handle" ELSE "actorBucket")
               /\ Marks(r, actor, Revoked)
<1>1. PICK actor \in {None, Identify(CallOf(r).credential)} :
        requests' = [requests EXCEPT
            ![r].phase = IF actor = None THEN "handle" ELSE "actorBucket",
            ![r].actor = actor, ![r].deployment = deployed, ![r].revoked = Revoked]
  BY DEF Receive
<1> DEFINE to == IF actor = None THEN "handle" ELSE "actorBucket"
<1>2. requests' = [requests EXCEPT ![r].phase = to, ![r].actor = actor,
                                   ![r].deployment = deployed, ![r].revoked = Revoked]
  BY <1>1
<1> HIDE DEF to
<1>3. Steps(r, to) /\ Marks(r, actor, Revoked)
  BY <1>2 DEF Steps, Marks, Formed
<1> QED
  BY <1>1, <1>3 DEF to

\* A step to a phase that the invariant allows keeps the invariant.
LEMMA StepKeeps ==
    ASSUME SignatureInv, NEW r \in DOMAIN requests, NEW phase, Steps(r, phase),
           nonces \subseteq nonces',
           phase \in Custody => ~Verifies(r),
           phase \in PastNonce /\ Verifies(r) =>
               \/ requests[r].phase \in PastNonce
               \/ /\ Nonce(CallOf(r).envelope) \notin nonces
                  /\ Nonce(CallOf(r).envelope) \in nonces'
    PROVE  SignatureInv'
<1>1. \A s \in DOMAIN requests : CallOf(s)' = CallOf(s) /\ (Verifies(s)' <=> Verifies(s))
  BY DEF Steps, CallOf, Verifies
<1>2. \A s \in DOMAIN requests : s # r => (Consumed(s)' <=> Consumed(s))
  BY <1>1 DEF Steps, Consumed
<1>3. Consumed(r)' => phase \in PastNonce /\ Verifies(r)
  BY <1>1 DEF Steps, Consumed
<1>4. Consumed(r)' => \/ Consumed(r)
                      \/ /\ Nonce(CallOf(r).envelope) \notin nonces
                         /\ Nonce(CallOf(r).envelope) \in nonces'
  BY <1>3 DEF Consumed
<1>5. RequestsAreFormed'
  BY DEF SignatureInv, RequestsAreFormed, Steps
<1>7. CustodyIsBare'
  BY <1>1 DEF SignatureInv, CustodyIsBare, Steps
<1>8. \A s \in DOMAIN requests : Nonce(CallOf(s).envelope)' = Nonce(CallOf(s).envelope)
  BY <1>1 DEF Nonce
<1>9. ConsumedAreKept'
  BY <1>2, <1>4, <1>8 DEF SignatureInv, ConsumedAreKept, Steps
<1>10. ConsumedOnce'
  BY <1>2, <1>4, <1>8 DEF SignatureInv, ConsumedAreKept, ConsumedOnce, Steps
<1> QED
  BY <1>5, <1>7, <1>9, <1>10 DEF SignatureInv

\* A step to a phase that is neither past the nonce store nor one of the custody of codes and keys
\* keeps the invariant.
LEMMA AsideKeeps ==
    ASSUME SignatureInv, NEW r \in DOMAIN requests, NEW phase, Steps(r, phase),
           nonces \subseteq nonces', phase \notin PastNonce \cup Custody
    PROVE  SignatureInv'
BY StepKeeps

\* A step of a request without an envelope keeps the invariant.
LEMMA BareKeeps ==
    ASSUME SignatureInv, NEW r \in DOMAIN requests, NEW phase, Steps(r, phase),
           nonces \subseteq nonces', ~Verifies(r)
    PROVE  SignatureInv'
BY StepKeeps

\* A step of a request that is past the nonce store keeps the invariant.
LEMMA PastKeeps ==
    ASSUME SignatureInv, NEW r \in DOMAIN requests, NEW phase, Steps(r, phase),
           nonces \subseteq nonces', requests[r].phase \in PastNonce, phase \notin Custody
    PROVE  SignatureInv'
BY StepKeeps

\* A refusal keeps the invariant.
LEMMA RefuseKeeps ==
    ASSUME SignatureInv, NEW r \in DOMAIN requests, Refuse(r)
    PROVE  SignatureInv'
<1>1. Formed(requests[r])
  BY DEF SignatureInv, RequestsAreFormed
<1>2. Steps(r, "refused") /\ nonces \subseteq nonces'
  BY <1>1, GoesSteps DEF Refuse, stores
<1> QED
  BY <1>2, AsideKeeps DEF PastNonce, Custody

\* A request on a route that does not write has no envelope verified.
LEMMA OtherRoutesAreBare ==
    ASSUME NEW r \in DOMAIN requests,
           CallOf(r).route \in CodeRoutes \cup CredentialRoutes \cup {"read"}
    PROVE  ~Verifies(r)
BY DEF Verifies, VerifyingRoutes, BindableSurfaces, TypedRoutes, CodeRoutes, CredentialRoutes

----------------------------------------------------------------------------
(***************************************************************************)
(* The steps of one request.                                               *)
(***************************************************************************)

\* The limiter keeps the invariant.
LEMMA LimiterKeeps ==
    ASSUME SignatureInv, NEW r \in DOMAIN requests,
           Receive(r) \/ LimitActor(r) \/ LimitToken(r)
    PROVE  SignatureInv'
<1>1. Formed(requests[r])
  BY DEF SignatureInv, RequestsAreFormed
<1>2. CASE Receive(r)
  <2>1. PICK phase \in {"handle", "actorBucket"} : Steps(r, phase)
    BY <1>1, <1>2, ReceiveSteps
  <2>2. nonces \subseteq nonces'
    BY <1>2 DEF Receive, stores
  <2> QED
    BY <2>1, <2>2, AsideKeeps DEF PastNonce, Custody
<1>3. CASE LimitActor(r)
  <2>1. PICK phase \in {"handle", "tokenBucket", "refused"} : Steps(r, phase)
    BY <1>1, <1>3, ConsumeSteps DEF LimitActor
  <2>2. nonces \subseteq nonces'
    BY <1>3 DEF LimitActor, Consume
  <2> QED
    BY <2>1, <2>2, AsideKeeps DEF PastNonce, Custody
<1>4. CASE LimitToken(r)
  <2>1. PICK phase \in {"handle", "refused"} : Steps(r, phase)
    BY <1>1, <1>4, ConsumeSteps DEF LimitToken
  <2>2. nonces \subseteq nonces'
    BY <1>4 DEF LimitToken, Consume
  <2> QED
    BY <2>1, <2>2, AsideKeeps DEF PastNonce, Custody
<1> QED
  BY <1>2, <1>3, <1>4

\* A verification sends its request to the given phase or refuses it.
LEMMA VerifiedSteps ==
    ASSUME SignatureInv, NEW r \in DOMAIN requests, NEW phase, VerifiedAs(r, phase)
    PROVE  SignatureInv' \/ (Steps(r, phase) /\ nonces \subseteq nonces')
<1>1. Formed(requests[r])
  BY DEF SignatureInv, RequestsAreFormed
<1>2. CASE Goes(r, phase) /\ UNCHANGED stores
  BY <1>1, <1>2, GoesSteps DEF stores
<1>3. CASE Refuse(r)
  BY <1>3, RefuseKeeps
<1> QED
  BY <1>2, <1>3 DEF VerifiedAs

\* What happens before the nonce store keeps the invariant: a request with an envelope goes there.
LEMMA ChecksKeep ==
    ASSUME SignatureInv, NEW r \in DOMAIN requests, HandleWrite(r) \/ VerifySignature(r)
    PROVE  SignatureInv'
<1>1. Formed(requests[r])
  BY DEF SignatureInv, RequestsAreFormed
<1>2. CASE HandleWrite(r)
  <2>1. CASE Refuse(r)
    BY <2>1, RefuseKeeps
  <2>2. CASE /\ GoesAs(r, IF Verifies(r) THEN "signature" ELSE "authorize", ActorOf(r))
             /\ UNCHANGED stores
    <3>1. nonces \subseteq nonces'
      BY <2>2 DEF stores
    <3>2. Steps(r, IF Verifies(r) THEN "signature" ELSE "authorize")
      BY <1>1, <2>2, GoesAsSteps
    <3>3. CASE Verifies(r)
      BY <3>1, <3>2, <3>3, AsideKeeps DEF PastNonce, Custody
    <3>4. CASE ~Verifies(r)
      BY <3>1, <3>2, <3>4, BareKeeps
    <3> QED
      BY <3>3, <3>4
  <2> QED
    BY <1>2, <2>1, <2>2 DEF HandleWrite
<1>3. CASE VerifySignature(r)
  BY <1>3, VerifiedSteps, AsideKeeps DEF VerifySignature, PastNonce, Custody
<1> QED
  BY <1>2, <1>3

\* The nonce store lets a request past it only if its nonce was not there.
LEMMA ClaimKeeps ==
    ASSUME SignatureInv, NEW r \in DOMAIN requests, ClaimNonce(r)
    PROVE  SignatureInv'
<1>1. Formed(requests[r])
  BY DEF SignatureInv, RequestsAreFormed
<1>2. nonces \subseteq nonces' /\ Nonce(CallOf(r).envelope) \in nonces'
  BY DEF ClaimNonce
<1>3. CASE Goes(r, "refused")
  <2>1. Steps(r, "refused")
    BY <1>1, <1>3, GoesSteps
  <2> QED
    BY <1>2, <2>1, AsideKeeps DEF PastNonce, Custody
<1>4. CASE Goes(r, "authorize") /\ Unused(CallOf(r).envelope)
  <2>1. Steps(r, "authorize")
    BY <1>1, <1>4, GoesSteps
  <2>2. Nonce(CallOf(r).envelope) \notin nonces
    BY <1>4 DEF Unused
  <2> QED
    BY <1>2, <2>1, <2>2, StepKeeps DEF Custody
<1> QED
  BY <1>3, <1>4 DEF ClaimNonce

\* A transaction stores the command and its request, or refuses.
LEMMA StoreKeeps ==
    ASSUME SignatureInv, NEW r \in DOMAIN requests, requests[r].phase \in PastNonce,
           NEW inLegacy, NEW inKernel, Store(r, inLegacy, inKernel)
    PROVE  SignatureInv'
<1>1. Formed(requests[r])
  BY DEF SignatureInv, RequestsAreFormed
<1>2. CASE Refuse(r)
  BY <1>2, RefuseKeeps
<1>3. CASE Goes(r, "stored") /\ nonces' = nonces
  <2>1. Steps(r, "stored")
    BY <1>1, <1>3, GoesSteps
  <2> QED
    BY <1>3, <2>1, PastKeeps DEF Custody
<1> QED
  BY <1>2, <1>3 DEF Store

\* What happens after the nonce store keeps the invariant.
LEMMA WritesKeep ==
    ASSUME SignatureInv, NEW r \in DOMAIN requests,
           Authorize(r) \/ Write(r) \/ VerifyEvents(r) \/ CommitDual(r)
    PROVE  SignatureInv'
<1>1. Formed(requests[r])
  BY DEF SignatureInv, RequestsAreFormed
<1>2. requests[r].phase \in PastNonce
  BY DEF Authorize, Write, VerifyEvents, CommitDual, At, PastNonce
<1>3. ASSUME NEW phase \in {"write", "verify", "commit"}, Goes(r, phase), UNCHANGED stores
      PROVE  SignatureInv'
  <2>1. Steps(r, phase) /\ nonces \subseteq nonces'
    BY <1>1, <1>3, GoesSteps DEF stores
  <2> QED
    BY <1>2, <2>1, PastKeeps DEF Custody
<1>4. CASE Authorize(r)
  BY <1>3, <1>4, RefuseKeeps DEF Authorize
<1>5. CASE Write(r)
  <2>1. \/ \E inLegacy, inKernel \in BOOLEAN : Store(r, inLegacy, inKernel)
        \/ Refuse(r)
        \/ \E phase \in {"verify", "commit"} : Goes(r, phase) /\ UNCHANGED stores
    BY <1>5 DEF Write
  <2> QED
    BY <1>2, <1>3, <2>1, StoreKeeps, RefuseKeeps
<1>6. CASE VerifyEvents(r)
  BY <1>2, <1>6, VerifiedSteps, PastKeeps DEF VerifyEvents, Custody
<1>7. CASE CommitDual(r)
  BY <1>2, <1>7, StoreKeeps, RefuseKeeps DEF CommitDual
<1> QED
  BY <1>4, <1>5, <1>6, <1>7

\* A read is answered or refused.
LEMMA ReadsKeep ==
    ASSUME SignatureInv, NEW r \in DOMAIN requests, Read(r) \/ Shadow(r)
    PROVE  SignatureInv'
<1>1. Formed(requests[r])
  BY DEF SignatureInv, RequestsAreFormed
<1>2. CASE Read(r)
  <2>1. CASE Refuse(r)
    BY <2>1, RefuseKeeps
  <2>2. ASSUME NEW phase, phase = (IF Config(r).read = "shadow" THEN "shadow" ELSE "answered"),
               NEW holds, UNCHANGED stores,
               requests' = [requests EXCEPT ![r].phase = phase, ![r].holds = holds]
        PROVE  SignatureInv'
    <3>1. Steps(r, phase) /\ nonces \subseteq nonces'
      BY <1>1, <2>2, HoldsSteps DEF stores
    <3> QED
      BY <2>2, <3>1, AsideKeeps DEF PastNonce, Custody
  <2> QED
    BY <1>2, <2>1, <2>2 DEF Read
<1>3. CASE Shadow(r)
  <2>1. Steps(r, "answered") /\ nonces \subseteq nonces'
    BY <1>1, <1>3, GoesSteps DEF Shadow, stores
  <2> QED
    BY <2>1, AsideKeeps DEF PastNonce, Custody
<1> QED
  BY <1>2, <1>3

\* A request for a code, a token or a key is bare, before its first step and after it.
LEMMA CredentialsAreBare ==
    ASSUME SignatureInv, NEW r \in DOMAIN requests,
           \/ StartDevice(r) \/ ReadApproval(r) \/ StoreApproval(r) \/ ReadExchange(r)
           \/ IssueForCode(r) \/ ForgetCode(r) \/ CreateToken(r) \/ RevokeToken(r)
           \/ RefuseUnknown(r) \/ ReadKeys(r) \/ RegisterKey(r)
    PROVE  ~Verifies(r)
<1>1. CASE requests[r].phase \in Custody
  BY <1>1 DEF SignatureInv, CustodyIsBare
<1>2. CASE CallOf(r).route \in CodeRoutes \cup CredentialRoutes
  BY <1>2, OtherRoutesAreBare
<1> QED
  BY <1>1, <1>2 DEF StartDevice, ReadApproval, StoreApproval, ReadExchange, IssueForCode, ForgetCode,
                    CreateToken, RevokeToken, RefuseUnknown, ReadKeys, RegisterKey, At, Custody,
                    CodeRoutes, CredentialRoutes

\* A new token is handed to the request it was issued for.
LEMMA IssueKeeps ==
    ASSUME SignatureInv, NEW r \in DOMAIN requests, ~Verifies(r),
           NEW actor, NEW token, NEW reads, NEW next, Issue(r, actor, token, reads, next)
    PROVE  SignatureInv'
<1>1. Formed(requests[r])
  BY DEF SignatureInv, RequestsAreFormed
<1>2. Steps(r, next) /\ nonces \subseteq nonces'
  BY <1>1, HoldsSteps DEF Issue
<1> QED
  BY <1>2, BareKeeps

\* The codes, the tokens and the keys have nothing to do with signatures.
LEMMA CredentialsKeep ==
    ASSUME SignatureInv, NEW r \in DOMAIN requests,
           \/ StartDevice(r) \/ ReadApproval(r) \/ StoreApproval(r) \/ ReadExchange(r)
           \/ IssueForCode(r) \/ ForgetCode(r) \/ CreateToken(r) \/ RevokeToken(r)
           \/ RefuseUnknown(r) \/ ReadKeys(r) \/ RegisterKey(r)
    PROVE  SignatureInv'
<1>1. Formed(requests[r]) /\ ~Verifies(r)
  BY CredentialsAreBare DEF SignatureInv, RequestsAreFormed
<1>2. ASSUME NEW phase, Goes(r, phase), nonces' = nonces
      PROVE  SignatureInv'
  BY <1>1, <1>2, GoesSteps, BareKeeps
<1>3. ASSUME NEW phase, NEW actor, GoesAs(r, phase, actor), nonces' = nonces
      PROVE  SignatureInv'
  BY <1>1, <1>3, GoesAsSteps, BareKeeps
<1>4. CASE StartDevice(r) \/ StoreApproval(r) \/ ForgetCode(r)
  BY <1>2, <1>4 DEF StartDevice, StoreApproval, ForgetCode
<1>5. CASE ReadApproval(r)
  BY <1>3, <1>5, RefuseKeeps DEF ReadApproval, stores
<1>6. CASE ReadExchange(r)
  BY <1>2, <1>3, <1>6 DEF ReadExchange, stores
<1>7. CASE IssueForCode(r) \/ CreateToken(r)
  BY <1>1, <1>7, IssueKeeps DEF IssueForCode, CreateToken
<1>8. CASE RevokeToken(r)
  BY <1>2, <1>8, RefuseKeeps DEF RevokeToken
<1>9. CASE RefuseUnknown(r)
  BY <1>9, RefuseKeeps DEF RefuseUnknown
<1>10. CASE ReadKeys(r)
  BY <1>3, <1>10, RefuseKeeps DEF ReadKeys, stores
<1>11. CASE RegisterKey(r)
  BY <1>2, <1>11, RefuseKeeps DEF RegisterKey
<1> QED
  BY <1>4, <1>5, <1>6, <1>7, <1>8, <1>9, <1>10, <1>11

----------------------------------------------------------------------------
(***************************************************************************)
(* A signature works once.                                                 *)
(***************************************************************************)

\* At the start nothing was sent, and the requests are those of a script.
LEMMA InitSignature ==
    ASSUME Init
    PROVE  SignatureInv
<1>1. PICK script \in Scripts :
        requests = [r \in DOMAIN script |->
            [call |-> script[r], phase |-> "unsent", deployment |-> 1, actor |-> None,
             revoked |-> {}, windows |-> {}, holds |-> {}]]
  BY DEF Init
<1>2. \A r \in DOMAIN requests :
        /\ Formed(requests[r])
        /\ requests[r].phase = "unsent"
        /\ CallOf(r) = script[r]
  BY <1>1 DEF Formed, CallOf
<1> QED
  BY <1>2 DEF SignatureInv, RequestsAreFormed, CustodyIsBare, ConsumedAreKept, ConsumedOnce,
                    Consumed, PastNonce, Custody

\* Every step of a request, of the clock, of a deployment and of a revocation keeps the invariant.
LEMMA NextSignature ==
    ASSUME SignatureInv, [Next]_vars
    PROVE  SignatureInv'
<1>1. CASE UNCHANGED <<requests, nonces>>
  <2>1. \A r \in DOMAIN requests :
          /\ CallOf(r)' = CallOf(r)
          /\ Verifies(r)' <=> Verifies(r)
          /\ Consumed(r)' <=> Consumed(r)
          /\ Nonce(CallOf(r).envelope)' = Nonce(CallOf(r).envelope)
    BY <1>1 DEF CallOf, Verifies, Consumed, Nonce
  <2> QED
    BY <1>1, <2>1 DEF SignatureInv, RequestsAreFormed, CustodyIsBare,
                      ConsumedAreKept, ConsumedOnce
<1>2. ASSUME NEW r \in DOMAIN requests, Serve(r)
      PROVE  SignatureInv'
  BY <1>2, LimiterKeeps, ChecksKeep, ClaimKeeps, WritesKeep, ReadsKeep, CredentialsKeep DEF Serve
<1>3. CASE (\E key \in Keys : RevokeKey(key)) \/ Redeploy \/ Tick
  BY <1>1, <1>3 DEF RevokeKey, Redeploy, Tick, stores
<1> QED
  BY <1>1, <1>2, <1>3 DEF Next, vars, stores

\* Whatever requests are in flight, a request past the nonce store has its nonce there and no other
\* request that is past it has the same.
THEOREM NoncesAreSpent == Spec => []SignatureInv
<1>1. Init => SignatureInv
  BY InitSignature
<1>2. SignatureInv /\ [Next]_vars => SignatureInv'
  BY NextSignature
<1> QED
  BY <1>1, <1>2, PTL DEF Spec

\* A signature is good for one write: however often it is sent and resent, at most one of the
\* requests that carry its nonce on a route that verifies it stores anything.
THEOREM SignaturesWorkOnce == Spec => []SignatureWorksOnce
<1>1. SignatureInv => SignatureWorksOnce
  BY DEF SignatureInv, ConsumedOnce, Consumed, Verifies, PastNonce, SignatureWorksOnce, Stored
<1> QED
  BY <1>1, NoncesAreSpent, PTL

----------------------------------------------------------------------------
(***************************************************************************)
(* Revocation.  What a request knows of revocations, it knows from when it *)
(* was received, and nothing that was revoked is ever good again: so a     *)
(* check that it passes, however late, shows that its token and its key    *)
(* were good when it was received.                                         *)
(***************************************************************************)

\* The two ends of a device login ask for no credential.
OpenRoutes == {"device.start", "device.token"}

\* Phases that only an authenticated request reaches, on any other route.
Acting == {"signature", "nonce", "approve", "register"} \cup PastNonce

Unrevoked(r, id) == id \notin requests[r].revoked

RowsAreFormed ==
    /\ DOMAIN tokens = Tokens /\ DOMAIN keys = Keys
    /\ \A t \in Tokens : {"owner", "revoked", "expires"} \subseteq DOMAIN tokens[t]
    /\ \A k \in Keys : {"owner", "revoked"} \subseteq DOMAIN keys[k]
    /\ \A t \in Tokens : tokens[t].owner = None => ~tokens[t].revoked
    /\ \A k \in Keys : keys[k].owner = None => ~keys[k].revoked
CredentialsAreNoKeys == \A r \in DOMAIN requests : CallOf(r).credential \notin Keys
RevokedStay == \A r \in DOMAIN requests : requests[r].revoked \subseteq Revoked
LimitedAreGood ==
    \A r \in DOMAIN requests :
        \/ requests[r].phase \in {"actorBucket", "tokenBucket"}
        \/ requests[r].phase = "handle" /\ requests[r].actor # None
        => Unrevoked(r, CallOf(r).credential)
ActingAreGood ==
    \A r \in DOMAIN requests :
        requests[r].phase \in Acting /\ CallOf(r).route \notin OpenRoutes
            => Unrevoked(r, CallOf(r).credential)
ExchangesAreOpen ==
    \A r \in DOMAIN requests :
        requests[r].phase \in {"issue", "forget"} => CallOf(r).route = "device.token"
SignedAreGood ==
    \A r \in DOMAIN requests :
        requests[r].phase \in {"nonce"} \cup PastNonce /\ Verifies(r)
            => Unrevoked(r, CallOf(r).envelope.key)

RevocationInv ==
    /\ SignatureInv
    /\ RowsAreFormed
    /\ CredentialsAreNoKeys
    /\ RevokedStay
    /\ LimitedAreGood
    /\ ActingAreGood
    /\ ExchangesAreOpen
    /\ SignedAreGood

\* What is revoked stays so while the rows change as they do.
RowsGrow == RowsAreFormed' /\ Revoked \subseteq Revoked'

\* Rows that are left alone grow.
LEMMA RowsLeft ==
    ASSUME RowsAreFormed, UNCHANGED <<tokens, keys>>
    PROVE  RowsGrow
BY DEF RowsGrow, RowsAreFormed, Revoked

\* A credential that is found good is not revoked, nor was it before.
LEMMA GoodIsUnrevoked ==
    ASSUME RevocationInv, NEW r \in DOMAIN requests, Identify(CallOf(r).credential) # None
    PROVE  CallOf(r).credential \notin Revoked /\ Unrevoked(r, CallOf(r).credential)
<1>1. CallOf(r).credential \notin Revoked
  <2>1. CallOf(r).credential \notin Keys
    BY DEF RevocationInv, CredentialsAreNoKeys
  <2>2. CallOf(r).credential \in Tokens => ~tokens[CallOf(r).credential].revoked
    BY DEF Identify, GoodToken
  <2> QED
    BY <2>1, <2>2 DEF Revoked
<1> QED
  BY <1>1 DEF RevocationInv, RevokedStay, Unrevoked

\* A request whose handler knows its actor has a credential that was not revoked when it was received.
LEMMA ActorIsUnrevoked ==
    ASSUME RevocationInv, NEW r \in DOMAIN requests, At(r, "handle"), ActorOf(r) # None
    PROVE  Unrevoked(r, CallOf(r).credential)
BY GoodIsUnrevoked DEF RevocationInv, LimitedAreGood, At, ActorOf

\* What a step of request r must show: that it goes on only as an authenticated request may.
Shows(r, phase, actor, revoked) ==
    /\ revoked \subseteq Revoked'
    /\ phase \in {"actorBucket", "tokenBucket"} => CallOf(r).credential \notin revoked
    /\ phase = "handle" /\ actor # None => CallOf(r).credential \notin revoked
    /\ phase \in Acting /\ CallOf(r).route \notin OpenRoutes => CallOf(r).credential \notin revoked
    /\ phase \in {"issue", "forget"} => CallOf(r).route = "device.token"
    /\ phase \in {"nonce"} \cup PastNonce /\ Verifies(r) => CallOf(r).envelope.key \notin revoked

\* A step that shows it keeps the invariant.
LEMMA ShownKeeps ==
    ASSUME RevocationInv, SignatureInv', RowsGrow, NEW r \in DOMAIN requests,
           NEW phase, NEW actor, NEW revoked,
           Steps(r, phase), Marks(r, actor, revoked), Shows(r, phase, actor, revoked)
    PROVE  RevocationInv'
<1>1. \A s \in DOMAIN requests : CallOf(s)' = CallOf(s) /\ (Verifies(s)' <=> Verifies(s))
  BY DEF Steps, CallOf, Verifies
<1>2. DOMAIN requests' = DOMAIN requests
  BY DEF Steps
<1>3. CredentialsAreNoKeys'
  BY <1>1, <1>2 DEF RevocationInv, CredentialsAreNoKeys
<1>4. RevokedStay'
  BY <1>2 DEF RevocationInv, RevokedStay, RowsGrow, Steps, Marks, Shows
<1>5. LimitedAreGood'
  BY <1>1, <1>2 DEF RevocationInv, LimitedAreGood, Unrevoked, Steps, Marks, Shows
<1>6. ActingAreGood'
  BY <1>1, <1>2 DEF RevocationInv, ActingAreGood, Unrevoked, Steps, Marks, Shows
<1>7. ExchangesAreOpen'
  BY <1>1, <1>2 DEF RevocationInv, ExchangesAreOpen, Steps, Shows
<1>8. SignedAreGood'
  BY <1>1, <1>2 DEF RevocationInv, SignedAreGood, Unrevoked, Steps, Marks, Shows
<1> QED
  BY <1>3, <1>4, <1>5, <1>6, <1>7, <1>8 DEF RevocationInv, RowsGrow

\* A step that ends a request, or only compares, has nothing to show.
LEMMA EndShows ==
    ASSUME RevocationInv, RowsGrow, NEW r \in DOMAIN requests,
           NEW phase \in {"refused", "answered", "shadow"}, NEW actor
    PROVE  Shows(r, phase, actor, requests[r].revoked)
BY DEF RevocationInv, RevokedStay, RowsGrow, Shows, Acting, PastNonce

\* A refusal keeps the invariant.
LEMMA RefuseKeepsRevocation ==
    ASSUME RevocationInv, NEW r \in DOMAIN requests, Refuse(r)
    PROVE  RevocationInv'
<1>1. SignatureInv /\ Formed(requests[r]) /\ RowsAreFormed
  BY DEF RevocationInv, SignatureInv, RequestsAreFormed
<1>2. SignatureInv' /\ RowsGrow
  BY <1>1, RefuseKeeps, RowsLeft DEF Refuse, stores
<1>3. Steps(r, "refused") /\ Marks(r, requests[r].actor, requests[r].revoked)
  BY <1>1, GoesSteps DEF Refuse
<1> QED
  BY <1>2, <1>3, EndShows, ShownKeeps

\* A request past the nonce store goes on as the same authenticated request.
LEMMA PastShows ==
    ASSUME RevocationInv, RowsGrow, NEW r \in DOMAIN requests,
           requests[r].phase \in PastNonce, NEW phase \in PastNonce, NEW actor
    PROVE  Shows(r, phase, actor, requests[r].revoked)
BY DEF RevocationInv, RevokedStay, ActingAreGood, SignedAreGood, Unrevoked, RowsGrow, Shows,
       Acting, PastNonce

----------------------------------------------------------------------------

\* The limiter lets only good credentials through, and a handler learns of an actor only from it.
LEMMA LimiterKeepsRevocation ==
    ASSUME RevocationInv, NEW r \in DOMAIN requests,
           Receive(r) \/ LimitActor(r) \/ LimitToken(r)
    PROVE  RevocationInv'
<1>1. SignatureInv /\ Formed(requests[r]) /\ RowsAreFormed
  BY DEF RevocationInv, SignatureInv, RequestsAreFormed
<1>2. SignatureInv' /\ RowsGrow
  BY <1>1, LimiterKeeps, RowsLeft DEF Receive, LimitActor, LimitToken, Consume, stores
<1>3. CASE Receive(r)
  <2>1. PICK actor \in {None, Identify(CallOf(r).credential)} :
          /\ Steps(r, IF actor = None THEN "handle" ELSE "actorBucket")
          /\ Marks(r, actor, Revoked)
    BY <1>1, <1>3, ReceiveSteps
  <2> DEFINE phase == IF actor = None THEN "handle" ELSE "actorBucket"
  <2>2. Shows(r, phase, actor, Revoked)
    BY <1>2, GoodIsUnrevoked DEF Shows, RowsGrow, Acting, PastNonce
  <2> QED
    BY <1>2, <2>1, <2>2, ShownKeeps
<1>4. ASSUME NEW bucket, NEW limit, NEW next \in {"handle", "tokenBucket"},
             NEW phase \in {"actorBucket", "tokenBucket"}, Consume(r, phase, bucket, limit, next)
      PROVE  RevocationInv'
  <2> DEFINE to == IF Advanced(bucket).count <= limit THEN next ELSE "refused"
  <2>1. Steps(r, to) /\ Marks(r, requests[r].actor, requests[r].revoked)
    BY <1>1, <1>4, ConsumeSteps
  <2>2. requests[r].phase \in {"actorBucket", "tokenBucket"} /\ to \in {"handle", "tokenBucket", "refused"}
    BY <1>4 DEF Consume, At
  <2>3. Shows(r, to, requests[r].actor, requests[r].revoked)
    BY <1>2, <2>2 DEF RevocationInv, RevokedStay, LimitedAreGood, Unrevoked, Shows, RowsGrow, Acting, PastNonce
  <2> QED
    BY <1>2, <2>1, <2>3, ShownKeeps
<1>5. CASE LimitActor(r)
  BY <1>4, <1>5 DEF LimitActor
<1>6. CASE LimitToken(r)
  BY <1>4, <1>6 DEF LimitToken
<1> QED
  BY <1>3, <1>5, <1>6

\* A step to a phase that is shown, which changes no token and no key, keeps the invariant.
LEMMA GoesKeepsRevocation ==
    ASSUME RevocationInv, SignatureInv', RowsGrow, NEW r \in DOMAIN requests, NEW phase, NEW actor,
           \/ Goes(r, phase) /\ actor = requests[r].actor
           \/ GoesAs(r, phase, actor),
           Shows(r, phase, actor, requests[r].revoked)
    PROVE  RevocationInv'
<1>1. Formed(requests[r])
  BY DEF RevocationInv, SignatureInv, RequestsAreFormed
<1>2. Steps(r, phase) /\ Marks(r, actor, requests[r].revoked)
  BY <1>1, GoesSteps, GoesAsSteps
<1> QED
  BY <1>2, ShownKeeps

\* Before the nonce store the actor is known, and the key that verifies is one that is not revoked.
LEMMA ChecksKeepRevocation ==
    ASSUME RevocationInv, NEW r \in DOMAIN requests, HandleWrite(r) \/ VerifySignature(r)
    PROVE  RevocationInv'
<1>1. SignatureInv /\ RowsAreFormed
  BY DEF RevocationInv
<1>2. SignatureInv'
  BY <1>1, ChecksKeep
<1>3. CASE Refuse(r)
  BY <1>3, RefuseKeepsRevocation
<1>4. CASE HandleWrite(r) /\ ~Refuse(r)
  <2> DEFINE phase == IF Verifies(r) THEN "signature" ELSE "authorize"
  <2>1. GoesAs(r, phase, ActorOf(r)) /\ UNCHANGED stores /\ At(r, "handle") /\ ActorOf(r) # None
    BY <1>4 DEF HandleWrite, Acceptable, Verifies
  <2>2. RowsGrow
    BY <1>1, <2>1, RowsLeft DEF stores
  <2>3. Unrevoked(r, CallOf(r).credential)
    BY <2>1, ActorIsUnrevoked
  <2>4. Shows(r, phase, ActorOf(r), requests[r].revoked)
    BY <2>2, <2>3 DEF RevocationInv, RevokedStay, Unrevoked, Shows, RowsGrow, PastNonce
  <2> QED
    BY <1>2, <2>1, <2>2, <2>4, GoesKeepsRevocation
<1>5. CASE VerifySignature(r) /\ ~Refuse(r)
  <2>1. PICK key \in ActiveKeys(Publisher(r)) : Signed(r, key)
    BY <1>5 DEF VerifySignature, VerifiedAs
  <2>2. Goes(r, "nonce") /\ UNCHANGED stores /\ requests[r].phase = "signature"
    BY <1>5 DEF VerifySignature, VerifiedAs, At
  <2>3. RowsGrow
    BY <1>1, <2>2, RowsLeft DEF stores
  <2>4. CallOf(r).envelope.key \notin Revoked
    BY <2>1, KeysAssumption DEF ActiveKeys, Signed, Revoked
  <2>5. Shows(r, "nonce", requests[r].actor, requests[r].revoked)
    BY <2>2, <2>3, <2>4 DEF RevocationInv, RevokedStay, ActingAreGood, Unrevoked, Shows, RowsGrow,
                            Acting, PastNonce
  <2> QED
    BY <1>2, <2>2, <2>3, <2>5, GoesKeepsRevocation
<1> QED
  BY <1>3, <1>4, <1>5

\* The nonce store and what follows it look at no credential any more.
LEMMA WritesKeepRevocation ==
    ASSUME RevocationInv, NEW r \in DOMAIN requests,
           ClaimNonce(r) \/ Authorize(r) \/ Write(r) \/ VerifyEvents(r) \/ CommitDual(r)
    PROVE  RevocationInv'
<1>1. SignatureInv /\ RowsAreFormed
  BY DEF RevocationInv
<1>2. SignatureInv'
  BY <1>1, ClaimKeeps, WritesKeep
<1>3. CASE Refuse(r)
  BY <1>3, RefuseKeepsRevocation
<1>4. ASSUME UNCHANGED <<tokens, keys>>, NEW phase \in PastNonce, Goes(r, phase),
             requests[r].phase \in {"nonce"} \cup PastNonce
      PROVE  RevocationInv'
  <2>1. RowsGrow
    BY <1>1, <1>4, RowsLeft
  <2>2. Shows(r, phase, requests[r].actor, requests[r].revoked)
    BY <1>4, <2>1 DEF RevocationInv, RevokedStay, ActingAreGood, SignedAreGood, Unrevoked, Shows,
                      RowsGrow, Acting, PastNonce
  <2> QED
    BY <1>2, <1>4, <2>1, <2>2, GoesKeepsRevocation
<1>5. CASE ClaimNonce(r)
  <2>1. CASE Goes(r, "authorize")
    BY <1>4, <1>5, <2>1 DEF ClaimNonce, At, PastNonce
  <2>2. CASE Goes(r, "refused")
    <3>1. RowsGrow
      BY <1>1, <1>5, RowsLeft DEF ClaimNonce
    <3> QED
      BY <1>2, <2>2, <3>1, EndShows, GoesKeepsRevocation
  <2> QED
    BY <1>5, <2>1, <2>2 DEF ClaimNonce
<1>6. ASSUME NEW inLegacy, NEW inKernel, Store(r, inLegacy, inKernel), requests[r].phase \in PastNonce
      PROVE  RevocationInv'
  BY <1>3, <1>4, <1>6 DEF Store, PastNonce
<1>7. CASE Authorize(r)
  BY <1>3, <1>4, <1>7 DEF Authorize, At, PastNonce, stores
<1>8. CASE Write(r)
  <2>1. \/ \E inLegacy, inKernel \in BOOLEAN : Store(r, inLegacy, inKernel)
        \/ Refuse(r)
        \/ \E phase \in {"verify", "commit"} : Goes(r, phase) /\ UNCHANGED stores
    BY <1>8 DEF Write
  <2>2. requests[r].phase \in PastNonce
    BY <1>8 DEF Write, At, PastNonce
  <2> QED
    BY <1>3, <1>4, <1>6, <2>1, <2>2 DEF stores, PastNonce
<1>9. CASE VerifyEvents(r)
  BY <1>3, <1>4, <1>9 DEF VerifyEvents, VerifiedAs, At, PastNonce, stores
<1>10. CASE CommitDual(r)
  BY <1>3, <1>6, <1>10 DEF CommitDual, At, PastNonce
<1> QED
  BY <1>5, <1>7, <1>8, <1>9, <1>10

\* Reads show nothing.
LEMMA ReadsKeepRevocation ==
    ASSUME RevocationInv, NEW r \in DOMAIN requests, Read(r) \/ Shadow(r)
    PROVE  RevocationInv'
<1>1. SignatureInv /\ RowsAreFormed /\ Formed(requests[r])
  BY DEF RevocationInv, SignatureInv, RequestsAreFormed
<1>2. SignatureInv'
  BY <1>1, ReadsKeep
<1>3. CASE Refuse(r)
  BY <1>3, RefuseKeepsRevocation
<1>4. CASE Read(r) /\ ~Refuse(r)
  <2>1. PICK phase \in {"shadow", "answered"}, holds \in {Seen(kernel), Seen(legacy)} :
          requests' = [requests EXCEPT ![r].phase = phase, ![r].holds = holds]
    BY <1>4 DEF Read
  <2>2. UNCHANGED stores
    BY <1>4 DEF Read
  <2>3. RowsGrow
    BY <1>1, <2>2, RowsLeft DEF stores
  <2>4. Steps(r, phase) /\ Marks(r, requests[r].actor, requests[r].revoked)
    BY <1>1, <2>1, HoldsSteps
  <2> QED
    BY <1>2, <2>3, <2>4, EndShows, ShownKeeps
<1>5. CASE Shadow(r)
  <2>1. RowsGrow /\ Goes(r, "answered")
    BY <1>1, <1>5, RowsLeft DEF Shadow, stores
  <2> QED
    BY <1>2, <2>1, EndShows, GoesKeepsRevocation
<1> QED
  BY <1>3, <1>4, <1>5
\* Codes, tokens and keys: who approves, creates, revokes or registers is authenticated, and new
\* rows were nobody's.
LEMMA CredentialsKeepRevocation ==
    ASSUME RevocationInv, NEW r \in DOMAIN requests,
           \/ StartDevice(r) \/ ReadApproval(r) \/ StoreApproval(r) \/ ReadExchange(r)
           \/ IssueForCode(r) \/ ForgetCode(r) \/ CreateToken(r) \/ RevokeToken(r)
           \/ RefuseUnknown(r) \/ ReadKeys(r) \/ RegisterKey(r)
    PROVE  RevocationInv'
<1>1. SignatureInv /\ RowsAreFormed /\ Formed(requests[r])
  BY DEF RevocationInv, SignatureInv, RequestsAreFormed
<1>2. SignatureInv' /\ ~Verifies(r)
  BY <1>1, CredentialsKeep, CredentialsAreBare
<1>3. CASE Refuse(r)
  BY <1>3, RefuseKeepsRevocation
<1>4. ASSUME NEW phase \in {"stored", "approve", "register"}, RowsGrow,
             \/ Goes(r, phase)
             \/ \E actor : GoesAs(r, phase, actor)
             \/ \E holds : requests' = [requests EXCEPT ![r].phase = phase, ![r].holds = holds],
             CallOf(r).route \in OpenRoutes \/ Unrevoked(r, CallOf(r).credential)
      PROVE  RevocationInv'
  <2>1. PICK actor : Steps(r, phase) /\ Marks(r, actor, requests[r].revoked)
    BY <1>1, <1>4, GoesSteps, GoesAsSteps, HoldsSteps
  <2>2. Shows(r, phase, actor, requests[r].revoked)
    BY <1>2, <1>4 DEF RevocationInv, RevokedStay, Unrevoked, Shows, RowsGrow, PastNonce
  <2> QED
    BY <1>2, <1>4, <2>1, <2>2, ShownKeeps
<1>5. At(r, "handle") /\ ActorOf(r) # None => Unrevoked(r, CallOf(r).credential)
  BY ActorIsUnrevoked
<1>6. ASSUME NEW actor, NEW token, NEW reads, NEW next, Issue(r, actor, token, reads, next), token \in Tokens
      PROVE  RowsGrow
  BY <1>1, <1>6 DEF Issue, RowsGrow, RowsAreFormed, Revoked
<1>7. CASE StartDevice(r)
  <2>1. RowsGrow
    BY <1>1, <1>7, RowsLeft DEF StartDevice
  <2> QED
    BY <1>4, <1>7, <2>1 DEF StartDevice, OpenRoutes
<1>8. CASE ReadApproval(r)
  <2>1. UNCHANGED stores /\ ~Refuse(r) => RowsGrow
    BY <1>1, RowsLeft DEF stores
  <2> QED
    BY <1>3, <1>4, <1>5, <1>8, <2>1 DEF ReadApproval
<1>9. CASE StoreApproval(r)
  <2>1. RowsGrow
    BY <1>1, <1>9, RowsLeft DEF StoreApproval
  <2>2. CallOf(r).route \in OpenRoutes \/ Unrevoked(r, CallOf(r).credential)
    BY <1>9 DEF StoreApproval, At, RevocationInv, ActingAreGood, Acting
  <2> QED
    BY <1>4, <1>9, <2>1, <2>2 DEF StoreApproval
<1>10. CASE ReadExchange(r)
  <2>1. RowsGrow
    BY <1>1, <1>10, RowsLeft DEF ReadExchange, stores
  <2>2. CASE Goes(r, "refused")
    BY <1>2, <2>1, <2>2, EndShows, GoesKeepsRevocation
  <2>3. CASE \E actor : GoesAs(r, "issue", actor)
    <3>1. PICK actor : GoesAs(r, "issue", actor)
      BY <2>3
    <3>2. Shows(r, "issue", actor, requests[r].revoked)
      BY <1>10, <2>1 DEF ReadExchange, RevocationInv, RevokedStay, RowsGrow, Shows, Acting, PastNonce
    <3> QED
      BY <1>2, <2>1, <3>1, <3>2, GoesKeepsRevocation
  <2> QED
    BY <1>10, <2>2, <2>3 DEF ReadExchange
<1>11. CASE IssueForCode(r)
  <2>1. PICK token \in Tokens : Issue(r, requests[r].actor, token, TRUE, "forget")
    BY <1>11 DEF IssueForCode
  <2>2. Steps(r, "forget") /\ Marks(r, requests[r].actor, requests[r].revoked)
    BY <1>1, <2>1, HoldsSteps DEF Issue
  <2>3. RowsGrow
    BY <1>6, <2>1
  <2>4. Shows(r, "forget", requests[r].actor, requests[r].revoked)
    BY <1>11, <2>3 DEF IssueForCode, At, RevocationInv, RevokedStay, ExchangesAreOpen, RowsGrow, Shows,
                       Acting, PastNonce
  <2> QED
    BY <1>2, <2>2, <2>3, <2>4, ShownKeeps
<1>12. CASE ForgetCode(r)
  <2>1. RowsGrow
    BY <1>1, <1>12, RowsLeft DEF ForgetCode
  <2>2. CallOf(r).route \in OpenRoutes
    BY <1>12 DEF ForgetCode, At, RevocationInv, ExchangesAreOpen, OpenRoutes
  <2> QED
    BY <1>4, <1>12, <2>1, <2>2 DEF ForgetCode
<1>13. CASE CreateToken(r)
  <2>1. PICK token \in Tokens, reads \in BOOLEAN : Issue(r, ActorOf(r), token, reads, "stored")
    BY <1>13 DEF CreateToken
  <2>2. RowsGrow
    BY <1>6, <2>1
  <2>3. Unrevoked(r, CallOf(r).credential)
    BY <1>5, <1>13 DEF CreateToken
  <2> QED
    BY <1>4, <2>1, <2>2, <2>3 DEF Issue
<1>14. CASE RevokeToken(r) /\ ~Refuse(r)
  <2>1. RowsGrow
    BY <1>1, <1>14 DEF RevokeToken, RowsGrow, RowsAreFormed, Revoked
  <2> QED
    BY <1>4, <1>5, <1>14, <2>1 DEF RevokeToken
<1>15. CASE RefuseUnknown(r)
  BY <1>3, <1>15 DEF RefuseUnknown
<1>16. CASE ReadKeys(r) /\ ~Refuse(r)
  <2>1. RowsGrow
    BY <1>1, <1>16, RowsLeft DEF ReadKeys, stores
  <2> QED
    BY <1>4, <1>5, <1>16, <2>1 DEF ReadKeys
<1>17. CASE RegisterKey(r) /\ ~Refuse(r)
  <2>1. RowsGrow
    BY <1>1, <1>17 DEF RegisterKey, RowsGrow, RowsAreFormed, Revoked
  <2>2. CallOf(r).route \in OpenRoutes \/ Unrevoked(r, CallOf(r).credential)
    BY <1>17 DEF RegisterKey, At, RevocationInv, ActingAreGood, Acting
  <2> QED
    BY <1>4, <1>17, <2>1, <2>2 DEF RegisterKey
<1> QED
  BY <1>3, <1>7, <1>8, <1>9, <1>10, <1>11, <1>12, <1>13, <1>14, <1>15, <1>16, <1>17

\* At the start no request was received and nobody's rows are not revoked.
LEMMA InitRevocation ==
    ASSUME Init
    PROVE  RevocationInv
<1>1. PICK script \in Scripts :
        requests = [r \in DOMAIN script |->
            [call |-> script[r], phase |-> "unsent", deployment |-> 1, actor |-> None,
             revoked |-> {}, windows |-> {}, holds |-> {}]]
  BY DEF Init
<1>2. \A r \in DOMAIN requests :
        /\ requests[r].phase = "unsent"
        /\ requests[r].revoked = {}
        /\ CallOf(r) = script[r]
  BY <1>1 DEF CallOf
<1>3. \A r \in DOMAIN requests : CallOf(r) \in Call
  BY <1>1, <1>2, ScriptsAssumption
<1>4. CredentialsAreNoKeys
  BY <1>3, KeysAssumption DEF CredentialsAreNoKeys, Call
<1>5. RowsAreFormed
  BY InitialRowsAssumption DEF Init, RowsAreFormed, Token, Key
<1>6. SignatureInv
  BY InitSignature
<1> QED
  BY <1>2, <1>4, <1>5, <1>6 DEF RevocationInv, RevokedStay, LimitedAreGood, ActingAreGood,
     ExchangesAreOpen, SignedAreGood, Unrevoked, Acting, PastNonce

\* Every step keeps the invariant; a key that somebody revokes is one that somebody has.
LEMMA NextRevocation ==
    ASSUME RevocationInv, [Next]_vars
    PROVE  RevocationInv'
<1>1. SignatureInv /\ RowsAreFormed
  BY DEF RevocationInv
<1>2. SignatureInv'
  BY <1>1, NextSignature
<1>3. ASSUME UNCHANGED requests, RowsGrow
      PROVE  RevocationInv'
  <2>1. \A r \in DOMAIN requests : CallOf(r)' = CallOf(r) /\ (Verifies(r)' <=> Verifies(r))
    BY <1>3 DEF CallOf, Verifies
  <2> QED
    BY <1>2, <1>3, <2>1 DEF RevocationInv, RowsGrow, CredentialsAreNoKeys, RevokedStay, LimitedAreGood,
       ActingAreGood, ExchangesAreOpen, SignedAreGood, Unrevoked
<1>4. ASSUME NEW r \in DOMAIN requests, Serve(r)
      PROVE  RevocationInv'
  BY <1>4, LimiterKeepsRevocation, ChecksKeepRevocation, WritesKeepRevocation, ReadsKeepRevocation,
     CredentialsKeepRevocation DEF Serve
<1>5. ASSUME NEW key \in Keys, RevokeKey(key)
      PROVE  RevocationInv'
  <2>1. RowsGrow
    BY <1>1, <1>5 DEF RevokeKey, RowsGrow, RowsAreFormed, Revoked
  <2> QED
    BY <1>3, <1>5, <2>1 DEF RevokeKey
<1>6. CASE Redeploy \/ Tick \/ UNCHANGED vars
  BY <1>1, <1>3, <1>6, RowsLeft DEF Redeploy, Tick, vars, stores
<1> QED
  BY <1>4, <1>5, <1>6 DEF Next

\* A request that goes on as an authenticated one carries no token, and no signature that is verified by a
\* key, that was revoked when it was received.
THEOREM RevocationsAreKept == Spec => []RevocationInv
<1>1. Init => RevocationInv
  BY InitRevocation
<1>2. RevocationInv /\ [Next]_vars => RevocationInv'
  BY NextRevocation
<1> QED
  BY <1>1, <1>2, PTL DEF Spec

\* However long a request waits between its awaits, it stores nothing with a token that was revoked before
\* it was received, nor, on a route that verifies its signature, with a signing key that was.
THEOREM NothingRevokedIsStored == Spec => []NothingFromTheRevoked
<1>1. RevocationInv => NothingFromTheRevoked
  BY DEF RevocationInv, ActingAreGood, SignedAreGood, Unrevoked, Verifies, Acting, PastNonce, OpenRoutes,
         NothingFromTheRevoked, Stored
<1> QED
  BY <1>1, RevocationsAreKept, PTL

----------------------------------------------------------------------------
(***************************************************************************)
(* Projections: what a mirrored write stores, it stores where its          *)
(* deployment says.  The requests for codes and credentials, which store   *)
(* something else, are not on a mirrored surface.                          *)
(***************************************************************************)

CustodyIsElsewhere ==
    \A r \in DOMAIN requests : requests[r].phase \in Custody => CallOf(r).route \notin Surfaces

ProjectionInv == RequestsAreFormed /\ CustodyIsElsewhere

\* Where the row of a mirrored request is put, if the step stores it.
PutTogether(r) ==
    \/ CallOf(r).about \in legacy' /\ CallOf(r).about \in kernel'
    \/ Config(r).write = "legacy" /\ kernel' = kernel

\* Request r goes to a phase that is right for its route, and puts its row where it belongs.
Lands(r, phase) ==
    /\ Steps(r, phase)
    /\ CallOf(r).route \in Surfaces => phase \notin Custody
    /\ CallOf(r).route \in Surfaces /\ phase = "stored" => PutTogether(r)

\* A request that lands keeps the invariant and moves the projections together.
LEMMA LandingKeeps ==
    ASSUME ProjectionInv, NEW r \in DOMAIN requests, NEW phase, Lands(r, phase)
    PROVE  /\ ProjectionInv'
           /\ \A s \in DOMAIN requests :
                 ~Stored(s) /\ Stored(s)' /\ CallOf(s).route \in Surfaces => PutTogether(s)
<1>1. \A s \in DOMAIN requests : CallOf(s)' = CallOf(s)
  BY DEF Lands, Steps, CallOf
<1>2. ProjectionInv'
  BY <1>1 DEF ProjectionInv, RequestsAreFormed, CustodyIsElsewhere, Lands, Steps
<1> QED
  BY <1>2 DEF Lands, Steps, Stored

\* The limiter, the checks before the nonce store and the reads store nothing.
LEMMA LimiterLands ==
    ASSUME ProjectionInv, NEW r \in DOMAIN requests,
           \/ Receive(r) \/ LimitActor(r) \/ LimitToken(r)
           \/ HandleWrite(r) \/ VerifySignature(r) \/ ClaimNonce(r) \/ Authorize(r) \/ VerifyEvents(r)
           \/ Read(r) \/ Shadow(r) \/ RefuseUnknown(r)
    PROVE  \E phase : Lands(r, phase)
<1>1. Formed(requests[r])
  BY DEF ProjectionInv, RequestsAreFormed
<1>2. ASSUME NEW phase, Steps(r, phase), phase \notin Custody \cup {"stored"}
      PROVE  Lands(r, phase)
  BY <1>2 DEF Lands
<1>3. ASSUME NEW phase, Goes(r, phase), phase \notin Custody \cup {"stored"}
      PROVE  Lands(r, phase)
  BY <1>1, <1>2, <1>3, GoesSteps
<1>4. ASSUME Refuse(r)
      PROVE  Lands(r, "refused")
  BY <1>3, <1>4 DEF Refuse, Custody
<1>5. CASE Receive(r)
  <2>1. \E phase \in {"handle", "actorBucket"} : Steps(r, phase)
    BY <1>1, <1>5, ReceiveSteps
  <2> QED
    BY <1>2, <2>1 DEF Custody
<1>6. CASE LimitActor(r)
  <2>1. \E phase \in {"handle", "tokenBucket", "refused"} : Steps(r, phase)
    BY <1>1, <1>6, ConsumeSteps DEF LimitActor
  <2> QED
    BY <1>2, <2>1 DEF Custody
<1>7. CASE LimitToken(r)
  <2>1. \E phase \in {"handle", "refused"} : Steps(r, phase)
    BY <1>1, <1>7, ConsumeSteps DEF LimitToken
  <2> QED
    BY <1>2, <2>1 DEF Custody
<1>8. CASE HandleWrite(r)
  <2>1. \/ Refuse(r)
        \/ \E phase \in {"signature", "authorize"} : GoesAs(r, phase, ActorOf(r))
    BY <1>8 DEF HandleWrite
  <2>2. ASSUME NEW phase \in {"signature", "authorize"}, GoesAs(r, phase, ActorOf(r))
        PROVE  Lands(r, phase)
    BY <1>1, <1>2, <2>2, GoesAsSteps DEF Custody
  <2> QED
    BY <1>4, <2>1, <2>2
<1>9. CASE VerifySignature(r) \/ VerifyEvents(r) \/ ClaimNonce(r) \/ Authorize(r) \/ Shadow(r)
  <2>1. \E phase \in {"nonce", "commit", "authorize", "refused", "write", "answered"} : Goes(r, phase)
    BY <1>9 DEF VerifySignature, VerifyEvents, VerifiedAs, ClaimNonce, Authorize, Shadow, Refuse
  <2> QED
    BY <1>3, <2>1 DEF Custody
<1>10. CASE Read(r)
  <2>1. \/ Refuse(r)
        \/ \E phase \in {"shadow", "answered"}, holds \in {Seen(kernel), Seen(legacy)} :
              requests' = [requests EXCEPT ![r].phase = phase, ![r].holds = holds]
    BY <1>10 DEF Read
  <2>2. ASSUME NEW phase \in {"shadow", "answered"}, NEW holds,
               requests' = [requests EXCEPT ![r].phase = phase, ![r].holds = holds]
        PROVE  Lands(r, phase)
    BY <1>1, <1>2, <2>2, HoldsSteps DEF Custody
  <2> QED
    BY <1>4, <2>1, <2>2
<1>11. CASE RefuseUnknown(r)
  BY <1>4, <1>11 DEF RefuseUnknown
<1> QED
  BY <1>5, <1>6, <1>7, <1>8, <1>9, <1>10, <1>11

\* A mirrored write is stored in the legacy tables alone if its deployment writes these alone, and
\* in both projections otherwise.
LEMMA WritesLand ==
    ASSUME ProjectionInv, NEW r \in DOMAIN requests, Write(r) \/ CommitDual(r)
    PROVE  \E phase : Lands(r, phase)
<1>1. Formed(requests[r])
  BY DEF ProjectionInv, RequestsAreFormed
<1>2. ASSUME Refuse(r)
      PROVE  Lands(r, "refused")
  BY <1>1, <1>2, GoesSteps DEF Refuse, Lands, Custody
<1>3. ASSUME NEW inLegacy \in BOOLEAN, NEW inKernel \in BOOLEAN, Store(r, inLegacy, inKernel),
             CallOf(r).route \in Surfaces => inLegacy /\ (inKernel \/ Config(r).write = "legacy")
      PROVE  \E phase : Lands(r, phase)
  <2>1. CASE Refuse(r)
    BY <1>2, <2>1
  <2>2. CASE ~Refuse(r)
    <3>1. /\ Goes(r, "stored")
          /\ legacy' = IF inLegacy THEN legacy \cup {CallOf(r).about} ELSE legacy
          /\ kernel' = IF inKernel THEN kernel \cup {CallOf(r).about} ELSE kernel
      BY <1>3, <2>2 DEF Store
    <3>2. Steps(r, "stored")
      BY <1>1, <3>1, GoesSteps
    <3>3. CallOf(r).route \in Surfaces => PutTogether(r)
      BY <1>3, <3>1 DEF PutTogether
    <3> QED
      BY <3>2, <3>3 DEF Lands, Custody
  <2> QED
    BY <2>1, <2>2
<1>4. CASE Write(r)
  <2>1. CASE CallOf(r).route \in TypedRoutes \cup DirectRoutes
    <3>1. CallOf(r).route \notin Surfaces
      BY <2>1 DEF TypedRoutes, DirectRoutes, Surfaces
    <3>2. Store(r, FALSE, TRUE) \/ Store(r, TRUE, FALSE)
      BY <1>4, <2>1 DEF Write
    <3> QED
      BY <1>3, <3>1, <3>2
  <2>2. CASE CallOf(r).route \notin TypedRoutes \cup DirectRoutes /\ Config(r).write = "legacy"
    BY <1>3, <1>4, <2>2 DEF Write
  <2>3. CASE CallOf(r).route \notin TypedRoutes \cup DirectRoutes /\ Config(r).write # "legacy"
    <3>1. Refuse(r) \/ \E phase \in {"verify", "commit"} : Goes(r, phase)
      BY <1>4, <2>3 DEF Write
    <3>2. ASSUME NEW phase \in {"verify", "commit"}, Goes(r, phase)
          PROVE  Lands(r, phase)
      BY <1>1, <3>2, GoesSteps DEF Lands, Custody
    <3> QED
      BY <1>2, <3>1, <3>2
  <2> QED
    BY <2>1, <2>2, <2>3
<1>5. CASE CommitDual(r)
  BY <1>2, <1>3, <1>5 DEF CommitDual
<1> QED
  BY <1>4, <1>5

\* The requests for codes and credentials are not on a mirrored surface.
LEMMA CustodyLands ==
    ASSUME ProjectionInv, NEW r \in DOMAIN requests,
           \/ StartDevice(r) \/ ReadApproval(r) \/ StoreApproval(r)
           \/ ReadExchange(r) \/ IssueForCode(r) \/ ForgetCode(r)
           \/ CreateToken(r) \/ RevokeToken(r) \/ ReadKeys(r) \/ RegisterKey(r)
    PROVE  \E phase : Lands(r, phase)
<1>1. Formed(requests[r])
  BY DEF ProjectionInv, RequestsAreFormed
<1>2. CallOf(r).route \notin Surfaces
  <2>1. CASE requests[r].phase \in Custody
    BY <2>1 DEF ProjectionInv, CustodyIsElsewhere
  <2>2. CASE requests[r].phase \notin Custody
    <3>1. CallOf(r).route \in CodeRoutes \cup CredentialRoutes
      BY <2>2 DEF StartDevice, ReadApproval, StoreApproval, ReadExchange, IssueForCode, ForgetCode,
         CreateToken, RevokeToken, ReadKeys, RegisterKey, At, Custody, CodeRoutes, CredentialRoutes
    <3> QED
      BY <3>1 DEF CodeRoutes, CredentialRoutes, Surfaces
  <2> QED
    BY <2>1, <2>2
<1>3. \/ \E phase : Goes(r, phase)
      \/ \E phase, actor : GoesAs(r, phase, actor)
      \/ \E phase, holds : requests' = [requests EXCEPT ![r].phase = phase, ![r].holds = holds]
  BY DEF StartDevice, ReadApproval, StoreApproval, ReadExchange, IssueForCode, ForgetCode,
         CreateToken, RevokeToken, ReadKeys, RegisterKey, Refuse, Issue
<1>4. \E phase : Steps(r, phase)
  BY <1>1, <1>3, GoesSteps, GoesAsSteps, HoldsSteps
<1> QED
  BY <1>2, <1>4 DEF Lands

\* Every step keeps the invariant and moves the projections together.
LEMMA NextMovesTogether ==
    ASSUME ProjectionInv, [Next]_vars
    PROVE  /\ ProjectionInv'
           /\ \A r \in DOMAIN requests :
                 ~Stored(r) /\ Stored(r)' /\ CallOf(r).route \in Surfaces => PutTogether(r)
<1>1. ASSUME NEW r \in DOMAIN requests, Serve(r)
      PROVE  \E phase : Lands(r, phase)
  BY <1>1, LimiterLands, WritesLand, CustodyLands DEF Serve
<1>2. CASE UNCHANGED requests
  <2>1. \A r \in DOMAIN requests : CallOf(r)' = CallOf(r) /\ Stored(r)' = Stored(r)
    BY <1>2 DEF CallOf, Stored
  <2> QED
    BY <1>2, <2>1 DEF ProjectionInv, RequestsAreFormed, CustodyIsElsewhere
<1>3. (\E key \in Keys : RevokeKey(key)) \/ Redeploy \/ Tick \/ UNCHANGED vars => UNCHANGED requests
  BY DEF RevokeKey, Redeploy, Tick, vars
<1> QED
  BY <1>1, <1>2, <1>3, LandingKeeps DEF Next

\* At the start nobody asks for custody.
LEMMA InitProjection ==
    ASSUME Init
    PROVE  ProjectionInv
BY DEF Init, ProjectionInv, RequestsAreFormed, Formed, CustodyIsElsewhere, Custody

\* A row of a mirrored kind enters the kernel only together with its legacy row, and enters the
\* legacy tables alone only under a deployment that writes these alone.
THEOREM ProjectionsAreMovedTogether == Spec => ProjectionsMoveTogether
<1>1. Init => ProjectionInv
  BY InitProjection
<1>2. ProjectionInv /\ [Next]_vars =>
        /\ ProjectionInv'
        /\ [\A r \in DOMAIN requests :
               ~Stored(r) /\ Stored(r)' /\ CallOf(r).route \in Surfaces =>
                   \/ CallOf(r).about \in legacy' /\ CallOf(r).about \in kernel'
                   \/ Config(r).write = "legacy" /\ kernel' = kernel]_vars
  BY NextMovesTogether DEF PutTogether
<1> QED
  BY <1>1, <1>2, PTL DEF Spec, ProjectionsMoveTogether

----------------------------------------------------------------------------
(***************************************************************************)
(* Who is who: a bucket is entered by an actor or a token that exists.     *)
(***************************************************************************)

Someone == Actors \cup {None}
Limiting == {"actorBucket", "tokenBucket"}

RosterIsKnown ==
    /\ DOMAIN tokens = Tokens /\ DOMAIN codes = Codes
    /\ \A t \in Tokens : "owner" \in DOMAIN tokens[t] /\ tokens[t].owner \in Someone
    /\ \A c \in Codes : {"status", "actor"} \subseteq DOMAIN codes[c] /\ codes[c].actor \in Someone
CallersAreKnown ==
    \A r \in DOMAIN requests :
        /\ CallOf(r).credential \in Actors \cup Tokens \cup {None}
        /\ CallOf(r).route \in CodeRoutes => CallOf(r).about \in Codes
        /\ requests[r].actor \in Someone
EntrantsAreKnown ==
    \A r \in DOMAIN requests :
        /\ requests[r].phase = "actorBucket" => requests[r].actor \in Actors
        /\ requests[r].phase = "tokenBucket" => CallOf(r).credential \in Tokens

RosterInv ==
    /\ RequestsAreFormed
    /\ RosterIsKnown
    /\ CallersAreKnown
    /\ EntrantsAreKnown

\* Whoever a credential identifies is an actor.
LEMMA IdentifiedAreKnown ==
    ASSUME RosterInv, NEW r \in DOMAIN requests
    PROVE  Identify(CallOf(r).credential) \in Someone /\ ActorOf(r) \in Someone
BY DEF RosterInv, RosterIsKnown, CallersAreKnown, Identify, ActorOf, Someone

\* A step of request r that passes no bucket.
Quiet(r) ==
    /\ DOMAIN requests' = DOMAIN requests
    /\ \A s \in DOMAIN requests : s # r => requests'[s] = requests[s]
    /\ Formed(requests'[r])
    /\ requests'[r].call = requests[r].call
    /\ requests'[r].windows = requests[r].windows
    /\ requests'[r].phase \notin Limiting
    /\ requests'[r].actor \in Someone
    /\ buckets' = buckets
    /\ RosterIsKnown'

\* A request that changes its phase alone is quiet.
LEMMA GoesQuietly ==
    ASSUME RosterInv, NEW r \in DOMAIN requests, NEW phase, phase \notin Limiting, Goes(r, phase),
           buckets' = buckets, RosterIsKnown'
    PROVE  Quiet(r)
BY DEF RosterInv, RequestsAreFormed, CallersAreKnown, Formed, Goes, Quiet

\* So is one that learns who makes it.
LEMMA GoesAsQuietly ==
    ASSUME RosterInv, NEW r \in DOMAIN requests, NEW phase, phase \notin Limiting,
           NEW actor \in Someone, GoesAs(r, phase, actor),
           buckets' = buckets, RosterIsKnown'
    PROVE  Quiet(r)
BY DEF RosterInv, RequestsAreFormed, Formed, GoesAs, Quiet

\* So is one that takes what it holds.
LEMMA HoldsQuietly ==
    ASSUME RosterInv, NEW r \in DOMAIN requests, NEW phase, phase \notin Limiting, NEW holds,
           requests' = [requests EXCEPT ![r].phase = phase, ![r].holds = holds],
           buckets' = buckets, RosterIsKnown'
    PROVE  Quiet(r)
BY DEF RosterInv, RequestsAreFormed, CallersAreKnown, Formed, Quiet

\* Rows that are left alone are known.
LEMMA RosterLeft ==
    ASSUME RosterInv, UNCHANGED <<tokens, codes>>
    PROVE  RosterIsKnown'
BY DEF RosterInv, RosterIsKnown

\* A refusal is quiet.
LEMMA RefuseQuietly ==
    ASSUME RosterInv, NEW r \in DOMAIN requests, Refuse(r)
    PROVE  Quiet(r)
BY GoesQuietly, RosterLeft DEF Refuse, stores, Limiting

\* So is a step to a phase behind the limiter that leaves the stores alone.
LEMMA GoesOnQuietly ==
    ASSUME RosterInv, NEW r \in DOMAIN requests, NEW phase, phase \notin Limiting, Goes(r, phase),
           UNCHANGED stores
    PROVE  Quiet(r)
BY GoesQuietly, RosterLeft DEF stores

\* So is a step of that kind that learns who makes the request.
LEMMA GoesOnAsQuietly ==
    ASSUME RosterInv, NEW r \in DOMAIN requests, NEW phase, phase \notin Limiting,
           NEW actor \in Someone, GoesAs(r, phase, actor), UNCHANGED stores
    PROVE  Quiet(r)
BY GoesAsQuietly, RosterLeft DEF stores

\* A transaction is quiet.
LEMMA StoreQuietly ==
    ASSUME RosterInv, NEW r \in DOMAIN requests, NEW inLegacy, NEW inKernel, Store(r, inLegacy, inKernel)
    PROVE  Quiet(r)
<1>1. CASE Refuse(r)
  BY <1>1, RefuseQuietly
<1>2. CASE Goes(r, "stored") /\ UNCHANGED <<tokens, buckets, codes>>
  BY <1>2, GoesQuietly, RosterLeft DEF Limiting
<1> QED
  BY <1>1, <1>2 DEF Store

\* The handling of a write is quiet.
LEMMA WritesAreQuiet ==
    ASSUME RosterInv, NEW r \in DOMAIN requests,
           \/ HandleWrite(r) \/ VerifySignature(r) \/ ClaimNonce(r) \/ Authorize(r)
           \/ Write(r) \/ VerifyEvents(r) \/ CommitDual(r)
    PROVE  Quiet(r)
<1>1. CASE HandleWrite(r)
  <2>1. \/ Refuse(r)
        \/ \E phase \in {"signature", "authorize"} : GoesAs(r, phase, ActorOf(r)) /\ UNCHANGED stores
    BY <1>1 DEF HandleWrite
  <2> QED
    BY <2>1, RefuseQuietly, GoesOnAsQuietly, IdentifiedAreKnown DEF Limiting
<1>2. CASE VerifySignature(r) \/ VerifyEvents(r)
  BY <1>2, RefuseQuietly, GoesOnQuietly DEF VerifySignature, VerifyEvents, VerifiedAs, Limiting
<1>3. CASE ClaimNonce(r)
  <2>1. \E phase \in {"authorize", "refused"} : Goes(r, phase)
    BY <1>3 DEF ClaimNonce
  <2>2. UNCHANGED <<tokens, buckets, codes>>
    BY <1>3 DEF ClaimNonce
  <2> QED
    BY <2>1, <2>2, GoesQuietly, RosterLeft DEF Limiting
<1>4. CASE Authorize(r)
  BY <1>4, RefuseQuietly, GoesOnQuietly DEF Authorize, Limiting
<1>5. CASE Write(r)
  <2>1. \/ \E inLegacy, inKernel \in BOOLEAN : Store(r, inLegacy, inKernel)
        \/ Refuse(r)
        \/ \E phase \in {"verify", "commit"} : Goes(r, phase) /\ UNCHANGED stores
    BY <1>5 DEF Write
  <2> QED
    BY <2>1, StoreQuietly, RefuseQuietly, GoesOnQuietly DEF Limiting
<1>6. CASE CommitDual(r)
  BY <1>6, StoreQuietly, RefuseQuietly DEF CommitDual
<1> QED
  BY <1>1, <1>2, <1>3, <1>4, <1>5, <1>6

\* So are the reads and the device codes; an exchange learns the actor that the code carries.
LEMMA CodesAreQuiet ==
    ASSUME RosterInv, NEW r \in DOMAIN requests,
           \/ Read(r) \/ Shadow(r) \/ StartDevice(r) \/ ReadApproval(r) \/ StoreApproval(r)
           \/ ReadExchange(r) \/ ForgetCode(r)
    PROVE  Quiet(r)
<1>1. CASE Read(r)
  <2>1. \/ Refuse(r)
        \/ \E phase \in {"shadow", "answered"}, holds \in {Seen(kernel), Seen(legacy)} :
              /\ requests' = [requests EXCEPT ![r].phase = phase, ![r].holds = holds]
              /\ UNCHANGED stores
    BY <1>1 DEF Read
  <2> QED
    BY <2>1, RefuseQuietly, HoldsQuietly, RosterLeft DEF Limiting, stores
<1>2. CASE Shadow(r)
  BY <1>2, GoesOnQuietly DEF Shadow, Limiting
<1>3. CASE StartDevice(r)
  <2>1. RosterIsKnown'
    BY <1>3 DEF StartDevice, RosterInv, RosterIsKnown, NoCode, Someone
  <2> QED
    BY <1>3, <2>1, GoesQuietly DEF StartDevice, Limiting
<1>4. CASE ReadApproval(r)
  BY <1>4, RefuseQuietly, GoesOnAsQuietly, IdentifiedAreKnown DEF ReadApproval, Limiting
<1>5. CASE StoreApproval(r)
  <2>1. RosterIsKnown'
    BY <1>5 DEF StoreApproval, RosterInv, RosterIsKnown, CallersAreKnown
  <2> QED
    BY <1>5, <2>1, GoesQuietly DEF StoreApproval, Limiting
<1>6. CASE ReadExchange(r)
  <2>1. CallOf(r).about \in Codes
    BY <1>6 DEF ReadExchange, RosterInv, CallersAreKnown, CodeRoutes
  <2>2. CASE GoesAs(r, "issue", codes[CallOf(r).about].actor) /\ UNCHANGED stores
    BY <2>1, <2>2, GoesOnAsQuietly DEF RosterInv, RosterIsKnown, Limiting
  <2>3. CASE /\ Goes(r, "refused") /\ UNCHANGED <<tokens, buckets>>
             /\ codes' \in {codes, [codes EXCEPT ![CallOf(r).about] = NoCode]}
    <3>1. RosterIsKnown'
      BY <2>3 DEF RosterInv, RosterIsKnown, NoCode, Someone
    <3> QED
      BY <2>3, <3>1, GoesQuietly DEF Limiting
  <2> QED
    BY <1>6, <2>2, <2>3 DEF ReadExchange
<1>7. CASE ForgetCode(r)
  <2>1. RosterIsKnown'
    BY <1>7 DEF ForgetCode, RosterInv, RosterIsKnown, NoCode, Someone
  <2> QED
    BY <1>7, <2>1, GoesQuietly DEF ForgetCode, Limiting
<1> QED
  BY <1>1, <1>2, <1>3, <1>4, <1>5, <1>6, <1>7

\* So are the credentials' own requests; a token is issued to an actor.
LEMMA CredentialsAreQuiet ==
    ASSUME RosterInv, NEW r \in DOMAIN requests,
           \/ IssueForCode(r) \/ CreateToken(r) \/ RevokeToken(r) \/ RefuseUnknown(r)
           \/ ReadKeys(r) \/ RegisterKey(r)
    PROVE  Quiet(r)
<1>1. ASSUME NEW actor \in Someone, NEW token, NEW reads, NEW next \in {"forget", "stored"},
             Issue(r, actor, token, reads, next)
      PROVE  Quiet(r)
  <2>1. RosterIsKnown'
    BY <1>1 DEF Issue, RosterInv, RosterIsKnown, CallersAreKnown
  <2> QED
    BY <1>1, <2>1, HoldsQuietly DEF Issue, Limiting
<1>2. CASE RevokeToken(r)
  <2>1. CASE Refuse(r)
    BY <2>1, RefuseQuietly
  <2>2. CASE ~Refuse(r)
    <3>1. RosterIsKnown'
      BY <1>2, <2>2 DEF RevokeToken, RosterInv, RosterIsKnown
    <3> QED
      BY <1>2, <2>2, <3>1, GoesQuietly DEF RevokeToken, Limiting
  <2> QED
    BY <2>1, <2>2
<1>3. CASE RefuseUnknown(r)
  BY <1>3, RefuseQuietly DEF RefuseUnknown
<1>4. CASE ReadKeys(r)
  BY <1>4, RefuseQuietly, GoesOnAsQuietly, IdentifiedAreKnown DEF ReadKeys, Limiting
<1>5. CASE RegisterKey(r)
  <2>1. CASE Refuse(r)
    BY <2>1, RefuseQuietly
  <2>2. CASE ~Refuse(r)
    BY <1>5, <2>2, GoesQuietly, RosterLeft DEF RegisterKey, Limiting
  <2> QED
    BY <2>1, <2>2
<1> QED
  BY <1>1, <1>2, <1>3, <1>4, <1>5, IdentifiedAreKnown DEF IssueForCode, CreateToken, RosterInv, CallersAreKnown

----------------------------------------------------------------------------
(***************************************************************************)
(* Windows: those that a bucket admitted in its current window are at most *)
(* as many as it counts, and no window that admitted anybody ends later;   *)
(* so a window that is opened is empty.                                    *)
(***************************************************************************)

Buckets == Actors \cup Tokens
LimitOf(b) == IF b \in Tokens THEN TokenLimit ELSE Limit

\* The requests that bucket b admitted in the window that ends then.
Admitted(b, end) == {r \in DOMAIN requests : <<b, end>> \in requests[r].windows}

BucketsAreTyped ==
    /\ clock \in Nat
    /\ buckets \in [Buckets -> [count : Nat, resetAt : Nat]]
WindowsAreCurrent ==
    \A b \in Buckets : \A end \in Nat : \A r \in Admitted(b, end) : end <= buckets[b].resetAt
CountsAreHonest ==
    \A b \in Buckets : Cardinality(Admitted(b, buckets[b].resetAt)) <= buckets[b].count
NoneIsOverrun ==
    \A b \in Buckets : \A end \in Nat : Cardinality(Admitted(b, end)) <= LimitOf(b)

WindowInv ==
    /\ RosterInv
    /\ IsFiniteSet(DOMAIN requests)
    /\ BucketsAreTyped
    /\ WindowsAreCurrent
    /\ CountsAreHonest
    /\ NoneIsOverrun

\* A quiet step keeps the invariant.
LEMMA QuietKeeps ==
    ASSUME WindowInv, NEW r \in DOMAIN requests, Quiet(r), clock' = clock
    PROVE  WindowInv'
<1>1. \A s \in DOMAIN requests : CallOf(s)' = CallOf(s) /\ requests'[s].windows = requests[s].windows
  BY DEF Quiet, CallOf
<1>2. \A b, end : Admitted(b, end)' = Admitted(b, end)
  BY <1>1 DEF Quiet, Admitted
<1>3. RosterInv'
  <2>1. RequestsAreFormed'
    BY DEF WindowInv, RosterInv, RequestsAreFormed, Quiet
  <2>2. CallersAreKnown'
    BY <1>1 DEF WindowInv, RosterInv, CallersAreKnown, Quiet
  <2>3. EntrantsAreKnown'
    BY <1>1 DEF WindowInv, RosterInv, EntrantsAreKnown, Quiet, Limiting
  <2> QED
    BY <2>1, <2>2, <2>3 DEF RosterInv, Quiet
<1>4. UNCHANGED <<buckets, clock, DOMAIN requests>>
  BY DEF Quiet
<1>5. BucketsAreTyped'
  BY <1>4 DEF WindowInv, BucketsAreTyped
<1>6. WindowsAreCurrent' /\ CountsAreHonest' /\ NoneIsOverrun'
  BY <1>2, <1>4 DEF WindowInv, WindowsAreCurrent, CountsAreHonest, NoneIsOverrun
<1> QED
  BY <1>3, <1>4, <1>5, <1>6 DEF WindowInv

\* A request that is received enters a bucket only as the actor of its credential.
LEMMA ReceiveKeepsWindows ==
    ASSUME WindowInv, NEW r \in DOMAIN requests, Receive(r)
    PROVE  WindowInv'
<1>0. PICK actor \in {None, Identify(CallOf(r).credential)} :
        requests' = [requests EXCEPT
            ![r].phase = IF actor = None THEN "handle" ELSE "actorBucket",
            ![r].actor = actor, ![r].deployment = deployed, ![r].revoked = Revoked]
  BY DEF Receive
<1> DEFINE to == IF actor = None THEN "handle" ELSE "actorBucket"
<1>1. requests' = [requests EXCEPT ![r].phase = to, ![r].actor = actor,
                                   ![r].deployment = deployed, ![r].revoked = Revoked]
  BY <1>0
<1>2. actor \in Someone /\ (actor # None => to = "actorBucket") /\ (actor = None => to = "handle")
  BY IdentifiedAreKnown DEF WindowInv, Someone
<1>3. Formed(requests[r])
  BY DEF WindowInv, RosterInv, RequestsAreFormed
<1> HIDE DEF to
<1>4. /\ DOMAIN requests' = DOMAIN requests
      /\ \A s \in DOMAIN requests : s # r => requests'[s] = requests[s]
      /\ Formed(requests'[r])
      /\ requests'[r].call = requests[r].call
      /\ requests'[r].windows = requests[r].windows
      /\ requests'[r].phase = to
      /\ requests'[r].actor = actor
  BY <1>1, <1>3 DEF Formed
<1>5. \A s \in DOMAIN requests : CallOf(s)' = CallOf(s) /\ requests'[s].windows = requests[s].windows
  BY <1>4 DEF CallOf
<1>6. \A b, end : Admitted(b, end)' = Admitted(b, end)
  BY <1>4, <1>5 DEF Admitted
<1>7. UNCHANGED <<clock, tokens, codes, buckets>>
  BY DEF Receive, stores
<1>8. RosterInv'
  <2>1. RequestsAreFormed'
    BY <1>4 DEF WindowInv, RosterInv, RequestsAreFormed
  <2>2. CallersAreKnown'
    BY <1>2, <1>4, <1>5 DEF WindowInv, RosterInv, CallersAreKnown
  <2>3. EntrantsAreKnown'
    BY <1>2, <1>4, <1>5 DEF WindowInv, RosterInv, EntrantsAreKnown, Someone
  <2> QED
    BY <1>7, <2>1, <2>2, <2>3, RosterLeft DEF WindowInv, RosterInv
<1>9. BucketsAreTyped' /\ WindowsAreCurrent' /\ CountsAreHonest' /\ NoneIsOverrun'
  BY <1>6, <1>7 DEF WindowInv, BucketsAreTyped, WindowsAreCurrent, CountsAreHonest, NoneIsOverrun
<1> QED
  BY <1>4, <1>8, <1>9 DEF WindowInv

\* What a bucket counts next: one more in the same window, or the first one of a window that ends later.
LEMMA AdvancedCounts ==
    ASSUME BucketsAreTyped, NEW b \in Buckets
    PROVE  /\ Advanced(b) \in [count : Nat, resetAt : Nat]
           /\ \/ /\ Advanced(b).resetAt = buckets[b].resetAt
                 /\ Advanced(b).count = buckets[b].count + 1
              \/ /\ Advanced(b).resetAt > buckets[b].resetAt
                 /\ Advanced(b).count = 1
<1>1. buckets[b] \in [count : Nat, resetAt : Nat] /\ clock \in Nat /\ Window \in Nat \ {0}
  BY LimitsAssumption DEF BucketsAreTyped
<1> QED
  BY <1>1 DEF Advanced

\* A bucket that admits one request of its own limit keeps the invariant.
LEMMA ConsumeKeepsWindows ==
    ASSUME WindowInv, NEW r \in DOMAIN requests, NEW b \in Buckets, NEW phase, NEW next,
           Consume(r, phase, b, LimitOf(b), next),
           next = "tokenBucket" => CallOf(r).credential \in Tokens,
           next # "actorBucket"
    PROVE  WindowInv'
<1> DEFINE now == Advanced(b)
<1> DEFINE passes == now.count <= LimitOf(b)
<1> DEFINE to == IF passes THEN next ELSE "refused"
<1>0. PICK end \in Nat : end = now.resetAt
  BY AdvancedCounts DEF WindowInv
<1> DEFINE entered == IF passes THEN {<<b, end>>} ELSE {}
<1> DEFINE before == Admitted(b, end)
<1>1. requests' = [requests EXCEPT ![r].phase = to,
                                   ![r].windows = requests[r].windows \cup entered]
  BY <1>0 DEF Consume
<1>2. now \in [count : Nat, resetAt : Nat] /\
      \/ now.resetAt = buckets[b].resetAt /\ now.count = buckets[b].count + 1
      \/ now.resetAt > buckets[b].resetAt /\ now.count = 1
  BY AdvancedCounts DEF WindowInv
<1>3. Formed(requests[r])
  BY DEF WindowInv, RosterInv, RequestsAreFormed
<1>4. buckets' = [buckets EXCEPT ![b] = now] /\ UNCHANGED <<clock, tokens, codes>>
  BY DEF Consume
<1>5. LimitOf(b) \in Nat
  BY LimitsAssumption DEF LimitOf
<1>6. /\ to \in {next, "refused"}
      /\ passes => entered = {<<b, end>>}
      /\ ~passes => entered = {}
  OBVIOUS
<1> HIDE DEF now, to, entered
<1>7. /\ DOMAIN requests' = DOMAIN requests
      /\ \A s \in DOMAIN requests : s # r => requests'[s] = requests[s]
      /\ Formed(requests'[r])
      /\ requests'[r].call = requests[r].call
      /\ requests'[r].windows = requests[r].windows \cup entered
      /\ requests'[r].phase = to
      /\ requests'[r].actor = requests[r].actor
  BY <1>1, <1>3 DEF Formed
<1>8. \A s \in DOMAIN requests : CallOf(s)' = CallOf(s)
  BY <1>7 DEF CallOf
<1>9. RosterInv'
  <2>1. RequestsAreFormed'
    BY <1>7 DEF WindowInv, RosterInv, RequestsAreFormed
  <2>2. CallersAreKnown'
    BY <1>7, <1>8 DEF WindowInv, RosterInv, CallersAreKnown
  <2>3. EntrantsAreKnown'
    BY <1>6, <1>7, <1>8 DEF WindowInv, RosterInv, EntrantsAreKnown
  <2> QED
    BY <1>4, <2>1, <2>2, <2>3, RosterLeft DEF WindowInv, RosterInv
<1>10. BucketsAreTyped'
  BY <1>2, <1>4 DEF WindowInv, BucketsAreTyped
<1>11. /\ buckets'[b] = now
       /\ \A c \in Buckets : c # b => buckets'[c] = buckets[c]
  BY <1>4 DEF WindowInv, BucketsAreTyped
<1>12. \A c, e : <<c, e>> # <<b, end>> => Admitted(c, e)' = Admitted(c, e)
  BY <1>6, <1>7 DEF Admitted
<1>13. Admitted(b, end)' = IF passes THEN before \cup {r} ELSE before
  BY <1>6, <1>7 DEF Admitted
<1>14. IsFiniteSet(before) /\ Cardinality(before) \in Nat
  <2>1. before \subseteq DOMAIN requests
    BY DEF Admitted
  <2>2. IsFiniteSet(before)
    BY <2>1, FS_Subset DEF WindowInv
  <2> QED
    BY <2>2, FS_CardinalityType
<1>15. Cardinality(before) + 1 <= now.count
  <2>1. CASE end = buckets[b].resetAt /\ now.count = buckets[b].count + 1
    <3>1. Cardinality(before) <= buckets[b].count /\ buckets[b].count \in Nat
      BY <2>1 DEF WindowInv, CountsAreHonest, BucketsAreTyped
    <3> QED
      BY <1>14, <2>1, <3>1
  <2>2. CASE end > buckets[b].resetAt /\ now.count = 1
    <3>1. end \in Nat /\ buckets[b].resetAt \in Nat
      BY <1>2 DEF WindowInv, BucketsAreTyped
    <3>2. \A s \in before : end <= buckets[b].resetAt
      BY <3>1 DEF WindowInv, WindowsAreCurrent
    <3>3. before = {}
      BY <2>2, <3>1, <3>2
    <3> QED
      BY <2>2, <3>3, FS_EmptySet
  <2> QED
    BY <1>0, <1>2, <2>1, <2>2
<1>16. /\ Cardinality(Admitted(b, end)') <= now.count
       /\ Cardinality(Admitted(b, end)') <= LimitOf(b)
  <2>1. CASE passes
    <3>1. Admitted(b, end)' = before \cup {r}
      BY <1>13, <2>1
    <3>2. Cardinality(before \cup {r}) \in {Cardinality(before), Cardinality(before) + 1}
      BY <1>14, FS_AddElement
    <3>3. now.count \in Nat /\ now.count <= LimitOf(b)
      BY <1>2, <2>1
    <3> HIDE DEF before, passes
    <3> QED
      BY <1>5, <1>14, <1>15, <3>1, <3>2, <3>3
  <2>2. CASE ~passes
    <3>1. Admitted(b, end)' = before
      BY <1>13, <2>2
    <3>2. Cardinality(before) <= LimitOf(b) /\ now.count \in Nat
      BY <1>2 DEF WindowInv, NoneIsOverrun
    <3> HIDE DEF before, passes
    <3> QED
      BY <1>14, <1>15, <3>1, <3>2
  <2> QED
    BY <2>1, <2>2
<1> HIDE DEF before, passes
<1>17. WindowsAreCurrent'
  <2> SUFFICES ASSUME NEW c \in Buckets, NEW e \in Nat, NEW s \in Admitted(c, e)'
               PROVE  e <= buckets'[c].resetAt
    BY DEF WindowsAreCurrent
  <2>1. end \in Nat /\ buckets[c].resetAt \in Nat
    BY <1>2 DEF WindowInv, BucketsAreTyped
  <2>2. CASE <<c, e>> = <<b, end>>
    BY <1>0, <1>11, <2>1, <2>2
  <2>3. CASE <<c, e>> # <<b, end>>
    <3>1. e <= buckets[c].resetAt
      BY <1>12, <2>1, <2>3 DEF WindowInv, WindowsAreCurrent
    <3>2. buckets[b].resetAt \in Nat /\ end >= buckets[b].resetAt
      BY <1>0, <1>2 DEF WindowInv, BucketsAreTyped
    <3> QED
      BY <1>11, <2>1, <3>1, <3>2, <1>0
  <2> QED
    BY <2>2, <2>3
<1>18. CountsAreHonest'
  <2> SUFFICES ASSUME NEW c \in Buckets
               PROVE  Cardinality(Admitted(c, buckets[c].resetAt)') <= buckets'[c].count
    BY DEF CountsAreHonest
  <2> QED
    BY <1>0, <1>11, <1>12, <1>16 DEF WindowInv, CountsAreHonest
<1>19. NoneIsOverrun'
  <2> SUFFICES ASSUME NEW c \in Buckets, NEW e \in Nat
               PROVE  Cardinality(Admitted(c, e)') <= LimitOf(c)
    BY DEF NoneIsOverrun, LimitOf
  <2> QED
    BY <1>12, <1>16 DEF WindowInv, NoneIsOverrun
<1> QED
  BY <1>7, <1>9, <1>10, <1>17, <1>18, <1>19 DEF WindowInv

\* At the start no window admitted anybody.
LEMMA InitWindows ==
    ASSUME Init
    PROVE  WindowInv
<1>1. PICK script \in Scripts :
        requests = [r \in DOMAIN script |->
            [call |-> script[r], phase |-> "unsent", deployment |-> 1, actor |-> None,
             revoked |-> {}, windows |-> {}, holds |-> {}]]
  BY DEF Init
<1>2. script \in Seq(Call)
  BY ScriptsAssumption
<1>3. DOMAIN requests = 1 .. Len(script) /\ Len(script) \in Nat
  BY <1>1, <1>2
<1>4. IsFiniteSet(DOMAIN requests)
  BY <1>3, FS_Interval
<1>5. \A r \in DOMAIN requests : CallOf(r) = script[r] /\ CallOf(r) \in Call
  BY <1>1, <1>2 DEF CallOf
<1>6. RosterInv
  <2>1. RequestsAreFormed
    BY <1>1 DEF RequestsAreFormed, Formed
  <2>2. RosterIsKnown
    BY InitialRowsAssumption DEF Init, RosterIsKnown, Token, NoCode, Someone
  <2>3. CallersAreKnown
    BY <1>1, <1>5, CodesAssumption DEF CallersAreKnown, Call, Someone
  <2>4. EntrantsAreKnown
    BY <1>1 DEF EntrantsAreKnown
  <2> QED
    BY <2>1, <2>2, <2>3, <2>4 DEF RosterInv
<1>7. \A b, end : Admitted(b, end) = {}
  BY <1>1 DEF Admitted
<1>8. BucketsAreTyped
  BY DEF Init, BucketsAreTyped, Buckets
<1>9. WindowsAreCurrent
  BY <1>7 DEF WindowsAreCurrent
<1>10. CountsAreHonest
  BY <1>7, <1>8, FS_EmptySet DEF CountsAreHonest, BucketsAreTyped
<1>11. NoneIsOverrun
  BY <1>7, FS_EmptySet, LimitsAssumption DEF NoneIsOverrun, LimitOf
<1> QED
  BY <1>4, <1>6, <1>8, <1>9, <1>10, <1>11 DEF WindowInv

\* Every step keeps the invariant; an actor's bucket is no token's.
LEMMA NextWindows ==
    ASSUME WindowInv, [Next]_vars
    PROVE  WindowInv'
<1>1. RosterInv
  BY DEF WindowInv
<1>2. ASSUME NEW r \in DOMAIN requests, Serve(r)
      PROVE  WindowInv'
  <2>1. CASE Receive(r)
    BY <2>1, ReceiveKeepsWindows
  <2>2. CASE LimitActor(r)
    <3>1. requests[r].actor \in Buckets /\ LimitOf(requests[r].actor) = Limit
      BY <1>1, <2>2, ActorsAssumption DEF LimitActor, Consume, At, RosterInv, EntrantsAreKnown, Buckets, LimitOf
    <3> DEFINE next == IF CallOf(r).credential \in Tokens THEN "tokenBucket" ELSE "handle"
    <3>2. /\ next = "tokenBucket" => CallOf(r).credential \in Tokens
          /\ next # "actorBucket"
          /\ Consume(r, "actorBucket", requests[r].actor, LimitOf(requests[r].actor), next)
      BY <2>2, <3>1 DEF LimitActor
    <3> HIDE DEF next
    <3> QED
      BY <3>1, <3>2, ConsumeKeepsWindows
  <2>3. CASE LimitToken(r)
    <3>1. CallOf(r).credential \in Buckets /\ LimitOf(CallOf(r).credential) = TokenLimit
      BY <1>1, <2>3 DEF LimitToken, Consume, At, RosterInv, EntrantsAreKnown, Buckets, LimitOf
    <3> QED
      BY <2>3, <3>1, ConsumeKeepsWindows DEF LimitToken
  <2>4. CASE ~(Receive(r) \/ LimitActor(r) \/ LimitToken(r))
    <3>1. Quiet(r)
      BY <1>1, <1>2, <2>4, WritesAreQuiet, CodesAreQuiet, CredentialsAreQuiet DEF Serve
    <3>2. clock' = clock
      BY <1>2, <2>4 DEF Serve, HandleWrite, VerifySignature, ClaimNonce, Authorize, Write, VerifyEvents,
         CommitDual, Read, Shadow, StartDevice, ReadApproval, StoreApproval, ReadExchange, IssueForCode,
         ForgetCode, CreateToken, RevokeToken, RefuseUnknown, ReadKeys, RegisterKey
    <3> QED
      BY <3>1, <3>2, QuietKeeps
  <2> QED
    BY <2>1, <2>2, <2>3, <2>4
<1>3. ASSUME UNCHANGED <<requests, tokens, codes, buckets>>, clock' \in Nat
      PROVE  WindowInv'
  <2>1. \A r \in DOMAIN requests : CallOf(r)' = CallOf(r)
    BY <1>3 DEF CallOf
  <2>2. \A b, end : Admitted(b, end)' = Admitted(b, end)
    BY <1>3 DEF Admitted
  <2>3. RosterInv'
    BY <1>1, <1>3, <2>1, RosterLeft DEF RosterInv, RequestsAreFormed, CallersAreKnown, EntrantsAreKnown
  <2> QED
    BY <1>3, <2>2, <2>3 DEF WindowInv, BucketsAreTyped, WindowsAreCurrent, CountsAreHonest, NoneIsOverrun
<1>4. clock \in Nat
  BY DEF WindowInv, BucketsAreTyped
<1>5. ASSUME NEW key \in Keys, RevokeKey(key)
      PROVE  WindowInv'
  BY <1>3, <1>4, <1>5 DEF RevokeKey
<1>6. CASE Redeploy \/ Tick \/ UNCHANGED vars
  BY <1>3, <1>4, <1>6 DEF Redeploy, Tick, vars, stores
<1> QED
  BY <1>2, <1>5, <1>6 DEF Next

\* A bucket counts whomever it admits, and opens only windows that nobody was admitted in.
THEOREM BucketsCount == Spec => []WindowInv
<1>1. Init => WindowInv
  BY InitWindows
<1>2. WindowInv /\ [Next]_vars => WindowInv'
  BY NextWindows
<1> QED
  BY <1>1, <1>2, PTL DEF Spec

\* However a bucket is shared by requests and sessions, no window admits more than its limit.
THEOREM WindowsAreHeld == Spec => []WindowsHold
<1>1. MaxTime + Window \in Nat
  BY LimitsAssumption
<1>2. WindowInv => WindowsHold
  BY <1>1 DEF WindowInv, NoneIsOverrun, Admitted, Buckets, LimitOf, WindowsHold
<1> QED
  BY <1>2, BucketsCount, PTL

-----------------------------------------------------------------------------
(***************************************************************************)
(* The tabs: a tab without a reason to be stale has one call open at most, *)
(* and what it shows is what is stored once that call is done: the signals *)
(* that are stored with the one that a toggle turns on, or without the one *)
(* that it turns off.  A call that failed loads again, so it promises      *)
(* nothing.                                                                *)
(***************************************************************************)

Open(c) == call[c].at # "idle"
Failing == {"failed", "refused"}

CallsAreFormed ==
    /\ DOMAIN call = Calls /\ DOMAIN mine = Tabs
    /\ \A c \in Calls : {"at", "tab", "wants", "signal", "rows", "retried"} \subseteq DOMAIN call[c]
    /\ \A c \in Calls : Open(c) =>
          \/ call[c].tab \in Tabs /\ call[c].wants \in {"load", "on", "off"}
          \/ call[c].tab = Nobody /\ call[c].wants = "view"
    /\ \A c \in Calls : Open(c) /\ call[c].wants \in {"on", "off"} => call[c].signal \in Signals
    /\ \A c \in Calls : Open(c) /\ call[c].wants = "view" => call[c].signal \in Views
CallsDoNotOverlap ==
    \A c, d \in Calls :
        /\ Open(c) /\ Open(d) /\ call[c].tab \in Tabs
        /\ call[c].tab = call[d].tab /\ call[c].tab \notin stale
        => c = d

\* The signals that can be toggled, of those that are stored and of those that a tab shows.
Kept == signals \cap Signals
Shown(t) == mine[t] \cap Signals

\* What a tab shows, or will show, is right when these signals are the stored ones.
Matches(t, shown, kept) == shown \subseteq kept /\ (t \notin cut => kept \subseteq shown)

\* What call c will have done when it is done is what its tab shows, or will show.
Fits(c) ==
    /\ call[c].wants = "load" /\ call[c].at = "done" =>
          Matches(call[c].tab, call[c].rows \cap Signals, Kept)
    /\ call[c].wants = "on" /\ call[c].at \notin Failing =>
          /\ Matches(call[c].tab, Shown(call[c].tab), Kept \cup {call[c].signal})
          /\ call[c].at = "done" => call[c].signal \in signals
    /\ call[c].wants = "off" /\ call[c].at \notin Failing =>
          /\ Matches(call[c].tab, Shown(call[c].tab), Kept \ {call[c].signal})
          /\ call[c].at = "done" => call[c].signal \notin signals
CallsFit == \A c \in Calls : Open(c) /\ call[c].tab \in Tabs /\ call[c].tab \notin stale => Fits(c)

\* No call of the tab is open.
Idle(t) == \A c \in Calls : Open(c) => call[c].tab # t
TabsMatch == \A t \in Tabs : Idle(t) /\ t \notin stale => Matches(t, Shown(t), Kept)

TabInv ==
    /\ CallsAreFormed
    /\ CallsDoNotOverlap
    /\ CallsFit
    /\ TabsMatch

\* What does not concern a call leaves it fit.
LEMMA FitsStays ==
    ASSUME CallsAreFormed, NEW d \in Calls, Open(d), call[d].tab \in Tabs, Fits(d),
           call'[d] = call[d], Kept' = Kept, mine'[call[d].tab] = mine[call[d].tab],
           call[d].tab \in cut' <=> call[d].tab \in cut
    PROVE  Fits(d)'
<1>1. call[d].wants \in {"on", "off"} => (call[d].signal \in signals' <=> call[d].signal \in signals)
  BY DEF CallsAreFormed, Kept
<1>2. Shown(call[d].tab)' = Shown(call[d].tab)
  BY DEF Shown
<1>3. \A shown, kept : Matches(call[d].tab, shown, kept)' <=> Matches(call[d].tab, shown, kept)
  BY DEF Matches
<1>4. Matches(call[d].tab, Shown(call[d].tab), Kept \cup {call[d].signal})'
        <=> Matches(call[d].tab, Shown(call[d].tab), Kept \cup {call[d].signal})
  BY <1>2 DEF Matches
<1>5. Matches(call[d].tab, Shown(call[d].tab), Kept \ {call[d].signal})'
        <=> Matches(call[d].tab, Shown(call[d].tab), Kept \ {call[d].signal})
  BY <1>2 DEF Matches
<1>6. Matches(call[d].tab, call[d].rows \cap Signals, Kept)'
        <=> Matches(call[d].tab, call[d].rows \cap Signals, Kept)
  BY DEF Matches
<1> QED
  BY <1>1, <1>4, <1>5, <1>6 DEF Fits

\* A step of one call of one tab keeps the invariant if it does what its own tab asks for and makes
\* every other tab stale for which the stored signals change.
LEMMA OneTabSteps ==
    ASSUME TabInv, CallsAreFormed', NEW c \in Calls, NEW tab,
           \A d \in Calls : d # c => call'[d] = call[d],
           Open(c) => call[c].tab = tab,
           Open(c)' => call'[c].tab = tab,
           \A t \in Tabs : t # tab /\ t \notin stale' =>
               t \notin stale /\ Kept' = Kept /\ mine'[t] = mine[t] /\ (t \in cut' <=> t \in cut),
           tab \in Tabs /\ tab \notin stale' =>
               /\ \A d \in Calls : d # c /\ Open(d) => call[d].tab # tab
               /\ Open(c)' => Fits(c)'
               /\ ~Open(c)' => Matches(tab, Shown(tab), Kept)'
    PROVE  TabInv'
<1>1. \A d \in Calls : d # c => (Open(d)' <=> Open(d)) /\ call'[d].tab = call[d].tab
  BY DEF Open
<1>2. CallsDoNotOverlap'
  BY <1>1 DEF TabInv, CallsDoNotOverlap, CallsAreFormed
<1>3. CallsFit'
  <2> SUFFICES ASSUME NEW d \in Calls, Open(d)', call'[d].tab \in Tabs, call'[d].tab \notin stale'
               PROVE  Fits(d)'
    BY DEF CallsFit
  <2>1. CASE d = c
    BY <2>1
  <2>2. CASE d # c
    <3>1. Open(d) /\ call'[d] = call[d] /\ call[d].tab # tab /\ call[d].tab \notin stale
      BY <1>1, <2>2
    <3>2. Fits(d)
      BY <1>1, <2>2, <3>1 DEF TabInv, CallsFit
    <3> QED
      BY <3>1, <3>2, FitsStays DEF TabInv
  <2> QED
    BY <2>1, <2>2
<1>4. TabsMatch'
  <2> SUFFICES ASSUME NEW t \in Tabs, Idle(t)', t \notin stale'
               PROVE  Matches(t, Shown(t), Kept)'
    BY DEF TabsMatch
  <2>1. CASE t = tab
    <3>1. ~Open(c)'
      BY <2>1 DEF Idle
    <3> QED
      BY <2>1, <3>1
  <2>2. CASE t # tab
    <3>1. Idle(t)
      BY <1>1, <2>2 DEF Idle
    <3>2. Matches(t, Shown(t), Kept)
      BY <2>2, <3>1 DEF TabInv, TabsMatch
    <3>3. Shown(t)' = Shown(t) /\ Kept' = Kept /\ (t \in cut' <=> t \in cut)
      BY <2>2 DEF Shown
    <3> QED
      BY <3>2, <3>3 DEF Matches
  <2> QED
    BY <2>1, <2>2
<1> QED
  BY <1>2, <1>3, <1>4 DEF TabInv

\* Of a call, nothing changes but how far it is and what it has read.
Turns(c, at) ==
    /\ DOMAIN call' = DOMAIN call
    /\ \A d \in Calls : d # c => call'[d] = call[d]
    /\ DOMAIN call'[c] = DOMAIN call[c]
    /\ call'[c].at = at
    /\ call'[c].tab = call[c].tab
    /\ call'[c].wants = call[c].wants
    /\ call'[c].signal = call[c].signal

\* A call that proceeds turns.
LEMMA ProceedTurns ==
    ASSUME TabInv, NEW c \in Calls, NEW at, NEW read,
           \/ Proceeds(c, at)
           \/ call' = [call EXCEPT ![c].at = at, ![c].retried = TRUE]
           \/ call' = [call EXCEPT ![c].at = at, ![c].rows = read]
    PROVE  Turns(c, at)
BY DEF TabInv, CallsAreFormed, Proceeds, Turns

\* A call that turns and stays open stays well formed.
LEMMA TurnedIsFormed ==
    ASSUME TabInv, NEW c \in Calls, NEW at, at # "idle", Open(c), Turns(c, at), DOMAIN mine' = Tabs
    PROVE  CallsAreFormed' /\ Open(c)'
<1>1. \A d \in Calls : /\ Open(d)' <=> Open(d)
                       /\ DOMAIN call'[d] = DOMAIN call[d]
                       /\ call'[d].tab = call[d].tab
                       /\ call'[d].wants = call[d].wants
                       /\ call'[d].signal = call[d].signal
  BY DEF Turns, Open
<1> QED
  BY <1>1 DEF TabInv, CallsAreFormed, Turns

\* No other call of a tab that is not stale is open beside one that is.
LEMMA NoneBeside ==
    ASSUME TabInv, NEW c \in Calls, Open(c), call[c].tab \in Tabs, call[c].tab \notin stale
    PROVE  Fits(c) /\ \A d \in Calls : d # c /\ Open(d) => call[d].tab # call[c].tab
BY DEF TabInv, CallsDoNotOverlap, CallsFit

\* Provisioning, losses and whatever else does not touch the signals keep the invariant.
LEMMA ProvisioningKeeps ==
    ASSUME TabInv, NEW c \in Calls,
           \/ ResolveActor(c) \/ FindIdentity(c) \/ InsertActor(c) \/ InsertIdentity(c)
           \/ FindRaced(c) \/ Lose(c)
    PROVE  TabInv'
<1>1. PICK at \in {"act", "failed", "provision", "resolve", "actor", "identity", "raced", "refused"} :
        \/ Proceeds(c, at)
        \/ call' = [call EXCEPT ![c].at = at, ![c].retried = TRUE]
  BY DEF ResolveActor, FindIdentity, InsertActor, InsertIdentity, FindRaced, Lose, Repeat
<1>2. Turns(c, at)
  BY <1>1, ProceedTurns
<1>3. call[c].at \notin {"idle"} \cup Failing /\ UNCHANGED <<signals, mine, stale, cut>>
  BY DEF ResolveActor, FindIdentity, InsertActor, InsertIdentity, FindRaced, Lose, Failing, rows
<1>4. Open(c) /\ DOMAIN mine' = Tabs
  BY <1>3 DEF Open, TabInv, CallsAreFormed
<1>5. CallsAreFormed' /\ Open(c)'
  BY <1>1, <1>2, <1>4, TurnedIsFormed
<1>6. Kept' = Kept
  BY <1>3 DEF Kept
<1>7. call[c].tab \in Tabs /\ call[c].tab \notin stale => Fits(c)'
  <2> HAVE call[c].tab \in Tabs /\ call[c].tab \notin stale
  <2>1. Fits(c)
    BY <1>4, NoneBeside
  <2>2. Shown(call[c].tab)' = Shown(call[c].tab)
    BY <1>2, <1>3 DEF Turns, Shown
  <2> QED
    BY <1>1, <1>2, <1>3, <1>6, <2>1, <2>2 DEF Fits, Turns, Matches
<1>8. \A d \in Calls : d # c => call'[d] = call[d]
  BY <1>2 DEF Turns
<1>9. call'[c].tab = call[c].tab
  BY <1>2 DEF Turns
<1> QED
  BY <1>3, <1>4, <1>5, <1>6, <1>7, <1>8, <1>9, NoneBeside, OneTabSteps

\* A toggle that is stored makes the other tabs stale, if it changes anything; a view changes nothing
\* that can be toggled.
LEMMA StoringKeeps ==
    ASSUME TabInv, NEW c \in Calls, RecordInteraction(c) \/ RemoveInteraction(c)
    PROVE  TabInv'
<1>1. PICK at \in {"failed", "done"} : Proceeds(c, at)
  BY DEF RecordInteraction, RemoveInteraction
<1>2. Turns(c, at)
  BY <1>1, ProceedTurns
<1>3. /\ call[c].at = "act" /\ Open(c)
      /\ UNCHANGED <<mine, cut>> /\ DOMAIN mine' = Tabs
      /\ stale' = IF Kept' = Kept THEN stale ELSE stale \cup (Tabs \ {call[c].tab})
  BY DEF RecordInteraction, RemoveInteraction, Outdates, Open, Kept, TabInv, CallsAreFormed
<1>4. CallsAreFormed' /\ Open(c)'
  BY <1>1, <1>2, <1>3, TurnedIsFormed
<1>5. \A t \in Tabs : t # call[c].tab /\ t \notin stale' => t \notin stale /\ Kept' = Kept
  BY <1>3
<1>6. call[c].tab \notin stale' => call[c].tab \notin stale
  BY <1>3
<1>7. call[c].tab \in Tabs /\ call[c].tab \notin stale => Fits(c)'
  <2> HAVE call[c].tab \in Tabs /\ call[c].tab \notin stale
  <2>1. Fits(c) /\ call[c].wants # "view"
    BY <1>3, NoneBeside, NobodyIsNoCall DEF TabInv, CallsAreFormed
  <2>2. Shown(call[c].tab)' = Shown(call[c].tab) /\ call'[c].tab = call[c].tab
    BY <1>2, <1>3 DEF Turns, Shown
  <2>3. call[c].signal \in Signals
    BY <1>3, <2>1 DEF RecordInteraction, RemoveInteraction, TabInv, CallsAreFormed
  <2>4. CASE RecordInteraction(c)
    <3>1. /\ call[c].wants = "on" /\ call'[c].wants = "on"
          /\ call[c].signal \in signals' /\ call'[c].signal = call[c].signal
      BY <1>2, <2>1, <2>4 DEF RecordInteraction, Turns
    <3>2. Kept' \cup {call[c].signal} = Kept \cup {call[c].signal}
      BY <2>3, <2>4 DEF RecordInteraction, Kept
    <3>3. Matches(call[c].tab, Shown(call[c].tab), Kept \cup {call[c].signal})
      BY <1>3, <2>1, <3>1 DEF Fits, Failing
    <3> QED
      BY <1>3, <2>2, <3>1, <3>2, <3>3 DEF Fits, Matches
  <2>5. CASE RemoveInteraction(c)
    <3>1. /\ call[c].wants = "off" /\ call'[c].wants = "off"
          /\ call[c].signal \notin signals' /\ call'[c].signal = call[c].signal
      BY <1>2, <2>5 DEF RemoveInteraction, Turns
    <3>2. Kept' \ {call[c].signal} = Kept \ {call[c].signal}
      BY <2>5 DEF RemoveInteraction, Kept
    <3>3. Matches(call[c].tab, Shown(call[c].tab), Kept \ {call[c].signal})
      BY <1>3, <2>1, <3>1 DEF Fits, Failing
    <3> QED
      BY <1>3, <2>2, <3>1, <3>2, <3>3 DEF Fits, Matches
  <2> QED
    BY <2>4, <2>5
<1>8. /\ \A d \in Calls : d # c => call'[d] = call[d]
      /\ call'[c].tab = call[c].tab
  BY <1>2 DEF Turns
<1> QED
  BY <1>3, <1>4, <1>5, <1>6, <1>7, <1>8, NoneBeside, OneTabSteps

\* What a load has read is stored, and all that is stored if its list was not cut: if it is the only
\* call of its tab, this is what the tab will show.
LEMMA ListingKeeps ==
    ASSUME TabInv, NEW c \in Calls, ListInteractions(c)
    PROVE  TabInv'
<1>1. Turns(c, "done") /\ call'[c].rows = Newest
  BY ProceedTurns DEF ListInteractions, TabInv, CallsAreFormed
<1>2. /\ Open(c) /\ call[c].wants = "load" /\ call[c].tab \in Tabs
      /\ UNCHANGED <<signals, mine>> /\ DOMAIN mine' = Tabs
  BY DEF ListInteractions, Open, TabInv, CallsAreFormed, rows
<1>3. CallsAreFormed' /\ Open(c)'
  BY <1>1, <1>2, TurnedIsFormed
<1>4. \/ stale' = stale
      \/ /\ stale' = stale \ {call[c].tab}
         /\ \A d \in Calls : Open(d) /\ call[d].tab = call[c].tab => d = c
  BY DEF ListInteractions, OpenIn, Open
<1>5. cut' = IF Newest = signals THEN cut \ {call[c].tab} ELSE cut \cup {call[c].tab}
  BY DEF ListInteractions
<1>6. Kept' = Kept
  BY <1>2 DEF Kept
<1>7. Fits(c)'
  <2>1. call'[c].wants = "load" /\ call'[c].tab = call[c].tab
    BY <1>1, <1>2 DEF Turns
  <2>2. Newest \cap Signals \subseteq Kept /\ (Newest = signals => Kept \subseteq Newest \cap Signals)
    BY DEF Newest, Kept
  <2> QED
    BY <1>1, <1>5, <1>6, <2>1, <2>2 DEF Fits, Matches
<1>8. call[c].tab \notin stale' => \A d \in Calls : d # c /\ Open(d) => call[d].tab # call[c].tab
  BY <1>2, <1>4, NoneBeside
<1>9. \A d \in Calls : d # c => call'[d] = call[d]
  BY <1>1 DEF Turns
<1>10. call'[c].tab = call[c].tab
  BY <1>1 DEF Turns
<1>11. \A t \in Tabs : t # call[c].tab /\ t \notin stale' =>
          t \notin stale /\ Kept' = Kept /\ mine'[t] = mine[t] /\ (t \in cut' <=> t \in cut)
  BY <1>2, <1>4, <1>5, <1>6
<1> QED
  BY <1>2, <1>3, <1>7, <1>8, <1>9, <1>10, <1>11, OneTabSteps

\* A call that begins is one that was idle.
LEMMA BeginsOne ==
    ASSUME TabInv, NEW new, Begins(new)
    PROVE  \E c \in Calls : ~Open(c) /\ call' = [call EXCEPT ![c] = new]
<1> DEFINE idle == CHOOSE c \in Calls : call[c].at = "idle"
<1>1. idle \in Calls /\ call[idle].at = "idle" /\ call' = [call EXCEPT ![idle] = new]
  BY DEF Begins
<1> QED
  BY <1>1 DEF Open

\* A click that overlaps another call of its tab makes the tab stale.
LEMMA ClickKeeps ==
    ASSUME TabInv, NEW tab \in Tabs, NEW s \in Signals, Click(tab, s)
    PROVE  TabInv'
<1> DEFINE wants == IF s \in mine[tab] THEN "off" ELSE "on"
<1>1. PICK c \in Calls : ~Open(c) /\ call' = [call EXCEPT ![c] = Toggle(tab, s, wants)]
  BY BeginsOne DEF Click
<1>2. mine' = [mine EXCEPT ![tab] = IF s \in mine[tab] THEN mine[tab] \ {s} ELSE mine[tab] \union {s}]
  BY DEF Click
<1>3. /\ DOMAIN call' = Calls /\ DOMAIN mine' = Tabs
      /\ \A d \in Calls : d # c => call'[d] = call[d]
      /\ {"at", "tab", "wants", "signal", "rows", "retried"} \subseteq DOMAIN call'[c]
      /\ call'[c].at = "resolve" /\ call'[c].tab = tab
      /\ call'[c].wants = wants /\ call'[c].signal = s
      /\ \A t \in Tabs : t # tab => mine'[t] = mine[t]
  BY <1>1, <1>2 DEF TabInv, CallsAreFormed, Toggle, Load
<1>4. Open(c)' /\ \A d \in Calls : d # c => (Open(d)' <=> Open(d))
  BY <1>3 DEF Open
<1>5. UNCHANGED <<signals, cut>> /\ Kept' = Kept
  BY DEF Click, Kept, rows
<1>6. \/ stale' = stale /\ Idle(tab)
      \/ stale' = stale \cup {tab}
  BY DEF Click, OpenIn, Idle, Open
<1>7. CallsAreFormed'
  BY <1>3, <1>4 DEF TabInv, CallsAreFormed
<1>8. tab \notin stale' => tab \notin stale /\ Idle(tab)
  BY <1>6
<1>9. tab \notin stale' => Fits(c)'
  <2> HAVE tab \notin stale'
  <2>1. Matches(tab, Shown(tab), Kept)
    BY <1>8 DEF TabInv, TabsMatch
  <2>2. CASE s \in mine[tab]
    <3>1. Shown(tab)' = Shown(tab) \ {s} /\ call'[c].wants = "off"
      BY <1>2, <1>3, <2>2 DEF Shown, TabInv, CallsAreFormed
    <3> QED
      BY <1>3, <1>5, <2>1, <3>1 DEF Fits, Matches
  <2>3. CASE s \notin mine[tab]
    <3>1. Shown(tab)' = Shown(tab) \cup {s} /\ call'[c].wants = "on"
      BY <1>2, <1>3, <2>3 DEF Shown, TabInv, CallsAreFormed
    <3> QED
      BY <1>3, <1>5, <2>1, <3>1 DEF Fits, Matches
  <2> QED
    BY <2>2, <2>3
<1>10. \A t \in Tabs : t # tab /\ t \notin stale' => t \notin stale
  BY <1>6
<1>11. tab \notin stale' => \A d \in Calls : d # c /\ Open(d) => call[d].tab # tab
  BY <1>8 DEF Idle
<1> QED
  BY <1>1, <1>3, <1>4, <1>5, <1>7, <1>9, <1>10, <1>11, OneTabSteps

\* A page that is opened concerns no tab.
LEMMA ViewKeeps ==
    ASSUME TabInv, NEW s \in Views, OpenPage(s)
    PROVE  TabInv'
<1>1. PICK c \in Calls : ~Open(c) /\ call' = [call EXCEPT ![c] = RecordView(s)]
  BY BeginsOne DEF OpenPage
<1>2. /\ DOMAIN call' = Calls
      /\ \A d \in Calls : d # c => call'[d] = call[d]
      /\ {"at", "tab", "wants", "signal", "rows", "retried"} \subseteq DOMAIN call'[c]
      /\ call'[c].at = "resolve" /\ call'[c].tab = Nobody
      /\ call'[c].wants = "view" /\ call'[c].signal = s
  BY <1>1 DEF TabInv, CallsAreFormed, RecordView, Toggle, Load
<1>3. UNCHANGED <<signals, mine, stale, cut>> /\ Kept' = Kept
  BY DEF OpenPage, Kept, rows
<1>4. \A d \in Calls : d # c => (Open(d)' <=> Open(d))
  BY <1>2 DEF Open
<1>5. CallsAreFormed'
  BY <1>2, <1>3, <1>4 DEF TabInv, CallsAreFormed
<1> QED
  BY <1>1, <1>2, <1>3, <1>5, NobodyIsNoCall, OneTabSteps

\* A toggle that is done is shown already; a load that is done shows what it has read; a view that is
\* done shows nowhere.
LEMMA FinishKeeps ==
    ASSUME TabInv, NEW c \in Calls, Finish(c)
    PROVE  TabInv'
<1>1. /\ DOMAIN call' = Calls
      /\ \A d \in Calls : d # c => call'[d] = call[d]
      /\ {"at", "tab", "wants", "signal", "rows", "retried"} \subseteq DOMAIN call'[c]
      /\ call'[c].at = "idle"
  BY DEF Finish, TabInv, CallsAreFormed, NoCall, Load
<1>2. /\ Open(c) /\ ~Open(c)'
      /\ call[c].at = "done"
      /\ \/ call[c].tab \in Tabs /\ call[c].wants \in {"load", "on", "off"}
         \/ call[c].tab = Nobody /\ call[c].wants = "view"
      /\ \A d \in Calls : d # c => (Open(d)' <=> Open(d))
  BY <1>1 DEF Finish, Open, TabInv, CallsAreFormed
<1>3. UNCHANGED <<signals, stale, cut>> /\ Kept' = Kept
  BY DEF Finish, Kept, rows
<1>4. DOMAIN mine' = Tabs /\ \A t \in Tabs : t # call[c].tab => mine'[t] = mine[t]
  BY DEF Finish, TabInv, CallsAreFormed
<1>5. CallsAreFormed'
  BY <1>1, <1>2, <1>4 DEF TabInv, CallsAreFormed
<1>6. ASSUME NEW tab \in Tabs, tab = call[c].tab, tab \notin stale
      PROVE  Matches(tab, Shown(tab), Kept)'
  <2>1. Fits(c) /\ call[c].wants \in {"load", "on", "off"}
    BY <1>2, <1>6, NoneBeside, NobodyIsNoCall
  <2>2. "done" \notin Failing
    BY DEF Failing
  <2>3. CASE call[c].wants = "load"
    <3>1. mine'[tab] = call[c].rows
      BY <1>6, <2>3 DEF Finish, TabInv, CallsAreFormed
    <3>2. Matches(tab, call[c].rows \cap Signals, Kept)
      BY <1>2, <1>6, <2>1, <2>3 DEF Fits
    <3> QED
      BY <1>3, <3>1, <3>2 DEF Matches, Shown
  <2>4. CASE call[c].wants \in {"on", "off"}
    <3>1. mine' = mine
      BY <2>4 DEF Finish
    <3>2. call[c].signal \in Signals
      BY <1>2, <2>4 DEF TabInv, CallsAreFormed
    <3>3. \/ /\ Matches(tab, Shown(tab), Kept \cup {call[c].signal})
             /\ Kept \cup {call[c].signal} = Kept
          \/ /\ Matches(tab, Shown(tab), Kept \ {call[c].signal})
             /\ Kept \ {call[c].signal} = Kept
      BY <1>2, <1>6, <2>1, <2>2, <2>4, <3>2 DEF Fits, Kept
    <3>4. Matches(tab, Shown(tab), Kept)
      BY <3>3
    <3> QED
      BY <1>3, <3>1, <3>4 DEF Matches, Shown
  <2> QED
    BY <2>1, <2>3, <2>4
<1> QED
  BY <1>1, <1>2, <1>3, <1>4, <1>5, <1>6, NoneBeside, OneTabSteps

\* A toggle that failed loads again; a load that failed leaves its tab stale.
LEMMA FailKeeps ==
    ASSUME TabInv, NEW c \in Calls, FailCall(c)
    PROVE  TabInv'
<1> DEFINE next == IF call[c].wants \in {"on", "off"} THEN Load(call[c].tab) ELSE NoCall
<1>1. call' = [call EXCEPT ![c] = next]
  BY DEF FailCall
<1>2. /\ DOMAIN call' = Calls /\ call'[c] = next
      /\ \A d \in Calls : d # c => call'[d] = call[d]
      /\ {"at", "tab", "wants", "signal", "rows", "retried"} \subseteq DOMAIN next
  BY <1>1 DEF TabInv, CallsAreFormed, NoCall, Load
<1>3. /\ Open(c)
      /\ \/ call[c].tab \in Tabs /\ call[c].wants \in {"load", "on", "off"}
         \/ call[c].tab = Nobody /\ call[c].wants = "view"
      /\ \A d \in Calls : d # c => (Open(d)' <=> Open(d))
  BY <1>2 DEF FailCall, Open, TabInv, CallsAreFormed
<1>4. UNCHANGED <<signals, cut>> /\ Kept' = Kept
  BY DEF FailCall, Kept, rows
<1>5. CASE call[c].wants \in {"on", "off"}
  <2>1. /\ call'[c].at = "resolve" /\ call'[c].tab = call[c].tab /\ call'[c].wants = "load"
        /\ UNCHANGED <<mine, stale>>
    BY <1>2, <1>5 DEF FailCall, Load
  <2>2. Open(c)' /\ Fits(c)'
    BY <2>1 DEF Open, Fits
  <2>3. CallsAreFormed'
    BY <1>2, <1>3, <1>5, <2>1 DEF TabInv, CallsAreFormed
  <2> QED
    BY <1>2, <1>3, <1>4, <2>1, <2>2, <2>3, NoneBeside, OneTabSteps
<1>6. CASE call[c].wants \notin {"on", "off"}
  <2>1. ~Open(c)'
    BY <1>2, <1>6 DEF Open, NoCall, Load
  <2>2. CASE call[c].wants = "load"
    <3>1. /\ call[c].tab \in Tabs
          /\ stale' = stale \cup {call[c].tab}
          /\ DOMAIN mine' = Tabs /\ \A t \in Tabs : t # call[c].tab => mine'[t] = mine[t]
      BY <1>3, <2>2 DEF FailCall, TabInv, CallsAreFormed
    <3>2. CallsAreFormed'
      BY <1>2, <1>3, <2>1, <3>1 DEF TabInv, CallsAreFormed
    <3> QED
      BY <1>2, <1>3, <1>4, <2>1, <3>1, <3>2, OneTabSteps
  <2>3. CASE call[c].wants # "load"
    <3>1. call[c].tab \notin Tabs /\ UNCHANGED <<mine, stale>>
      BY <1>3, <1>6, <2>3, NobodyIsNoCall DEF FailCall
    <3>2. CallsAreFormed'
      BY <1>2, <1>3, <2>1, <3>1 DEF TabInv, CallsAreFormed
    <3> QED
      BY <1>2, <1>3, <1>4, <2>1, <3>1, <3>2, OneTabSteps
  <2> QED
    BY <2>2, <2>3
<1> QED
  BY <1>5, <1>6

\* At the start a tab has begun one load at most, and none has shown anything.
LEMMA InitTabs ==
    ASSUME InteractionInit
    PROVE  TabInv
<1> DEFINE chosen(c) == CHOOSE t \in Tabs : FirstCall[t] = c
<1> DEFINE first(c) == \E t \in Tabs : FirstCall[t] = c
<1>0. /\ FirstCall \in [Tabs -> Calls]
      /\ \A t, u \in Tabs : FirstCall[t] = FirstCall[u] => t = u
      /\ \A t \in Tabs : first(FirstCall[t])
  BY EachTabHasACall DEF FirstCall, CallsOfTheirOwn
<1>1. call = [c \in Calls |-> IF first(c) THEN Load(chosen(c)) ELSE NoCall]
  BY DEF InteractionInit
<1>2. \A c \in Calls : first(c) => chosen(c) \in Tabs /\ FirstCall[chosen(c)] = c
  OBVIOUS
<1> HIDE DEF chosen, first
<1>3. DOMAIN call = Calls
  BY <1>1
<1>4. \A c \in Calls :
        \/ first(c) /\ call[c] = Load(chosen(c))
        \/ ~first(c) /\ call[c] = NoCall
  BY <1>1
<1>5. \A c \in Calls :
        /\ {"at", "tab", "wants", "signal", "rows", "retried"} \subseteq DOMAIN call[c]
        /\ Open(c) <=> first(c)
        /\ Open(c) => call[c].tab = chosen(c) /\ call[c].wants = "load" /\ call[c].at = "resolve"
  <2> SUFFICES ASSUME NEW c \in Calls
               PROVE  /\ {"at", "tab", "wants", "signal", "rows", "retried"} \subseteq DOMAIN call[c]
                      /\ Open(c) <=> first(c)
                      /\ Open(c) => /\ call[c].tab = chosen(c)
                                    /\ call[c].wants = "load" /\ call[c].at = "resolve"
    OBVIOUS
  <2>1. CASE first(c) /\ call[c] = Load(chosen(c))
    BY <2>1 DEF Load, Open
  <2>2. CASE ~first(c) /\ call[c] = NoCall
    BY <2>2 DEF NoCall, Load, Open
  <2> QED
    BY <1>4, <2>1, <2>2
<1>6. CallsAreFormed
  <2>1. mine = [t \in Tabs |-> {}]
    BY DEF InteractionInit
  <2> QED
    BY <1>2, <1>3, <1>5, <2>1 DEF CallsAreFormed
<1>7. CallsDoNotOverlap
  BY <1>2, <1>5 DEF CallsDoNotOverlap
<1>8. CallsFit
  BY <1>5 DEF CallsFit, Fits
<1>9. TabsMatch
  <2>1. \A t \in Tabs : ~Idle(t)
    <3> SUFFICES ASSUME NEW t \in Tabs
                 PROVE  ~Idle(t)
      OBVIOUS
    <3>1. FirstCall[t] \in Calls /\ first(FirstCall[t])
      BY <1>0
    <3>2. chosen(FirstCall[t]) = t
      BY <1>0, <1>2, <3>1
    <3> QED
      BY <1>5, <3>1, <3>2 DEF Idle
  <2> QED
    BY <2>1 DEF TabsMatch
<1> QED
  BY <1>6, <1>7, <1>8, <1>9 DEF TabInv

\* A tab without a reason to be stale shows, or is about to show, what is stored, and all of it unless
\* its list was cut.
THEOREM TabsAgree == InteractionSpec => []TabInv
<1>1. InteractionInit => TabInv
  BY InitTabs
<1>2. TabInv /\ [InteractionNext]_interactionVars => TabInv'
  <2> SUFFICES ASSUME TabInv, [InteractionNext]_interactionVars
               PROVE  TabInv'
    OBVIOUS
  <2>1. ASSUME NEW c \in Calls, CallStep(c) \/ Lose(c)
        PROVE  TabInv'
    BY <2>1, ProvisioningKeeps, StoringKeeps, ListingKeeps, FinishKeeps, FailKeeps DEF CallStep
  <2>2. ASSUME NEW tab \in Tabs, NEW s \in Signals, Click(tab, s)
        PROVE  TabInv'
    BY <2>2, ClickKeeps
  <2>3. ASSUME NEW s \in Views, OpenPage(s)
        PROVE  TabInv'
    BY <2>3, ViewKeeps
  <2>4. CASE UNCHANGED interactionVars
    BY <2>4 DEF interactionVars, tabVars, rows, TabInv, CallsAreFormed, CallsDoNotOverlap, CallsFit, Fits,
       Matches, Shown, Kept, Open, TabsMatch, Idle
  <2> QED
    BY <2>1, <2>2, <2>3, <2>4 DEF InteractionNext
<1> QED
  BY <1>1, <1>2, PTL DEF InteractionSpec

\* Between calls, a tab shows as on only what is stored, and all of it if its last list held all rows,
\* unless another tab has changed what is stored since, its calls overlapped or its last load failed.
THEOREM TabsShowTheStored == InteractionSpec => []TabsShowWhatIsStored
<1>1. TabInv => TabsShowWhatIsStored
  BY DEF TabInv, TabsMatch, Idle, Open, OpenIn, Matches, Shown, Kept, TabsShowWhatIsStored
<1> QED
  BY <1>1, TabsAgree, PTL

=============================================================================
