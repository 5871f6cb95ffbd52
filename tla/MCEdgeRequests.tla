--------------------------- MODULE MCEdgeRequests ---------------------------
(***************************************************************************)
(* Two people, one agent, a token and a key: a claim that is signed and    *)
(* sent again, another claim signed with the same nonce, a typed answer,   *)
(* a run, a device code and the credentials' own requests; and, in         *)
(* behaviours of their own, the signals of one visitor in two tabs.        *)
(***************************************************************************)
EXTENDS EdgeRequests, Interactions

CONSTANTS ann, bob, agent, t1, t2, k1, k2, k3, k4, login, claim, other, answer, run, edit

MCActors == {ann, bob, agent}
MCHumans == {ann, bob}
MCTokens == {t1, t2}
MCKeys == {k1, k2, k3, k4}
MCCodes == {login}
MCCommands == {claim, other, answer, run, edit}

Sign(route, command, nonce) ==
    [signer |-> ann, key |-> k1, nonce |-> nonce, route |-> route, command |-> command]
Ask(route, credential, about) ==
    [route |-> route, credential |-> credential, about |-> about, envelope |-> None,
     drafter |-> None]
Submit(route, credential, command, nonce, drafter) ==
    [Ask(route, credential, command) EXCEPT !.envelope = Sign(route, command, nonce),
                                            !.drafter = drafter]

Claim == Submit("claim.create", ann, claim, 1, None)
Drafted == Submit("claim.create", t1, other, 1, agent)
Answer == Submit("answer", t1, answer, 1, agent)
Run == Submit("run.create", ann, run, 2, agent)
Edit == Submit("claim.revise", ann, edit, 2, None)
Reading == Ask("read", t1, None)
Revocation == Ask("token.revoke", ann, t1)
Start == Ask("device.start", None, login)
Approve(actor) == Ask("device.approve", actor, login)
Exchange == Ask("device.token", None, login)
Register(key) == Ask("key.register", bob, key)

MCScripts ==
    {<<Claim, Claim>>, <<Claim, Drafted>>, <<Answer, Revocation>>, <<Answer, Drafted>>, <<Drafted, Revocation>>,
     <<Run, Edit>>, <<Reading, Ask("token.create", t1, None)>>, << >>, <<Register(k2), Reading>>,
     <<Start, Approve(ann), Exchange>>, <<Start, Approve(ann), Approve(bob)>>}

MCDeployments ==
    <<[read |-> "legacy", write |-> "legacy", ready |-> FALSE, rpc |-> TRUE],
      [read |-> "shadow", write |-> "dual_write", ready |-> FALSE, rpc |-> TRUE],
      [read |-> "kernel", write |-> "kernel", ready |-> TRUE, rpc |-> TRUE]>>

MCInitialTokens ==
    [t \in MCTokens |-> IF t = t1 THEN [owner |-> ann, revoked |-> FALSE, expires |-> 2, reads |-> TRUE]
                                  ELSE NoToken]
MCInitialKeys ==
    [k \in MCKeys |-> CASE k = k1 -> [owner |-> ann, revoked |-> FALSE]
                        [] k = k3 -> [owner |-> agent, revoked |-> FALSE]
                        [] OTHER -> NoKey]

-----------------------------------------------------------------------------
\* The requests and the tabs share no variable: in each behaviour just one of
\* the two components leaves its initial state, the tabs beside an edge that
\* gets no requests.
EdgeInit == Init /\ InteractionInit /\ (identity # Nobody => DOMAIN requests = {})

EdgeNext ==
    \/ InteractionInit /\ Next /\ UNCHANGED interactionVars
    \/ DOMAIN requests = {} /\ Init /\ InteractionNext /\ UNCHANGED vars

EdgeSpec == EdgeInit /\ [][EdgeNext]_<<vars, interactionVars>>

\* The tabs alone.
TabsSpec == EdgeInit /\ [][InteractionNext /\ UNCHANGED vars]_<<vars, interactionVars>>

=============================================================================
