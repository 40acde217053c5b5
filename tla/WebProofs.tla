------------------------------ MODULE WebProofs ------------------------------
(***************************************************************************)
(* Proofs about what agents send to and get from the web: the requests of  *)
(* SecurityProxy, the fetches of AdversaryDetector and their rate limits   *)
(* in TokenBucket, and the tool calls of Clashd.  They hold for any sets   *)
(* of requests, fetches, sources and calls, any rules, lists and policies, *)
(* and every setting of the switches.                                      *)
(*                                                                         *)
(* That the proxy implements SecretRelease rests on an invariant about     *)
(* what a request holds while others move: the gate is passed with a       *)
(* snapshot of the policies, the values are read one await at a time, and  *)
(* the request goes out much later, perhaps under another policy.          *)
(*                                                                         *)
(* What the detector delivers comes from the digest store, from the file   *)
(* it was reopened from after a crash, or from a scan whose verdict is     *)
(* still to be remembered: the invariant says of all three that they hold  *)
(* nothing but verdicts that were given and approvals that were made.      *)
(* That a policy is not stale needs the stamp of the cached tree, which is *)
(* never later than the text it was parsed from.                           *)
(*                                                                         *)
(* A bucket's tokens, and those its source has spent since any moment, are *)
(* together no more than the burst and what the rate earned up to the last *)
(* refill.  An answer of clashd speaks of the agents file it was given     *)
(* under, which is read once, before the first answer.                     *)
(***************************************************************************)
EXTENDS SecurityProxy, AdversaryDetector, TokenBucket, Clashd, FiniteSetTheorems,
        TLAPS

-----------------------------------------------------------------------------
(* The requests of SecurityProxy.                                          *)

Pairs == Secrets \X Hosts
Policy == [Secrets -> SUBSET Hosts]

Places == Parts \cup Over \cup
          {"idle", "policy", "scan", "inject", "fetch", "send", "response",
           "vault"}

ProxyTypeOK ==
  /\ pc \in [Reqs -> Places]
  /\ shape \in [Reqs -> ShapeSet]
  /\ snap \in [Reqs -> Policy \cup {NoSnap}]
  /\ todo \in [Reqs -> SUBSET Secrets]
  /\ held \in [Reqs -> SUBSET (Parts \X Secrets \X Nat)]
  /\ meta \in Policy
  /\ store \in [Secrets -> Nat]
  /\ writes \in Nat
  /\ window \in [Reqs -> SUBSET Pairs]

\* The identity behind r may use s, and s was allowed at its host at some
\* moment since r arrived.
Cleared(r, s) ==
  /\ allows(shape[r].agent, s)
  /\ shape[r].host # NoHost => <<s, shape[r].host>> \in window[r]

\* A request's window: empty before it arrives; then it holds what the
\* present policies allow and what those it loaded do.
WindowTrue ==
  \A r \in Reqs :
    /\ pc[r] = "idle" => window[r] = {} /\ snap[r] = NoSnap /\ held[r] = {}
    /\ pc[r] # "idle" => AllowedPairs(meta) \subseteq window[r]
    /\ snap[r] # NoSnap => AllowedPairs(snap[r]) \subseteq window[r]

\* References are resolved only in a part of the request, never in a body
\* that cannot be substituted, and only those that were cleared.
TodoTrue ==
  \A r \in Reqs :
    /\ todo[r] # {} => /\ pc[r] \in Parts
                       /\ pc[r] = "body" => shape[r].kind # "raw"
    /\ \A s \in todo[r] : Cleared(r, s)

\* Whatever a request holds was cleared.
HeldTrue ==
  \A r \in Reqs : \A x \in held[r] :
    /\ Cleared(r, x[2])
    /\ x[1] = "body" => shape[r].kind # "raw"

PInv ==
  /\ ProxyTypeOK
  /\ WindowTrue
  /\ TodoTrue
  /\ HeldTrue
  /\ RemoteSeesNoSecrets

-----------------------------------------------------------------------------

\* A part of a request is a set of secrets.
LEMMA PartsHoldSecrets ==
  ASSUME NEW q \in ShapeSet, NEW part \in Parts
  PROVE  q[part] \in SUBSET Secrets
<1>1. q.url \in SUBSET Secrets /\ q.header \in SUBSET Secrets /\ q.body \in SUBSET Secrets
  BY DEF ShapeSet
<1>2. CASE part = "url"
  BY <1>1, <1>2
<1>3. CASE part = "header"
  BY <1>1, <1>3
<1>4. CASE part = "body"
  BY <1>1, <1>4
<1> QED
  BY <1>2, <1>3, <1>4 DEF Parts

\* Where a handler goes from a part.
LEMMA AfterPart ==
  ASSUME NEW q, NEW part \in Parts
  PROVE  After(q, part) \in {"blocked", "header", "body", "policy"}
  BY DEF After, Parts

LEMMA InitPInv == Init => PInv
<1> SUFFICES ASSUME Init PROVE PInv
  OBVIOUS
<1> USE ProxyAssumption DEF Init
<1>1. ProxyTypeOK
  BY DEF ProxyTypeOK, Places, Policy
<1>2. WindowTrue /\ TodoTrue /\ HeldTrue /\ RemoteSeesNoSecrets
  BY DEF WindowTrue, TodoTrue, HeldTrue, RemoteSeesNoSecrets
<1> QED
  BY <1>1, <1>2 DEF PInv

-----------------------------------------------------------------------------
(* The kinds of steps.                                                     *)

\* Two shapes of one request: what the proxy strips of it does not show.
Same(q, q2) ==
  q2.agent = q.agent /\ q2.host = q.host /\ q2.kind = q.kind

\* A request that has nothing left to resolve moves on.
LEMMA MoveStep ==
  ASSUME PInv, NEW r \in Reqs, NEW p \in Places,
         pc[r] # "idle", p # "idle", pc' = [pc EXCEPT ![r] = p],
         todo' = [todo EXCEPT ![r] = {}],
         shape' \in [Reqs -> ShapeSet],
         \A i \in Reqs : Same(shape[i], shape'[i]),
         UNCHANGED <<snap, held, meta, store, writes, window, remote>>
  PROVE  PInv'
<1> USE DEF PInv
<1>1. ProxyTypeOK'
  BY DEF ProxyTypeOK
<1>2. \A i \in Reqs : \A s : Cleared(i, s) => Cleared(i, s)'
  BY DEF Same, Cleared, allows
<1>3. WindowTrue' /\ RemoteSeesNoSecrets'
  BY DEF WindowTrue, ProxyTypeOK, RemoteSeesNoSecrets, AllowedPairs,
         is_destination_allowed
<1>4. HeldTrue'
  BY <1>2 DEF HeldTrue, Same
<1>5. TodoTrue'
  BY <1>2 DEF TodoTrue, Same, ProxyTypeOK
<1> QED
  BY <1>1, <1>3, <1>4, <1>5

\* A request arrives.
LEMMA ArriveStep ==
  ASSUME PInv, NEW r \in Reqs, NEW p \in Places, p # "idle", Arrive(r, p)
  PROVE  PInv'
<1> USE DEF PInv, Arrive, Goto, world
<1>1. AllowedPairs(meta) \in SUBSET Pairs
  BY DEF AllowedPairs, Pairs
<1>2. ProxyTypeOK'
  BY <1>1 DEF ProxyTypeOK
<1>3. todo[r] = {} /\ held[r] = {} /\ snap[r] = NoSnap
  BY DEF TodoTrue, WindowTrue, Parts
<1>4. WindowTrue' /\ RemoteSeesNoSecrets'
  BY <1>3 DEF WindowTrue, ProxyTypeOK, RemoteSeesNoSecrets, AllowedPairs,
              is_destination_allowed
<1>5. \A i \in Reqs : i # r => \A s : Cleared(i, s) => Cleared(i, s)'
  BY DEF Cleared, allows, ProxyTypeOK
<1>6. HeldTrue' /\ TodoTrue'
  BY <1>3, <1>5 DEF HeldTrue, TodoTrue, ProxyTypeOK
<1> QED
  BY <1>2, <1>4, <1>6

\* The gate passes references of a part, or refuses the request.
LEMMA GateStep ==
  ASSUME PInv, NEW r \in Reqs, resolve_and_substitute(r)
  PROVE  PInv'
<1> USE DEF PInv
<1> DEFINE q == shape[r]
           names == q[pc[r]]
<1>1. /\ pc[r] \in Parts
      /\ q \in ShapeSet
      /\ ~(pc[r] = "body" /\ q.kind = "raw")
      /\ pc[r] # "idle"
  BY DEF resolve_and_substitute, ProxyTypeOK, Parts
<1>2. names \in SUBSET Secrets
  BY <1>1, PartsHoldSecrets
<1>3. /\ Loaded(r) \in Policy
      /\ AllowedPairs(Loaded(r)) \subseteq window[r]
  BY <1>1 DEF Loaded, WindowTrue, ProxyTypeOK
<1>4. UNCHANGED <<shape, held, meta, store, writes, window, remote>>
  BY DEF resolve_and_substitute, world
<1>5. /\ snap' = [snap EXCEPT ![r] = IF q.host = NoHost THEN @ ELSE Loaded(r)]
      /\ snap'[r] \in {snap[r], Loaded(r)}
      /\ \A i \in Reqs : i # r => snap'[i] = snap[i]
  BY DEF resolve_and_substitute, ProxyTypeOK
<1>6. \A i \in Reqs : \A s : Cleared(i, s)' <=> Cleared(i, s)
  BY <1>4 DEF Cleared, allows
<1>7. HeldTrue' /\ RemoteSeesNoSecrets'
  BY <1>4, <1>6 DEF HeldTrue, RemoteSeesNoSecrets
<1>8. snap' \in [Reqs -> Policy \cup {NoSnap}]
  BY <1>3, <1>5 DEF ProxyTypeOK
<1>9. /\ pc' = pc \/ pc' = [pc EXCEPT ![r] = "blocked"]
      /\ \A i \in Reqs : pc'[i] = "idle" <=> pc[i] = "idle"
      /\ pc' \in [Reqs -> Places]
  BY <1>1 DEF resolve_and_substitute, Goto, ProxyTypeOK, Places, Over
<1>10. WindowTrue'
  BY <1>1, <1>3, <1>4, <1>5, <1>9
  DEF WindowTrue, AllowedPairs, is_destination_allowed
<1>11. CASE /\ \A s \in names : ensure_secret_allowed_for_substitution(q, s, Loaded(r))
            /\ todo' = [todo EXCEPT ![r] = names] /\ UNCHANGED pc
  <2>1. \A s \in names : Cleared(r, s)
    <3> SUFFICES ASSUME NEW s \in names PROVE Cleared(r, s)
      OBVIOUS
    <3>1. allows(q.agent, s)
      BY <1>11 DEF ensure_secret_allowed_for_substitution
    <3>2. ASSUME q.host # NoHost PROVE <<s, q.host>> \in window[r]
      <4>1. q.host \in Hosts /\ s \in Secrets
        BY <1>1, <1>2, <3>2 DEF ShapeSet
      <4>2. is_destination_allowed(s, q.host, Loaded(r))
        BY <1>11, <3>2 DEF ensure_secret_allowed_for_substitution
      <4>3. <<s, q.host>> \in AllowedPairs(Loaded(r))
        BY <4>1, <4>2 DEF AllowedPairs
      <4> QED
        BY <4>3, <1>3
    <3> QED
      BY <3>1, <3>2 DEF Cleared
  <2>2. TodoTrue'
    BY <1>1, <1>4, <1>6, <1>11, <2>1 DEF TodoTrue, ProxyTypeOK
  <2>3. ProxyTypeOK'
    BY <1>2, <1>4, <1>8, <1>9, <1>11 DEF ProxyTypeOK
  <2> QED
    BY <2>2, <2>3, <1>7, <1>10
<1>12. CASE Goto(r, "blocked") /\ UNCHANGED todo
  <2>1. todo[r] = {}
    BY DEF resolve_and_substitute
  <2>2. TodoTrue'
    BY <1>4, <1>6, <1>12, <2>1 DEF TodoTrue, Goto, ProxyTypeOK
  <2>3. ProxyTypeOK'
    BY <1>4, <1>8, <1>9, <1>12 DEF ProxyTypeOK
  <2> QED
    BY <2>2, <2>3, <1>7, <1>10
<1> QED
  BY <1>11, <1>12 DEF resolve_and_substitute

\* A value is read, whatever the policies have become since the gate.
LEMMA ResolveStep ==
  ASSUME PInv, NEW r \in Reqs, NEW s \in Secrets, get_secret(r, s)
  PROVE  PInv'
<1> USE DEF PInv
<1>1. /\ s \in todo[r] /\ store[s] \in Nat
      /\ held' = [held EXCEPT ![r] = @ \cup {<<pc[r], s, store[s]>>}]
      /\ todo' = [todo EXCEPT ![r] = @ \ {s}]
      /\ UNCHANGED <<shape, snap, meta, store, writes, window, remote>>
  BY DEF get_secret, world, ProxyTypeOK
<1>2. pc[r] \in Parts /\ (pc[r] = "body" => shape[r].kind # "raw") /\ Cleared(r, s)
  BY <1>1 DEF TodoTrue
<1>3. /\ \/ pc' = pc
         \/ /\ todo[r] = {s}
            /\ \E p \in {"blocked", "header", "body", "policy"} : pc' = [pc EXCEPT ![r] = p]
      /\ \A i \in Reqs : pc'[i] = "idle" <=> pc[i] = "idle"
      /\ pc' \in [Reqs -> Places]
  <2>1. After(shape[r], pc[r]) \in {"blocked", "header", "body", "policy"}
    BY <1>2, AfterPart
  <2>2. \/ pc' = pc
        \/ /\ todo[r] = {s}
           /\ \E p \in {"blocked", "header", "body", "policy"} : pc' = [pc EXCEPT ![r] = p]
    BY <2>1 DEF get_secret, Goto
  <2> QED
    BY <1>2, <2>2 DEF ProxyTypeOK, Places, Over, Parts
<1>4. \A i \in Reqs : \A u : Cleared(i, u)' <=> Cleared(i, u)
  BY <1>1 DEF Cleared, allows
<1>5. ProxyTypeOK'
  <2>1. held' \in [Reqs -> SUBSET (Parts \X Secrets \X Nat)]
    <3>1. <<pc[r], s, store[s]>> \in Parts \X Secrets \X Nat
      BY <1>1, <1>2
    <3> QED
      BY <3>1, <1>1 DEF ProxyTypeOK
  <2>2. todo' \in [Reqs -> SUBSET Secrets]
    BY <1>1 DEF ProxyTypeOK
  <2> QED
    BY <1>1, <1>3, <2>1, <2>2 DEF ProxyTypeOK
<1>6. WindowTrue' /\ RemoteSeesNoSecrets'
  BY <1>1, <1>2, <1>3
  DEF WindowTrue, ProxyTypeOK, RemoteSeesNoSecrets, AllowedPairs,
      is_destination_allowed, Parts
<1>7. HeldTrue'
  <2> SUFFICES ASSUME NEW i \in Reqs, NEW x \in held'[i]
               PROVE  Cleared(i, x[2]) /\ (x[1] = "body" => shape[i].kind # "raw")
    BY <1>1, <1>4 DEF HeldTrue
  <2>1. CASE x \in held[i]
    BY <2>1 DEF HeldTrue
  <2>2. CASE x \notin held[i]
    <3>1. i = r /\ x = <<pc[r], s, store[s]>>
      BY <2>2, <1>1 DEF ProxyTypeOK
    <3> QED
      BY <3>1, <1>2
  <2> QED
    BY <2>1, <2>2
<1>8. TodoTrue'
  BY <1>1, <1>3, <1>4 DEF TodoTrue, ProxyTypeOK
<1> QED
  BY <1>5, <1>6, <1>7, <1>8

\* A paste rewrites the destinations of a secret.
LEMMA PolicyStep ==
  ASSUME PInv, NEW s \in Secrets, set_allowed_destinations(s)
  PROVE  PInv'
<1> USE DEF PInv
<1>1. /\ meta' \in Policy
      /\ writes' \in Nat
      /\ window' = [r \in Reqs |-> IF pc[r] = "idle" THEN {}
                                   ELSE window[r] \cup AllowedPairs(meta')]
      /\ UNCHANGED <<pc, shape, snap, todo, held, store, remote>>
  BY DEF set_allowed_destinations, ProxyTypeOK, Policy
<1>2. AllowedPairs(meta') \in SUBSET Pairs
  BY DEF AllowedPairs, Pairs
<1>3. ProxyTypeOK'
  BY <1>1, <1>2 DEF ProxyTypeOK
<1>4. \A r \in Reqs : window[r] \subseteq window'[r]
  BY <1>1 DEF WindowTrue
<1>5. WindowTrue' /\ RemoteSeesNoSecrets'
  BY <1>1, <1>4 DEF WindowTrue, RemoteSeesNoSecrets, AllowedPairs, is_destination_allowed
<1>6. \A i \in Reqs : \A u : Cleared(i, u) => Cleared(i, u)'
  BY <1>1, <1>4 DEF Cleared, allows
<1>7. HeldTrue' /\ TodoTrue'
  BY <1>1, <1>6 DEF HeldTrue, TodoTrue
<1> QED
  BY <1>3, <1>5, <1>7

-----------------------------------------------------------------------------

\* Every step of a handler or of a paste preserves the invariant.
LEMMA NextPInv == PInv /\ [Next]_vars => PInv'
<1> SUFFICES ASSUME PInv, [Next]_vars PROVE PInv'
  OBVIOUS
<1> USE DEF Goto, world
<1>0. /\ ProxyTypeOK
      /\ \A r \in Reqs : pc[r] \notin Parts => todo[r] = {}
      /\ \A r \in Reqs : todo[r] = {} => todo = [todo EXCEPT ![r] = {}]
      /\ \A i \in Reqs : Same(shape[i], shape[i])
  BY DEF PInv, ProxyTypeOK, TodoTrue, Same
<1>1. ASSUME NEW r \in Reqs,
             process_request(r) \/ intercept(r) \/ vault_response(r)
      PROVE  PInv'
  <2>1. \E p \in {"blocked", "url", "vault"} : Arrive(r, p)
    BY <1>1 DEF process_request, intercept, vault_response
  <2> QED
    BY <2>1, ArriveStep DEF Places, Parts, Over
<1>2. ASSUME NEW r \in Reqs, resolve_and_substitute(r)
      PROVE  PInv'
  BY <1>2, GateStep
<1>3. ASSUME NEW r \in Reqs, substitute_body(r)
      PROVE  PInv'
  <2>1. /\ pc[r] \in Parts /\ todo[r] = {}
        /\ UNCHANGED <<shape, snap, todo, held, meta, store, writes, window, remote>>
    BY <1>3 DEF substitute_body
  <2>2. After(shape[r], pc[r]) \in {"blocked", "header", "body", "policy"}
    BY <2>1, AfterPart
  <2>3. \E p \in {"blocked", "header", "body", "policy"} : pc' = [pc EXCEPT ![r] = p]
    BY <1>3, <2>2 DEF substitute_body
  <2> QED
    BY <2>1, <2>3, <1>0, MoveStep DEF Places, Parts, Over, ProxyTypeOK
<1>4. ASSUME NEW r \in Reqs, substitution_fails(r)
      PROVE  PInv'
  BY <1>4, <1>0, MoveStep
  DEF substitution_fails, Places, Parts, Over, ProxyTypeOK
<1>5. ASSUME NEW r \in Reqs, agent_web(r)
      PROVE  PInv'
  <2>1. /\ pc[r] = "policy" /\ todo' = todo
        /\ \E p \in {"blocked", "scan"} : pc' = [pc EXCEPT ![r] = p]
        /\ UNCHANGED <<snap, held, meta, store, writes, window, remote>>
        /\ \E b \in {"none", shape[r].browse} :
             shape' = [shape EXCEPT ![r].browse = b]
    BY <1>5 DEF agent_web
  <2>2. PICK b \in {"none", shape[r].browse} : shape' = [shape EXCEPT ![r].browse = b]
    BY <2>1
  <2>3. shape[r] \in ShapeSet /\ b \in {"none", "tool", "model"}
    BY <1>0 DEF ProxyTypeOK, ShapeSet
  <2>4. [shape[r] EXCEPT !.browse = b] \in ShapeSet /\ Same(shape[r], [shape[r] EXCEPT !.browse = b])
    BY <2>3 DEF ShapeSet, Same
  <2>5. shape' \in [Reqs -> ShapeSet] /\ \A i \in Reqs : Same(shape[i], shape'[i])
    BY <1>0, <2>2, <2>4 DEF ProxyTypeOK
  <2> QED
    BY <2>1, <2>5, <1>0, MoveStep DEF Places, Parts, Over
<1>6. ASSUME NEW r \in Reqs, scan_outbound(r)
      PROVE  PInv'
  <2>1. /\ pc[r] = "scan"
        /\ \E p \in {"blocked", "inject"} : pc' = [pc EXCEPT ![r] = p]
        /\ UNCHANGED <<shape, snap, todo, held, meta, store, writes, window>>
    BY <1>6 DEF scan_outbound
  <2>2. shape[r].kind # "none" => remote_scan_body(r) = {}
    BY <1>0 DEF PInv, HeldTrue, remote_scan_body, ProxyTypeOK, ShapeSet
  <2>3. remote' = remote
    BY <1>6, <2>2 DEF scan_outbound, ScansOfMitm, ScansOfIntercept
  <2> QED
    BY <2>1, <2>3, <1>0, MoveStep DEF Places, Parts, Over, ProxyTypeOK
<1>7. ASSUME NEW r \in Reqs,
             \/ injections_for_host(r) \/ resolve_secret(r) \/ forward(r)
             \/ upstream_fails(r) \/ process_response(r) \/ vault_json_response(r)
      PROVE  PInv'
  <2>1. /\ pc[r] \in {"inject", "fetch", "send", "response", "vault"}
        /\ \E p \in {"send", "fetch", "response", "failed", "blocked", "answered"} :
             pc' = [pc EXCEPT ![r] = p]
        /\ UNCHANGED <<shape, snap, todo, held, meta, store, writes, window, remote>>
    BY <1>7
    DEF injections_for_host, resolve_secret, forward, upstream_fails,
        process_response, vault_json_response
  <2> QED
    BY <2>1, <1>0, MoveStep DEF Places, Parts, Over, ProxyTypeOK
<1>8. ASSUME NEW r \in Reqs, NEW s \in Secrets, get_secret(r, s)
      PROVE  PInv'
  BY <1>8, ResolveStep
<1>9. ASSUME NEW s \in Secrets, set_allowed_destinations(s)
      PROVE  PInv'
  BY <1>9, PolicyStep
<1>10. CASE \/ \E s \in Secrets : set(s) \/ credential_expires(s)
            \/ UNCHANGED vars
  <2>1. /\ UNCHANGED <<pc, shape, snap, todo, held, meta, writes, window, remote>>
        /\ store' \in [Secrets -> Nat]
    BY <1>10, <1>0 DEF set, credential_expires, vars, ProxyTypeOK
  <2>2. ProxyTypeOK'
    BY <1>0, <2>1 DEF ProxyTypeOK
  <2>3. WindowTrue' /\ RemoteSeesNoSecrets'
    BY <2>1
    DEF PInv, WindowTrue, RemoteSeesNoSecrets, AllowedPairs, is_destination_allowed
  <2>4. \A i \in Reqs : \A u : Cleared(i, u)' <=> Cleared(i, u)
    BY <2>1 DEF Cleared, allows
  <2>5. TodoTrue' /\ HeldTrue'
    BY <2>1, <2>4 DEF PInv, TodoTrue, HeldTrue
  <2> QED
    BY <2>2, <2>3, <2>5 DEF PInv
<1> QED
  BY <1>1, <1>2, <1>3, <1>4, <1>5, <1>6, <1>7, <1>8, <1>9, <1>10 DEF Next

LEMMA AlwaysPInv == Spec => []PInv
  BY InitPInv, NextPInv, PTL DEF Spec

-----------------------------------------------------------------------------

\* Every answered or refused request, every paste and every scan leaves the
\* remote scanner without a substituted value (remote_scan_body).
THEOREM NoSecretIsScannedRemotely == Spec => []RemoteSeesNoSecrets
<1>1. PInv => RemoteSeesNoSecrets
  BY DEF PInv
<1> QED
  BY <1>1, AlwaysPInv, PTL

-----------------------------------------------------------------------------
(* The refinement of SecretRelease.  The identities behind requests never   *)
(* change; an arrival, a change of a policy and a request that goes out are *)
(* steps of the abstract specification, everything else stutters.           *)

\* Who may use what.
May == {x \in Reqs \X Secrets : allows(shape[x[1]].agent, x[2])}

LEMMA AbstractInit == Init => SR!Init
<1> SUFFICES ASSUME Init PROVE SR!Init
  OBVIOUS
<1>1. AllowedPairs(meta) \in SUBSET Pairs
  BY DEF AllowedPairs, Pairs
<1> QED
  BY <1>1 DEF Init, SR!Init, SR!Pairs, Pairs

\* A step that keeps identities, policies, windows and what was sent.
LEMMA StutterStep ==
  ASSUME \A i \in Reqs : shape'[i].agent = shape[i].agent,
         UNCHANGED <<meta, window, sent>>
  PROVE  UNCHANGED SR!vars
<1>1. May' = May
  BY DEF May, allows
<1>2. AllowedPairs(meta)' = AllowedPairs(meta)
  BY DEF AllowedPairs, is_destination_allowed
<1> QED
  BY <1>1, <1>2 DEF SR!vars, May

\* What goes out was cleared, so it may be released.
LEMMA ForwardReleases ==
  ASSUME PInv, NEW r \in Reqs, forward(r)
  PROVE  [SR!Next]_(SR!vars)
<1> DEFINE h == shape[r].host
           going == {x[2] : x \in held[r]}
<1>1. UNCHANGED <<shape, meta, window>>
  BY DEF forward, world
<1>2. May' = May /\ AllowedPairs(meta)' = AllowedPairs(meta)
  BY <1>1 DEF May, allows, AllowedPairs, is_destination_allowed
<1>3. CASE h = NoHost
  BY <1>1, <1>3, StutterStep DEF forward
<1>4. CASE h # NoHost
  <2>1. h \in Hosts
    BY <1>4 DEF PInv, ProxyTypeOK, ShapeSet
  <2>2. held[r] \subseteq Parts \X Secrets \X Nat
    BY DEF PInv, ProxyTypeOK
  <2>3. going \in SUBSET Secrets
    BY <2>2
  <2>4. going \X {h} \subseteq window[r]
    BY <1>4 DEF PInv, HeldTrue, Cleared
  <2>5. {r} \X going \subseteq May
    BY <2>2 DEF PInv, HeldTrue, Cleared, May
  <2>6. sent' = sent \cup ({r} \X going \X {h})
    <3>1. {<<r, x[2], h>> : x \in held[r]} = {r} \X going \X {h}
      OBVIOUS
    <3> QED
      BY <3>1, <1>4 DEF forward
  <2>7. SR!Release(r)
    BY <1>1, <1>2, <2>1, <2>3, <2>4, <2>5, <2>6 DEF SR!Release, May
  <2> QED
    BY <2>7 DEF SR!Next
<1> QED
  BY <1>3, <1>4

LEMMA AbstractNext == PInv /\ [Next]_vars => [SR!Next]_(SR!vars)
<1> SUFFICES ASSUME PInv, [Next]_vars PROVE [SR!Next]_(SR!vars)
  OBVIOUS
<1>1. ASSUME NEW r \in Reqs,
             process_request(r) \/ intercept(r) \/ vault_response(r)
      PROVE  [SR!Next]_(SR!vars)
  <2>1. /\ pc[r] = "idle"
        /\ window' = [window EXCEPT ![r] = AllowedPairs(meta)]
        /\ UNCHANGED <<shape, meta, sent>>
    BY <1>1 DEF process_request, intercept, vault_response, Arrive, world
  <2>2. May' = May /\ AllowedPairs(meta)' = AllowedPairs(meta)
    BY <2>1 DEF May, allows, AllowedPairs, is_destination_allowed
  <2>3. window[r] = {}
    BY <2>1 DEF PInv, WindowTrue
  <2>4. SR!Arrive(r)
    BY <2>1, <2>2, <2>3 DEF SR!Arrive, May
  <2> QED
    BY <2>4 DEF SR!Next
<1>2. ASSUME NEW s \in Secrets, set_allowed_destinations(s)
      PROVE  [SR!Next]_(SR!vars)
  <2> DEFINE arrived == {r \in Reqs : pc[r] # "idle"}
             p == AllowedPairs(meta')
  <2>1. /\ window' = [r \in Reqs |-> IF pc[r] = "idle" THEN {}
                                     ELSE window[r] \cup AllowedPairs(meta')]
        /\ UNCHANGED <<shape, sent>>
    BY <1>2 DEF set_allowed_destinations
  <2>2. window' = [r \in Reqs |-> IF r \in arrived THEN window[r] \cup p ELSE window[r]]
    BY <2>1 DEF PInv, WindowTrue
  <2>3. May' = May
    BY <2>1 DEF May, allows
  <2>4. p \in SUBSET SR!Pairs /\ AllowedPairs(meta)' = p
    BY DEF AllowedPairs, SR!Pairs, is_destination_allowed
  <2>5. SR!ChangePolicy
    BY <2>1, <2>2, <2>3, <2>4 DEF SR!ChangePolicy, May
  <2> QED
    BY <2>5 DEF SR!Next
<1>3. ASSUME NEW r \in Reqs, forward(r)
      PROVE  [SR!Next]_(SR!vars)
  BY <1>3, ForwardReleases
<1>4. ASSUME NEW r \in Reqs, agent_web(r)
      PROVE  [SR!Next]_(SR!vars)
  <2>1. \A i \in Reqs : shape'[i].agent = shape[i].agent
    BY <1>4 DEF agent_web, PInv, ProxyTypeOK, ShapeSet
  <2> QED
    BY <1>4, <2>1, StutterStep DEF agent_web, world
<1>5. ASSUME NEW r \in Reqs,
             \/ resolve_and_substitute(r) \/ substitute_body(r)
             \/ substitution_fails(r) \/ scan_outbound(r)
             \/ injections_for_host(r) \/ resolve_secret(r)
             \/ upstream_fails(r) \/ process_response(r)
             \/ vault_json_response(r) \/ \E s \in Secrets : get_secret(r, s)
      PROVE  [SR!Next]_(SR!vars)
  <2>1. UNCHANGED <<shape, meta, window, sent>>
    BY <1>5
    DEF resolve_and_substitute, substitute_body, substitution_fails,
        scan_outbound, injections_for_host, resolve_secret, upstream_fails,
        process_response, vault_json_response, get_secret, world
  <2> QED
    BY <2>1, StutterStep
<1>6. CASE \/ \E s \in Secrets : set(s) \/ credential_expires(s)
           \/ UNCHANGED vars
  <2>1. UNCHANGED <<shape, meta, window, sent>>
    BY <1>6 DEF set, credential_expires, vars, world
  <2> QED
    BY <2>1, StutterStep
<1> QED
  BY <1>1, <1>2, <1>3, <1>4, <1>5, <1>6 DEF Next

\* The proxy implements SecretRelease: whatever it sends upstream the
\* identity may use and was allowed at that host at some moment since the
\* request arrived, for both handlers and however pastes interleave.
THEOREM ProxyImplementsRelease == Spec => Releases
  BY AbstractInit, AbstractNext, AlwaysPInv, PTL DEF Spec, Releases, SR!Spec

-----------------------------------------------------------------------------
(* The fetches of AdversaryDetector.                                       *)

Place == {"idle", "get", "lookup", "stat", "read", "set", "flush", "done", "refused"}
Job   == [kind : {"fetch", "tool"}, url : Urls,
          content : Contents \cup {None}, verdict : Verdicts \cup {None}]
Known == [Urls -> Entries \cup {None}]
Tree  == [stamp : Nat, version : Nat]

DetectorTypeOK ==
  /\ at \in [Fetches -> Place]
  /\ job \in [Fetches -> Job]
  /\ seen \in [Fetches -> Nat] /\ used \in [Fetches -> Nat]
  /\ policy \in Nat
  /\ ast # None => ast \in Tree
  /\ entries \in Known
  /\ file # None => file \in Known

\* A call has run no policy before its scan, and the tree in the cache is no
\* older than its stamp.
TreeIsFresh ==
  /\ \A f \in Fetches :
       /\ seen[f] <= policy
       /\ at[f] \in {"idle", "get", "lookup", "stat", "read"} => used[f] = 0
  /\ ast # None => ast.stamp <= ast.version

\* Every entry of a store has a verdict that was given, and an approval, if
\* it has one, that was made.
Founded(digests) ==
  \A u \in Urls : digests[u] # None =>
    /\ <<u, digests[u].content, digests[u].verdict>> \in judged
    /\ digests[u].approved => <<u, digests[u].content>> \in approvals

\* So have the store and the file, which are the same between two flushes.
StoreIsFounded ==
  /\ Founded(entries)
  /\ file # None => Founded(file)
  /\ lock = None /\ file # None => file = entries

\* A call between its scan and its answer has a verdict that was given.
ScansAreJudged ==
  \A f \in Fetches :
    /\ at[f] \in {"lookup", "stat", "read", "set", "flush"} => job[f].content \in Contents
    /\ at[f] \in {"set", "flush"} =>
         /\ job[f].verdict \in Verdicts
         /\ <<job[f].url, job[f].content, job[f].verdict>> \in judged

DInv ==
  /\ DetectorTypeOK
  /\ TreeIsFresh /\ PolicyNotStale
  /\ StoreIsFounded
  /\ ScansAreJudged
  /\ DeliveredWasJudged

-----------------------------------------------------------------------------

LEMMA InitDInv == DetectorInit => DInv
<1> SUFFICES ASSUME DetectorInit PROVE DInv
  OBVIOUS
<1> USE DEF DetectorInit
<1>1. DetectorTypeOK
  BY DEF DetectorTypeOK, Place, Job, Known, Empty
<1>2. TreeIsFresh /\ PolicyNotStale
  BY DEF TreeIsFresh, PolicyNotStale
<1>3. StoreIsFounded
  BY DEF StoreIsFounded, Founded, Empty
<1>4. ScansAreJudged /\ DeliveredWasJudged
  BY DEF ScansAreJudged, DeliveredWasJudged
<1> QED
  BY <1>1, <1>2, <1>3, <1>4 DEF DInv

-----------------------------------------------------------------------------
(* What the steps have in common.                                          *)

\* The store with one more entry.
LEMMA FoundedWith ==
  ASSUME NEW old \in Known, Founded(old), NEW u \in Urls, NEW e \in Entries, NEW new,
         new = [old EXCEPT ![u] = e],
         judged \subseteq judged', approvals \subseteq approvals',
         <<u, e.content, e.verdict>> \in judged',
         e.approved => <<u, e.content>> \in approvals'
  PROVE  /\ new \in Known
         /\ \A v \in Urls : new[v] # None =>
              /\ <<v, new[v].content, new[v].verdict>> \in judged'
              /\ new[v].approved => <<v, new[v].content>> \in approvals'
<1>1. new \in Known /\ new[u] = e /\ \A v \in Urls : v # u => new[v] = old[v]
  BY DEF Known
<1> QED
  BY <1>1 DEF Founded

\* What was delivered stays judged, and so does what is delivered now if
\* it is.
LEMMA DeliveryStays ==
  ASSUME DeliveredWasJudged, UNCHANGED out,
         judged \subseteq judged', approvals \subseteq approvals'
  PROVE  DeliveredWasJudged'
BY DEF DeliveredWasJudged

LEMMA DeliveryIsJudged ==
  ASSUME DeliveredWasJudged, NEW f, NEW c, NEW result, Deliver(f, c, result),
         judged \subseteq judged', approvals \subseteq approvals',
         result = "ok" /\ job[f].url \notin Protected =>
           \/ <<job[f].url, c, "clean">> \in judged'
           \/ OverrideOnReview /\ <<job[f].url, c, "review">> \in judged'
           \/ <<job[f].url, c>> \in approvals'
  PROVE  DeliveredWasJudged'
BY DEF DeliveredWasJudged, Deliver

\* A verdict lets content pass only if it is clean, in review where that is
\* overridden, or approved.
LEMMA ResultIsEarned ==
  ASSUME NEW verdict \in Verdicts, NEW approved \in BOOLEAN,
         result_from_verdict(verdict, approved) = "ok"
  PROVE  approved \/ verdict = "clean" \/ (OverrideOnReview /\ verdict = "review")
BY DEF result_from_verdict, Verdicts

LEMMA ScanHasVerdict == \A result \in ScanResults : result.verdict \in Verdicts
BY DEF ScanResults, Verdicts, scan_with_remote_payload

-----------------------------------------------------------------------------
(* The steps of a call.                                                    *)

\* A call that moves, with nothing else changed, from where it had nothing
\* to where nothing is asked of it.
LEMMA FetchStep ==
  ASSUME DInv, NEW f \in Fetches, fetch(f)
  PROVE  DInv'
<1> USE DEF DInv, fetch, persistent, Continue
<1>1. /\ at' \in [Fetches -> Place] /\ at'[f] \in {"get", "refused"}
      /\ \A g \in Fetches : g # f => at'[g] = at[g]
  BY DEF DetectorTypeOK, Place
<1>2. DetectorTypeOK'
  BY <1>1 DEF DetectorTypeOK
<1>3. TreeIsFresh' /\ PolicyNotStale'
  BY <1>1 DEF TreeIsFresh, PolicyNotStale
<1>4. StoreIsFounded' /\ DeliveredWasJudged'
  <2>1. UNCHANGED <<entries, file, lock, judged, approvals, out, job, policy>>
    OBVIOUS
  <2>2. StoreIsFounded'
    BY <2>1 DEF StoreIsFounded, Founded
  <2>3. DeliveredWasJudged'
    BY <2>1 DEF DeliveredWasJudged
  <2> QED
    BY <2>2, <2>3
<1>5. ScansAreJudged'
  BY <1>1 DEF ScansAreJudged
<1> QED
  BY <1>2, <1>3, <1>4, <1>5

LEMMA GetStep ==
  ASSUME DInv, NEW f \in Fetches, http_get(f)
  PROVE  DInv'
<1> USE DEF DInv, http_get, persistent
<1>1. /\ job' \in [Fetches -> Job] /\ at' \in [Fetches -> Place]
      /\ at'[f] \in {"lookup", "done", "refused"}
      /\ at'[f] = "lookup" => job'[f].content \in Contents
      /\ \A g \in Fetches : g # f => at'[g] = at[g] /\ job'[g] = job[g]
  <2>1. job \in [Fetches -> Job] /\ at \in [Fetches -> Place]
    BY DEF DetectorTypeOK
  <2>2. CASE Continue(f, "refused") /\ UNCHANGED <<job, out>>
    BY <2>1, <2>2 DEF Continue, Place
  <2>3. CASE \E c \in Contents :
               /\ job' = [job EXCEPT ![f].content = c]
               /\ IF job[f].url \in Protected THEN Deliver(f, c, "ok")
                  ELSE Continue(f, "lookup") /\ UNCHANGED out
    <3>1. PICK c \in Contents :
            /\ job' = [job EXCEPT ![f].content = c]
            /\ Continue(f, "done") \/ Continue(f, "lookup")
      BY <2>3 DEF Deliver
    <3>2. job' \in [Fetches -> Job] /\ job'[f].content = c
          /\ \A g \in Fetches : g # f => job'[g] = job[g]
      BY <2>1, <3>1 DEF Job
    <3>3. /\ at' \in [Fetches -> Place] /\ at'[f] \in {"lookup", "done"}
          /\ \A g \in Fetches : g # f => at'[g] = at[g]
      BY <2>1, <3>1 DEF Continue, Place
    <3> QED
      BY <3>2, <3>3
  <2> QED
    BY <2>2, <2>3
<1>2. DetectorTypeOK'
  BY <1>1 DEF DetectorTypeOK
<1>3. TreeIsFresh' /\ PolicyNotStale'
  BY <1>1 DEF TreeIsFresh, PolicyNotStale
<1>4. StoreIsFounded'
  BY DEF StoreIsFounded, Founded
<1>5. ScansAreJudged'
  BY <1>1 DEF ScansAreJudged
<1>6. DeliveredWasJudged'
  <2>1. CASE UNCHANGED out
    BY <2>1, DeliveryStays
  <2>2. CASE job[f].url \in Protected /\ \E c \in Contents : Deliver(f, c, "ok")
    BY <2>2, DeliveryIsJudged
  <2> QED
    BY <2>1, <2>2
<1> QED
  BY <1>2, <1>3, <1>4, <1>5, <1>6

LEMMA LookupStep ==
  ASSUME DInv, NEW f \in Fetches, lookup(f)
  PROVE  DInv'
<1> USE DEF DInv, lookup, persistent
<1>1. /\ at' \in [Fetches -> Place] /\ at'[f] \in {"stat", "done"}
      /\ \A g \in Fetches : g # f => at'[g] = at[g]
  BY DEF DetectorTypeOK, Place, Continue, Deliver
<1>2. DetectorTypeOK'
  BY <1>1 DEF DetectorTypeOK
<1>3. TreeIsFresh' /\ PolicyNotStale'
  BY <1>1 DEF TreeIsFresh, PolicyNotStale
<1>4. StoreIsFounded'
  BY DEF StoreIsFounded, Founded
<1>5. ScansAreJudged'
  BY <1>1 DEF ScansAreJudged
<1>6. DeliveredWasJudged'
  <2> DEFINE u == job[f].url
             c == job[f].content
  <2>1. CASE Hit(u, c)
    <3>1. u \in Urls /\ entries[u] # None /\ entries[u].content = c
      BY <2>1 DEF Hit, DetectorTypeOK, Job
    <3>2. entries[u].verdict \in Verdicts /\ entries[u].approved \in BOOLEAN
      BY <3>1 DEF DetectorTypeOK, Known, Entries
    <3>3. /\ <<u, c, entries[u].verdict>> \in judged
          /\ entries[u].approved => <<u, c>> \in approvals
      BY <3>1 DEF StoreIsFounded, Founded
    <3>4. Deliver(f, c, result_from_verdict(entries[u].verdict, entries[u].approved))
      BY <2>1
    <3> QED
      BY <3>2, <3>3, <3>4, ResultIsEarned, DeliveryIsJudged
  <2>2. CASE ~Hit(u, c)
    BY <2>2, DeliveryStays
  <2> QED
    BY <2>1, <2>2
<1> QED
  BY <1>2, <1>3, <1>4, <1>5, <1>6

LEMMA ToolStep ==
  ASSUME DInv, NEW f \in Fetches, on_tool_result(f)
  PROVE  DInv'
<1> USE DEF DInv, on_tool_result, persistent
<1>1. /\ job' \in [Fetches -> Job] /\ at' \in [Fetches -> Place]
      /\ at'[f] \in {"stat", "done"} /\ job'[f].content \in Contents
      /\ \A g \in Fetches : g # f => at'[g] = at[g] /\ job'[g] = job[g]
  <2>1. PICK c \in Contents : job' = [job EXCEPT ![f].content = c]
    OBVIOUS
  <2>2. /\ job' \in [Fetches -> Job] /\ job'[f].content = c
        /\ \A g \in Fetches : g # f => job'[g] = job[g]
    BY <2>1 DEF DetectorTypeOK, Job
  <2>3. at' = [at EXCEPT ![f] = "stat"] \/ at' = [at EXCEPT ![f] = "done"]
    BY DEF Continue, Deliver
  <2> QED
    BY <2>2, <2>3 DEF DetectorTypeOK, Place
<1>2. DetectorTypeOK'
  BY <1>1 DEF DetectorTypeOK
<1>3. TreeIsFresh' /\ PolicyNotStale'
  BY <1>1 DEF TreeIsFresh, PolicyNotStale
<1>4. StoreIsFounded'
  BY DEF StoreIsFounded, Founded
<1>5. ScansAreJudged'
  BY <1>1 DEF ScansAreJudged
<1>6. DeliveredWasJudged'
  <2>1. CASE UNCHANGED out
    BY <2>1, DeliveryStays
  <2>2. CASE \E c \in Contents : Deliver(f, c, "unscanned")
    BY <2>2, DeliveryIsJudged
  <2> QED
    BY <2>1, <2>2
<1> QED
  BY <1>2, <1>3, <1>4, <1>5, <1>6

LEMMA StatStep ==
  ASSUME DInv, NEW f \in Fetches, Stat(f)
  PROVE  DInv'
<1> USE DEF DInv, Stat, persistent, Continue
<1>1. /\ at' \in [Fetches -> Place] /\ at'[f] = "read"
      /\ seen' \in [Fetches -> Nat] /\ seen'[f] = policy
      /\ \A g \in Fetches : g # f => at'[g] = at[g] /\ seen'[g] = seen[g]
  BY DEF DetectorTypeOK, Place
<1>2. DetectorTypeOK'
  BY <1>1 DEF DetectorTypeOK
<1>3. TreeIsFresh' /\ PolicyNotStale'
  BY <1>1 DEF TreeIsFresh, PolicyNotStale, DetectorTypeOK
<1>4. StoreIsFounded' /\ DeliveredWasJudged'
  BY DEF StoreIsFounded, Founded, DeliveredWasJudged
<1>5. ScansAreJudged'
  BY <1>1 DEF ScansAreJudged
<1> QED
  BY <1>2, <1>3, <1>4, <1>5

\* The tree a scan runs is at least as new as the file it looked at.
LEMMA TreeStep ==
  ASSUME DInv, NEW f \in Fetches
  PROVE  /\ load_starlark_ast(f) \in Tree
         /\ load_starlark_ast(f).stamp = seen[f]
         /\ seen[f] <= load_starlark_ast(f).version
<1>1. seen[f] \in Nat /\ policy \in Nat /\ seen[f] <= policy
  BY DEF DInv, DetectorTypeOK, TreeIsFresh
<1>2. ast # None => ast \in Tree /\ ast.stamp <= ast.version
  BY DEF DInv, DetectorTypeOK, TreeIsFresh
<1> QED
  BY <1>1, <1>2 DEF load_starlark_ast, Tree

LEMMA ScanStep ==
  ASSUME DInv, NEW f \in Fetches, scan(f)
  PROVE  DInv'
<1> USE DEF DInv, persistent
<1>1. PICK result \in ScanResults :
        /\ job' = [job EXCEPT ![f].verdict = result.verdict]
        /\ judged' = judged \cup {<<job[f].url, job[f].content, result.verdict>>}
        /\ IF job[f].kind = "fetch" THEN Continue(f, "set") /\ UNCHANGED out
           ELSE Deliver(f, job[f].content,
                        CASE result.verdict = "clean" -> "ok"
                          [] result.verdict = "review" -> "review"
                          [] result.verdict = "unsafe" -> "blocked")
  BY DEF scan
<1>2. result.verdict \in Verdicts
  BY ScanHasVerdict
<1>3. /\ at[f] = "read" /\ ast' = load_starlark_ast(f)
      /\ used' = [used EXCEPT ![f] = load_starlark_ast(f).version]
      /\ UNCHANGED <<seen, policy, entries, lock, file, approvals>>
  BY DEF scan
<1>4. /\ ast' \in Tree /\ ast'.stamp = seen[f] /\ seen[f] <= ast'.version
      /\ used' = [used EXCEPT ![f] = ast'.version]
  BY <1>3, TreeStep
<1>5. ast'.version \in Nat
  BY <1>4 DEF Tree
<1>6. /\ used' \in [Fetches -> Nat] /\ used'[f] = ast'.version
      /\ \A g \in Fetches : g # f => used'[g] = used[g]
  BY <1>4, <1>5 DEF DetectorTypeOK
<1>7. /\ job' \in [Fetches -> Job]
      /\ job'[f].content = job[f].content /\ job'[f].url = job[f].url
      /\ job'[f].verdict = result.verdict
      /\ \A g \in Fetches : g # f => job'[g] = job[g]
  BY <1>1, <1>2 DEF DetectorTypeOK, Job
<1>8. /\ at' \in [Fetches -> Place] /\ at'[f] \in {"set", "done"}
      /\ \A g \in Fetches : g # f => at'[g] = at[g]
  BY <1>1 DEF DetectorTypeOK, Place, Continue, Deliver
<1>9. DetectorTypeOK'
  BY <1>3, <1>4, <1>6, <1>7, <1>8 DEF DetectorTypeOK
<1>10. TreeIsFresh' /\ PolicyNotStale'
  BY <1>3, <1>4, <1>6, <1>8 DEF TreeIsFresh, PolicyNotStale
<1>11. judged \subseteq judged' /\ approvals \subseteq approvals'
  BY <1>1, <1>3
<1>12. StoreIsFounded'
  BY <1>3, <1>11 DEF StoreIsFounded, Founded
<1>13. ScansAreJudged'
  <2>1. job[f].content \in Contents
    BY <1>3 DEF ScansAreJudged
  <2>2. <<job'[f].url, job'[f].content, job'[f].verdict>> \in judged'
    BY <1>1, <1>7
  <2> QED
    BY <1>2, <1>7, <1>8, <1>11, <2>1, <2>2 DEF ScansAreJudged
<1>14. DeliveredWasJudged'
  <2>1. CASE job[f].kind = "fetch"
    BY <1>1, <1>11, <2>1, DeliveryStays
  <2>2. CASE job[f].kind # "fetch"
    <3> DEFINE r == CASE result.verdict = "clean" -> "ok"
                      [] result.verdict = "review" -> "review"
                      [] result.verdict = "unsafe" -> "blocked"
    <3>1. r = "ok" => result.verdict = "clean"
      BY <1>2 DEF Verdicts
    <3>2. Deliver(f, job[f].content, r)
      BY <1>1, <2>2
    <3>3. result.verdict = "clean" => <<job[f].url, job[f].content, "clean">> \in judged'
      BY <1>1
    <3> HIDE DEF r
    <3> QED
      BY <1>11, <3>1, <3>2, <3>3, DeliveryIsJudged
  <2> QED
    BY <2>1, <2>2
<1> QED
  BY <1>9, <1>10, <1>12, <1>13, <1>14

-----------------------------------------------------------------------------
(* The store.                                                              *)

LEMMA SetStep ==
  ASSUME DInv, NEW f \in Fetches, digest_set(f)
  PROVE  DInv'
<1> USE DEF DInv, digest_set, Continue
<1> DEFINE u == job[f].url
           e == [content |-> job[f].content, verdict |-> job[f].verdict,
                 approved |-> FALSE, fresh |-> TRUE]
<1>1. /\ at' \in [Fetches -> Place] /\ at'[f] = "flush"
      /\ \A g \in Fetches : g # f => at'[g] = at[g]
  BY DEF DetectorTypeOK, Place
<1>2. u \in Urls /\ e \in Entries
  BY DEF DetectorTypeOK, Job, ScansAreJudged, Entries
<1>3. <<u, e.content, e.verdict>> \in judged' /\ ~e.approved
  BY DEF ScansAreJudged
<1>4. entries' = [entries EXCEPT ![u] = e] /\ entries \in Known /\ Founded(entries)
  BY DEF DetectorTypeOK, StoreIsFounded
<1>5. judged' = judged /\ approvals' = approvals
  OBVIOUS
<1> HIDE DEF u, e
<1>6. entries' \in Known /\ Founded(entries)'
  BY <1>2, <1>3, <1>4, <1>5, FoundedWith DEF Founded
<1>7. lock' = f /\ file' = None /\ f # None
  BY DetectorAssumption
<1>8. DetectorTypeOK'
  BY <1>1, <1>6, <1>7 DEF DetectorTypeOK
<1>9. TreeIsFresh' /\ PolicyNotStale'
  BY <1>1 DEF TreeIsFresh, PolicyNotStale
<1>10. StoreIsFounded'
  BY <1>6, <1>7 DEF StoreIsFounded
<1>11. ScansAreJudged'
  BY <1>1 DEF ScansAreJudged
<1>12. DeliveredWasJudged'
  BY DEF DeliveredWasJudged
<1> QED
  BY <1>8, <1>9, <1>10, <1>11, <1>12

LEMMA FlushStep ==
  ASSUME DInv, NEW f \in Fetches, flush(f)
  PROVE  DInv'
<1> USE DEF DInv, flush
<1>1. /\ at' \in [Fetches -> Place] /\ at'[f] = "done"
      /\ \A g \in Fetches : g # f => at'[g] = at[g]
  BY DEF DetectorTypeOK, Place, Continue, Deliver
<1>2. DetectorTypeOK'
  BY <1>1 DEF DetectorTypeOK
<1>3. TreeIsFresh' /\ PolicyNotStale'
  BY <1>1 DEF TreeIsFresh, PolicyNotStale
<1>4. StoreIsFounded'
  BY DEF StoreIsFounded, Founded
<1>5. ScansAreJudged'
  BY <1>1 DEF ScansAreJudged
<1>6. DeliveredWasJudged'
  <2>1. /\ job[f].verdict \in Verdicts
        /\ <<job[f].url, job[f].content, job[f].verdict>> \in judged
    BY DEF ScansAreJudged
  <2>2. Deliver(f, job[f].content, result_from_verdict(job[f].verdict, FALSE))
    OBVIOUS
  <2> QED
    BY <2>1, <2>2, ResultIsEarned, DeliveryIsJudged
<1> QED
  BY <1>2, <1>3, <1>4, <1>5, <1>6

LEMMA OverrideStep ==
  ASSUME DInv, NEW u \in Urls, NEW c \in Contents, mark_override(u, c)
  PROVE  DInv'
<1> USE DEF DInv, mark_override
<1>1. TreeIsFresh' /\ PolicyNotStale' /\ ScansAreJudged'
  BY DEF TreeIsFresh, PolicyNotStale, ScansAreJudged
<1>2. UNCHANGED out /\ judged \subseteq judged' /\ approvals \subseteq approvals'
  OBVIOUS
<1>3. DeliveredWasJudged'
  BY <1>2, DeliveryStays
<1>4. CASE entries[u] # None /\ entries[u].content = c
  <2> DEFINE e == [entries[u] EXCEPT !.approved = TRUE]
  <2>1. entries[u] \in Entries
    BY <1>4 DEF DetectorTypeOK, Known
  <2>2. /\ e \in Entries /\ e.content = entries[u].content
        /\ e.verdict = entries[u].verdict /\ e.approved
    BY <2>1 DEF Entries
  <2>3. <<u, e.content, e.verdict>> \in judged' /\ <<u, e.content>> \in approvals'
    BY <1>4, <2>2 DEF StoreIsFounded, Founded
  <2>4. entries' = [entries EXCEPT ![u] = e] /\ entries \in Known /\ Founded(entries)
    BY <1>4 DEF DetectorTypeOK, StoreIsFounded
  <2> HIDE DEF e
  <2>5. entries' \in Known /\ Founded(entries)'
    BY <1>2, <2>2, <2>3, <2>4, FoundedWith DEF Founded
  <2>6. lock' = "human" /\ file' = None
    BY <1>4
  <2>7. DetectorTypeOK'
    BY <2>5, <2>6 DEF DetectorTypeOK
  <2>8. StoreIsFounded'
    BY <2>5, <2>6 DEF StoreIsFounded
  <2> QED
    BY <1>1, <1>3, <2>7, <2>8
<1>5. CASE ~(entries[u] # None /\ entries[u].content = c)
  <2>1. UNCHANGED <<entries, file, lock>>
    BY <1>5
  <2>2. DetectorTypeOK'
    BY <2>1 DEF DetectorTypeOK
  <2>3. StoreIsFounded'
    BY <1>2, <2>1 DEF StoreIsFounded, Founded
  <2> QED
    BY <1>1, <1>3, <2>2, <2>3
<1> QED
  BY <1>4, <1>5

LEMMA FlushOverrideStep ==
  ASSUME DInv, flush_override
  PROVE  DInv'
<1> USE DEF DInv, flush_override
<1>1. DetectorTypeOK'
  BY DEF DetectorTypeOK
<1>2. TreeIsFresh' /\ PolicyNotStale' /\ ScansAreJudged' /\ DeliveredWasJudged'
  BY DEF TreeIsFresh, PolicyNotStale, ScansAreJudged, DeliveredWasJudged
<1>3. StoreIsFounded'
  BY DEF StoreIsFounded, Founded
<1> QED
  BY <1>1, <1>2, <1>3

\* An entry expires in the store and in the file, which hold the same.
LEMMA ExpireStep ==
  ASSUME DInv, NEW u \in Urls, expire(u)
  PROVE  DInv'
<1> USE DEF DInv, expire
<1> DEFINE e == [entries[u] EXCEPT !.fresh = FALSE]
<1>1. entries[u] \in Entries
  BY DEF DetectorTypeOK, Known
<1>2. /\ e \in Entries /\ e.content = entries[u].content
      /\ e.verdict = entries[u].verdict /\ e.approved = entries[u].approved
  BY <1>1 DEF Entries
<1>3. /\ <<u, e.content, e.verdict>> \in judged
      /\ e.approved => <<u, e.content>> \in approvals
  BY <1>2 DEF StoreIsFounded, Founded
<1>4. entries' = [entries EXCEPT ![u] = e] /\ entries \in Known /\ Founded(entries)
  BY DEF DetectorTypeOK, StoreIsFounded
<1>5. judged' = judged /\ approvals' = approvals
  OBVIOUS
<1> HIDE DEF e
<1>6. entries' \in Known /\ Founded(entries)'
  <2>1. /\ judged \subseteq judged' /\ approvals \subseteq approvals'
        /\ <<u, e.content, e.verdict>> \in judged'
        /\ e.approved => <<u, e.content>> \in approvals'
    BY <1>3, <1>5
  <2> HIDE DEF expire, DInv
  <2> QED
    BY <1>2, <1>4, <2>1, FoundedWith DEF Founded
<1>7. file' = None \/ file' = entries'
  BY DEF StoreIsFounded
<1>8. DetectorTypeOK'
  BY <1>6, <1>7 DEF DetectorTypeOK
<1>9. TreeIsFresh' /\ PolicyNotStale' /\ ScansAreJudged' /\ DeliveredWasJudged'
  BY DEF TreeIsFresh, PolicyNotStale, ScansAreJudged, DeliveredWasJudged
<1>10. StoreIsFounded'
  BY <1>6, <1>7 DEF StoreIsFounded, Founded
<1> QED
  BY <1>8, <1>9, <1>10

LEMMA EditStep ==
  ASSUME DInv, edit_policy
  PROVE  DInv'
<1> USE DEF DInv, edit_policy, persistent
<1>1. DetectorTypeOK'
  BY DEF DetectorTypeOK
<1>2. TreeIsFresh' /\ PolicyNotStale'
  BY DEF TreeIsFresh, PolicyNotStale, DetectorTypeOK
<1>3. StoreIsFounded' /\ ScansAreJudged' /\ DeliveredWasJudged'
  BY DEF StoreIsFounded, Founded, ScansAreJudged, DeliveredWasJudged
<1> QED
  BY <1>1, <1>2, <1>3

\* After a crash the store is what the file was, if it could be read.
LEMMA LoadStep ==
  ASSUME DInv, load
  PROVE  DInv'
<1> USE DEF DInv, load
<1>1. /\ at' \in [Fetches -> Place]
      /\ \A f \in Fetches : IF at[f] = "idle" THEN at'[f] = "idle"
                             ELSE at'[f] \in {"done", "refused"}
  BY DEF DetectorTypeOK, Place
<1>2. Empty \in Known /\ \A u \in Urls : Empty[u] = None
  BY DEF Empty, Known
<1>3. entries' \in Known /\ file' = entries' /\ Founded(entries)'
  BY <1>2 DEF DetectorTypeOK, StoreIsFounded, Founded
<1>4. DetectorTypeOK'
  BY <1>1, <1>3 DEF DetectorTypeOK
<1>5. TreeIsFresh' /\ PolicyNotStale'
  BY <1>1 DEF TreeIsFresh, PolicyNotStale
<1>6. StoreIsFounded'
  BY <1>3 DEF StoreIsFounded, Founded
<1>7. ScansAreJudged' /\ DeliveredWasJudged'
  BY <1>1 DEF ScansAreJudged, DeliveredWasJudged
<1> QED
  BY <1>4, <1>5, <1>6, <1>7

-----------------------------------------------------------------------------

LEMMA NextDInv == DInv /\ [DetectorNext]_detectorVars => DInv'
<1> SUFFICES ASSUME DInv, [DetectorNext]_detectorVars PROVE DInv'
  OBVIOUS
<1>1. ASSUME NEW f \in Fetches,
             \/ fetch(f) \/ http_get(f) \/ lookup(f) \/ on_tool_result(f)
             \/ Stat(f) \/ scan(f) \/ digest_set(f) \/ flush(f)
      PROVE  DInv'
  BY <1>1, FetchStep, GetStep, LookupStep, ToolStep, StatStep, ScanStep, SetStep, FlushStep
<1>2. ASSUME NEW u \in Urls, expire(u) \/ \E c \in Contents : mark_override(u, c)
      PROVE  DInv'
  BY <1>2, ExpireStep, OverrideStep
<1>3. CASE flush_override \/ edit_policy \/ load
  BY <1>3, FlushOverrideStep, EditStep, LoadStep
<1>4. CASE UNCHANGED detectorVars
  BY <1>4 DEF detectorVars, DInv, DetectorTypeOK, TreeIsFresh, PolicyNotStale, StoreIsFounded,
       Founded, ScansAreJudged, DeliveredWasJudged
<1> QED
  BY <1>1, <1>2, <1>3, <1>4 DEF DetectorNext

\* Calls, digest store and cached policy stay within the inductive invariant,
\* whichever steps of fetch, DigestStore and load_starlark_ast interleave.
THEOREM DetectorInvariant == DetectorSpec => []DInv
BY InitDInv, NextDInv, PTL DEF DetectorSpec

\* What a fetch, or the hook on tool results, hands over as good was judged
\* good for this very URL and content: scanned with a verdict that passes, or
\* approved by a human, whatever the cache, its flushes, expiries and crashes
\* did in the meantime (fetch, DigestStore).
THEOREM DeliveriesAreJudged ==
  DetectorSpec => []DeliveredWasJudged
<1>1. DInv => DeliveredWasJudged
  BY DEF DInv
<1> QED
  BY <1>1, DetectorInvariant, PTL

\* A scan runs a policy at least as new as the file was when the scan looked
\* at its metadata (load_starlark_ast).
THEOREM PoliciesAreFresh ==
  DetectorSpec => []PolicyNotStale
<1>1. DInv => PolicyNotStale
  BY DEF DInv
<1> QED
  BY <1>1, DetectorInvariant, PTL

-----------------------------------------------------------------------------
(* The token buckets of TokenBucket.                                       *)

LEMMA Products ==
  ASSUME NEW a \in Int, NEW b \in Int, NEW n \in Nat
  PROVE  /\ a * n \in Int
         /\ (a + b) * n = a * n + b * n
         /\ (a - b) * n = a * n - b * n
         /\ a <= b => a * n <= b * n
  <1>1. a * n \in Int /\ (a + b) * n = a * n + b * n /\ (a - b) * n = a * n - b * n
    OBVIOUS
  <1>2. a <= b => a * n <= b * n
    <2> SUFFICES ASSUME a <= b PROVE a * n <= b * n
      OBVIOUS
    <2>1. b - a \in Nat /\ (b - a) * n \in Nat
      OBVIOUS
    <2>2. (b - a) * n = b * n - a * n
      OBVIOUS
    <2> QED
      BY <2>1, <2>2
  <1> QED
    BY <1>1, <1>2

\* Whole tokens only: the remainder is worth less than one.
LEMMA WholeTokens ==
  ASSUME NEW d \in Nat
  PROVE  LET more == (d * Num) \div Den
         IN  /\ more \in Nat
             /\ more * Den <= d * Num
             /\ d * Num <= more * Den + Den - 1
  BY BucketAssumption

LEMMA RoundedUp ==
  ASSUME NEW x \in Int, NEW y \in Int, x * Den <= y + Den - 1
  PROVE  x <= (y + Den - 1) \div Den
  BY BucketAssumption

Tracked == [tokens : 0..burst_size, refilled : Nat, accessed : Nat]

\* Since any request that passed, the bucket gave out and kept no more than
\* its burst and what the rate earned by the last refill.
Earned(k, r, p) ==
  \A i \in 1..Len(p) :
    (Len(p) - i + 1 + k - burst_size) * Den <= (r - p[i]) * Num + Den - 1

\* The bound on what passes, for the requests of one source.
Bounded(p) ==
  \A i, j \in DOMAIN p :
    i <= j => j - i + 1 <= burst_size + ((p[j] - p[i]) * Num + Den - 1) \div Den

BucketInv ==
  /\ tick \in Nat
  /\ passed \in [Sources -> Seq(Nat)]
  /\ \A s \in Sources : \A i \in 1..Len(passed[s]) : passed[s][i] <= tick
  /\ \A s \in Sources : Bounded(passed[s])
  /\ source_buckets \in [DOMAIN source_buckets -> Tracked]
  /\ DOMAIN source_buckets \subseteq Sources
  /\ IsFiniteSet(DOMAIN source_buckets)
  /\ Cardinality(DOMAIN source_buckets) <= MaxSources + 1
  /\ \A s \in DOMAIN source_buckets :
       LET b == source_buckets[s]
       IN  b.refilled <= tick /\ Earned(b.tokens, b.refilled, passed[s])

\* A refill adds what was earned since the last one, and then the bucket has
\* not waited for as long as a token takes.
LEMMA RefillEarns ==
  ASSUME NEW b \in Tracked, tick \in Nat, b.refilled <= tick,
         NEW p \in Seq(Nat), Earned(b.tokens, b.refilled, p)
  PROVE  LET c == Refilled(b)
         IN  /\ c \in Tracked /\ c.refilled <= tick
             /\ (tick - c.refilled) * Num <= Den - 1
             /\ Earned(c.tokens, c.refilled, p)
  <1> DEFINE d == tick - b.refilled
             more == (d * Num) \div Den
             sum == b.tokens + more
             k == IF sum > burst_size THEN burst_size ELSE sum
  <1>1. /\ b.tokens \in 0..burst_size /\ b.refilled \in Nat /\ b.accessed \in Nat
        /\ d \in Nat
    BY DEF Tracked
  <1> HIDE DEF d
  <1>2. more \in Nat /\ more * Den <= d * Num /\ d * Num <= more * Den + Den - 1
    BY <1>1, WholeTokens
  <1> HIDE DEF more
  <1>3. k \in 0..burst_size /\ k <= b.tokens + more
    BY <1>1, <1>2, BucketAssumption
  <1>4. CASE more > 0
    <2>1. Refilled(b) = [tokens |-> k, refilled |-> tick, accessed |-> tick]
      BY <1>4 DEF Refilled, more, d
    <2>2. (tick - tick) * Num <= Den - 1
      BY BucketAssumption
    <2>3. Earned(k, tick, p)
      <3> HIDE DEF k
      <3> SUFFICES ASSUME NEW i \in 1..Len(p)
                   PROVE  (Len(p) - i + 1 + k - burst_size) * Den
                            <= (tick - p[i]) * Num + Den - 1
        BY DEF Earned
      <3> DEFINE x == Len(p) - i + 1 + b.tokens - burst_size
                 y == Len(p) - i + 1 + k - burst_size
      <3>0. x * Den <= (b.refilled - p[i]) * Num + Den - 1
        BY DEF Earned
      <3>1. p[i] \in Nat /\ x \in Int /\ y \in Int /\ y <= x + more
        <4>1. p[i] \in Nat /\ i \in Int /\ Len(p) \in Int
          OBVIOUS
        <4>2. /\ k \in Int /\ b.tokens \in Int /\ more \in Int /\ burst_size \in Int
              /\ k <= b.tokens + more
          BY <1>1, <1>2, <1>3, BucketAssumption
        <4>3. x \in Int
          BY <4>1, <4>2
        <4>4. y \in Int
          BY <4>1, <4>2
        <4>5. y <= x + more
          <5> DEFINE t == b.tokens
          <5>1. x = Len(p) - i + 1 + t - burst_size /\ t \in Int /\ k <= t + more
            BY <4>2
          <5> HIDE DEF t, x
          <5> QED
            BY <4>1, <4>2, <5>1
        <4> QED
          BY <4>1, <4>3, <4>4, <4>5
      <3> HIDE DEF x, y
      <3>2. y * Den <= (x + more) * Den /\ (x + more) * Den = x * Den + more * Den
        BY <1>2, <3>1, Products, BucketAssumption
      <3>3. (tick - p[i]) * Num = (b.refilled - p[i]) * Num + d * Num
        <4>1. tick - p[i] = (b.refilled - p[i]) + d
          <5> DEFINE u == b.refilled
                     v == p[i]
          <5>1. u \in Int /\ v \in Int /\ tick \in Int /\ d = tick - u
            BY <1>1, <3>1 DEF d
          <5> HIDE DEF u, v, d
          <5>2. tick - v = (u - v) + d
            BY <5>1
          <5> QED
            BY <5>2 DEF u, v
        <4>2. b.refilled - p[i] \in Int
          BY <1>1, <3>1
        <4> QED
          BY <1>1, <4>1, <4>2, Products, BucketAssumption
      <3>4. /\ x * Den \in Int /\ y * Den \in Int /\ more * Den \in Int
            /\ d * Num \in Int /\ (b.refilled - p[i]) * Num \in Int
        BY <1>1, <1>2, <3>1, BucketAssumption
      <3>5. y * Den <= (tick - p[i]) * Num + Den - 1
        <4> DEFINE yD == y * Den
                   xD == x * Den
                   mD == more * Den
                   dN == d * Num
                   rN == (b.refilled - p[i]) * Num
        <4>1. /\ yD \in Int /\ xD \in Int /\ mD \in Int /\ dN \in Int /\ rN \in Int
              /\ yD <= xD + mD /\ mD <= dN /\ xD <= rN + Den - 1
          BY <1>2, <3>0, <3>2, <3>4
        <4> HIDE DEF yD, xD, mD, dN, rN
        <4>2. yD <= (rN + dN) + Den - 1
          BY <4>1, BucketAssumption
        <4> QED
          BY <3>3, <4>2 DEF yD, dN, rN
      <3> QED
        BY <3>5 DEF y
    <2> QED
      BY <1>1, <1>3, <2>1, <2>2, <2>3 DEF Tracked
  <1>5. CASE ~(more > 0)
    <2>1. Refilled(b) = [b EXCEPT !.accessed = tick]
      BY <1>5 DEF Refilled, more, d
    <2>2. d * Num <= Den - 1
      <3>1. more = 0
        BY <1>2, <1>5
      <3>2. d * Num \in Int /\ more * Den = 0
        BY <1>1, <3>1, BucketAssumption
      <3> QED
        BY <1>2, <3>2, BucketAssumption
    <2> QED
      BY <1>1, <2>1, <2>2 DEF Tracked, d
  <1> QED
    BY <1>4, <1>5

\* Of n + 1 requests, those from the i-th on are above the burst by no more
\* than they are when the bucket still has tokens.
LEMMA MoreTokens ==
  ASSUME NEW n \in Int, NEW i \in Int, NEW b \in Int, NEW k \in Int, k >= 1
  PROVE  /\ n + 1 - i + 1 - b \in Int
         /\ (n + 1) - i + 1 + (k - 1) - b \in Int
         /\ n + 1 - i + 1 - b <= (n + 1) - i + 1 + (k - 1) - b
         /\ n + 1 - i + 1 - b = (n + 1) - i + 1 - b
  OBVIOUS

\* A request passes and takes a token of a bucket just refilled.
LEMMA PassEarns ==
  ASSUME NEW k \in 1..burst_size, tick \in Nat, NEW r \in Nat, r <= tick,
         (tick - r) * Num <= Den - 1,
         NEW p \in Seq(Nat), Earned(k, r, p), Bounded(p),
         \A i \in 1..Len(p) : p[i] <= tick
  PROVE  LET q == Append(p, tick)
         IN  /\ q \in Seq(Nat)
             /\ \A i \in 1..Len(q) : q[i] <= tick
             /\ Earned(k - 1, r, q)
             /\ Bounded(q)
  <1> DEFINE q == Append(p, tick)
  <1>1. /\ q \in Seq(Nat) /\ Len(p) \in Nat /\ Len(q) = Len(p) + 1
        /\ q[Len(p) + 1] = tick
        /\ \A i \in 1..Len(p) : q[i] = p[i] /\ q[i] \in Nat
        /\ DOMAIN q = 1..(Len(p) + 1) /\ DOMAIN p = 1..Len(p)
    OBVIOUS
  <1> HIDE DEF q
  <1>2. \A i \in 1..Len(q) : q[i] <= tick /\ q[i] \in Nat
    <2>1. ASSUME NEW i \in 1..Len(q) PROVE q[i] <= tick /\ q[i] \in Nat
      <3>1. i \in 1..Len(p) \/ i = Len(p) + 1
        BY <1>1
      <3> QED
        BY <1>1, <3>1
    <2> QED
      BY <2>1
  <1>3. Earned(k - 1, r, q)
    <2> SUFFICES ASSUME NEW i \in 1..Len(q)
                 PROVE  (Len(q) - i + 1 + (k - 1) - burst_size) * Den
                          <= (r - q[i]) * Num + Den - 1
      BY DEF Earned
    <2>1. CASE i \in 1..Len(p)
      <3>1. /\ Len(q) - i + 1 + (k - 1) - burst_size = Len(p) - i + 1 + k - burst_size
            /\ q[i] = p[i]
        BY <1>1, <2>1, BucketAssumption
      <3> QED
        BY <2>1, <3>1 DEF Earned
    <2>2. CASE i = Len(p) + 1
      <3>1. /\ Len(q) - i + 1 + (k - 1) - burst_size = k - burst_size /\ q[i] = tick
            /\ k - burst_size \in Int /\ k - burst_size <= 0
        BY <1>1, <2>2, BucketAssumption
      <3>2. (k - burst_size) * Den <= 0
        <4>1. (k - burst_size) * Den <= 0 * Den
          BY <3>1, Products, BucketAssumption
        <4> QED
          BY <4>1, BucketAssumption
      <3>3. (r - tick) * Num = 0 - (tick - r) * Num /\ (tick - r) * Num \in Int
        BY BucketAssumption
      <3>4. (k - burst_size) * Den \in Int
        BY <3>1, BucketAssumption
      <3> QED
        <4> DEFINE kD == (k - burst_size) * Den
                   w == (tick - r) * Num
        <4>1. /\ kD \in Int /\ w \in Int /\ kD <= 0 /\ w <= Den - 1
              /\ (r - q[i]) * Num = 0 - w
          BY <3>1, <3>2, <3>3, <3>4
        <4> HIDE DEF kD, w
        <4>2. kD <= (0 - w) + Den - 1
          BY <4>1, BucketAssumption
        <4>3. (Len(q) - i + 1 + (k - 1) - burst_size) * Den = kD
          BY <3>1 DEF kD
        <4> QED
          BY <4>1, <4>2, <4>3
    <2> QED
      BY <1>1, <2>1, <2>2
  <1>4. Bounded(q)
    <2> SUFFICES ASSUME NEW i \in DOMAIN q, NEW j \in DOMAIN q, i <= j
                 PROVE  j - i + 1 <= burst_size
                                     + ((q[j] - q[i]) * Num + Den - 1) \div Den
      BY DEF Bounded
    <2>1. CASE j \in DOMAIN p
      <3> DEFINE limit(s) == burst_size + ((s[j] - s[i]) * Num + Den - 1) \div Den
      <3>1. i \in DOMAIN p /\ q[i] = p[i] /\ q[j] = p[j]
        <4> DEFINE n == Len(p)
        <4>1. n \in Nat /\ j \in 1..n /\ i \in 1..(n + 1)
          BY <1>1, <2>1
        <4>2. DOMAIN p = 1..n /\ \A h \in 1..n : q[h] = p[h]
          BY <1>1
        <4> HIDE DEF n
        <4>3. i \in 1..n
          BY <4>1
        <4> QED
          BY <4>1, <4>2, <4>3
      <3>2. j - i + 1 <= limit(p)
        BY <2>1, <3>1, Zenon DEF Bounded
      <3>3. limit(q) = limit(p)
        BY <3>1
      <3> HIDE DEF limit
      <3>4. j - i + 1 <= limit(q)
        BY <3>2, <3>3
      <3> QED
        BY <3>4 DEF limit
    <2>2. CASE j = Len(p) + 1
      <3> DEFINE x == Len(p) + 1 - i + 1 - burst_size
                 z == Len(q) - i + 1 + (k - 1) - burst_size
      <3>1. i \in 1..Len(q) /\ q[i] \in Nat /\ q[j] = tick /\ q[i] <= tick
        BY <1>1, <1>2, <2>2
      <3>2. z * Den <= (r - q[i]) * Num + Den - 1
        BY <1>3, <3>1 DEF Earned
      <3>3. x \in Int /\ z \in Int /\ x <= z /\ x = j - i + 1 - burst_size
        <4>1. /\ i \in Int /\ Len(p) \in Int /\ burst_size \in Int
              /\ k \in Int /\ k >= 1
          BY <1>1, <3>1, BucketAssumption
        <4> DEFINE n == Len(p)
        <4>2. Len(q) = n + 1 /\ n \in Int
          BY <1>1
        <4> HIDE DEF n
        <4>3. z = (n + 1) - i + 1 + (k - 1) - burst_size
          BY <4>2
        <4>4. x = n + 1 - i + 1 - burst_size
          BY DEF n
        <4>5. j = n + 1
          BY <2>2 DEF n
        <4> HIDE DEF x, z
        <4>6. x \in Int /\ z \in Int /\ x <= z /\ x = (n + 1) - i + 1 - burst_size
          BY <4>1, <4>2, <4>3, <4>4, MoreTokens
        <4>7. x = j - i + 1 - burst_size
          BY <4>5, <4>6, Zenon
        <4> QED
          BY <4>6, <4>7
      <3> HIDE DEF x, z
      <3>4. x * Den <= z * Den
        BY <3>3, Products, BucketAssumption
      <3>5. (r - q[i]) * Num <= (tick - q[i]) * Num
        <4> DEFINE u == r - q[i]
                   v == tick - q[i]
        <4>1. u \in Int /\ v \in Int /\ u <= v
          BY <3>1
        <4> HIDE DEF u, v
        <4>2. u * Num <= v * Num
          BY <4>1, Products, BucketAssumption
        <4> QED
          BY <4>2 DEF u, v
      <3>6. /\ x * Den \in Int /\ z * Den \in Int
            /\ (r - q[i]) * Num \in Int /\ (tick - q[i]) * Num \in Int
        <4>1. r - q[i] \in Int /\ tick - q[i] \in Int
          BY <3>1
        <4> QED
          BY <3>3, <4>1, Products, BucketAssumption
      <3>7. x * Den <= (tick - q[i]) * Num + Den - 1
        BY <3>2, <3>4, <3>5, <3>6, BucketAssumption
      <3>8. x <= ((tick - q[i]) * Num + Den - 1) \div Den
        BY <3>3, <3>6, <3>7, RoundedUp
      <3>9. ((tick - q[i]) * Num + Den - 1) \div Den \in Int
        BY <3>6, BucketAssumption
      <3> DEFINE g == ((tick - q[i]) * Num + Den - 1) \div Den
      <3>10. j - i + 1 <= burst_size + g
        <4> HIDE DEF g
        <4>1. i \in Int /\ j \in Int
          BY <1>1, <2>2
        <4>2. g \in Int /\ j - i + 1 - burst_size <= g
          BY <3>3, <3>8, <3>9 DEF g
        <4> QED
          BY <4>1, <4>2, BucketAssumption
      <3> QED
        BY <3>1, <3>10
    <2> QED
      BY <1>1, <2>1, <2>2
  <1> QED
    BY <1>1, <1>2, <1>3, <1>4 DEF q

\* An eviction is never empty when there is one source too many.
LEMMA EvictionMakesRoom ==
  ASSUME NEW gone \in SUBSET DOMAIN source_buckets, evict_if_needed(gone),
         IsFiniteSet(DOMAIN source_buckets),
         Cardinality(DOMAIN source_buckets) <= MaxSources + 1, NEW s
  PROVE  LET kept == DOMAIN source_buckets \ gone
         IN  /\ IsFiniteSet(kept \cup {s})
             /\ Cardinality(kept \cup {s}) <= MaxSources + 1
  <1> DEFINE known == DOMAIN source_buckets
             kept == known \ gone
             n == Cardinality(known)
  <1>1. n \in Nat /\ IsFiniteSet(gone) /\ Cardinality(gone) \in Nat
    BY FS_CardinalityType, FS_Subset
  <1>2. IsFiniteSet(kept) /\ Cardinality(kept) = n - Cardinality(gone)
    <2>1. /\ IsFiniteSet(known \ gone)
          /\ Cardinality(known \ gone) = Cardinality(known) - Cardinality(known \cap gone)
      BY FS_Difference, <1>1
    <2>2. known \cap gone = gone
      OBVIOUS
    <2> QED
      BY <2>1, <2>2
  <1>3. Cardinality(kept) <= MaxSources /\ Cardinality(kept) \in Nat
    <2> HIDE DEF known
    <2>1. CASE n <= MaxSources
      BY <1>1, <1>2, <2>1, FS_CardinalityType, BucketAssumption
    <2>2. CASE ~(n <= MaxSources)
      <3>1. Cardinality(gone) = n \div 5 /\ n = MaxSources + 1
        BY <1>1, <2>2, BucketAssumption DEF evict_if_needed, known
      <3>2. n \div 5 >= 1
        BY <1>1, <3>1, BucketAssumption
      <3> QED
        BY <1>1, <1>2, <3>1, <3>2, FS_CardinalityType, BucketAssumption
    <2> QED
      BY <2>1, <2>2
  <1>4. /\ IsFiniteSet(kept \cup {s})
        /\ Cardinality(kept \cup {s}) = IF s \in kept THEN Cardinality(kept)
                                        ELSE Cardinality(kept) + 1
    <2> HIDE DEF kept
    <2> QED
      BY <1>2, FS_AddElement
  <1> HIDE DEF kept
  <1>5. Cardinality(kept \cup {s}) <= MaxSources + 1
    BY <1>3, <1>4, BucketAssumption
  <1> QED
    BY <1>4, <1>5 DEF kept

LEMMA BucketInitially == BucketInit => BucketInv
  <1> SUFFICES ASSUME BucketInit PROVE BucketInv
    OBVIOUS
  <1>1. DOMAIN source_buckets = {} /\ source_buckets \in [DOMAIN source_buckets -> Tracked]
    BY DEF BucketInit
  <1>2. /\ passed \in [Sources -> Seq(Nat)]
        /\ \A s \in Sources : Len(passed[s]) = 0 /\ DOMAIN passed[s] = {}
    BY DEF BucketInit
  <1>3. IsFiniteSet(DOMAIN source_buckets) /\ Cardinality(DOMAIN source_buckets) = 0
    BY <1>1, FS_EmptySet
  <1>4. Cardinality(DOMAIN source_buckets) <= MaxSources + 1
    BY <1>3, BucketAssumption
  <1>5. tick \in Nat
    BY DEF BucketInit
  <1> QED
    BY <1>1, <1>2, <1>3, <1>4, <1>5 DEF BucketInv, Bounded

\* One check of a source: an eviction, a refill, and a token if there is one.
LEMMA CheckKeepsBuckets ==
  ASSUME BucketInv, NEW s \in Sources, check(s)
  PROVE  BucketInv'
  <1>1. PICK gone \in SUBSET DOMAIN source_buckets :
          /\ evict_if_needed(gone)
          /\ LET kept == DOMAIN source_buckets \ gone
                 known == IF s \in kept THEN source_buckets[s]
                          ELSE [tokens |-> burst_size, refilled |-> tick,
                                accessed |-> tick]
                 b == Refilled(known)
                 pass == b.tokens > 0
                 life == IF s \in kept THEN passed[s] ELSE << >>
             IN  /\ source_buckets' = [t \in kept \cup {s} |->
                                  IF t # s THEN source_buckets[t]
                                  ELSE IF pass THEN [b EXCEPT !.tokens = @ - 1]
                                  ELSE b]
                 /\ passed' = [t \in Sources |->
                                 IF t = s THEN IF pass THEN Append(life, tick)
                                               ELSE life
                                 ELSE IF t \in gone THEN << >> ELSE passed[t]]
    BY DEF check
  <1> DEFINE kept == DOMAIN source_buckets \ gone
             known == IF s \in kept THEN source_buckets[s]
                      ELSE [tokens |-> burst_size, refilled |-> tick, accessed |-> tick]
             b == Refilled(known)
             pass == b.tokens > 0
             life == IF s \in kept THEN passed[s] ELSE << >>
             left == IF pass THEN [b EXCEPT !.tokens = b.tokens - 1] ELSE b
             q == IF pass THEN Append(life, tick) ELSE life
  <1>2. /\ source_buckets' = [t \in kept \cup {s} |->
                                IF t # s THEN source_buckets[t] ELSE left]
        /\ passed' = [t \in Sources |-> IF t = s THEN q
                                        ELSE IF t \in gone THEN << >> ELSE passed[t]]
        /\ tick' = tick /\ tick \in Nat
    BY <1>1 DEF check, BucketInv
  <1>3. /\ known \in Tracked /\ known.refilled <= tick /\ life \in Seq(Nat)
        /\ \A i \in 1..Len(life) : life[i] <= tick
        /\ Bounded(life)
        /\ Earned(known.tokens, known.refilled, life)
    <2>1. CASE s \in kept
      <3>1. s \in DOMAIN source_buckets /\ known = source_buckets[s] /\ life = passed[s]
        BY <2>1
      <3>2. source_buckets[s] \in Tracked
        BY <3>1 DEF BucketInv
      <3> HIDE DEF known, life
      <3> QED
        BY <3>1, <3>2 DEF BucketInv
    <2>2. CASE s \notin kept
      <3>1. /\ known = [tokens |-> burst_size, refilled |-> tick, accessed |-> tick]
            /\ life = << >>
        BY <2>2
      <3> HIDE DEF known, life
      <3>3. Len(life) = 0 /\ DOMAIN life = {} /\ life \in Seq(Nat)
        <4>1. Len(<< >>) = 0 /\ DOMAIN << >> = {} /\ << >> \in Seq(Nat)
          OBVIOUS
        <4> QED
          BY <3>1, <4>1
      <3>2. known \in Tracked /\ known.refilled <= tick
        <4>1. burst_size \in 0..burst_size /\ tick \in Nat /\ tick <= tick
          BY <1>2, BucketAssumption
        <4> QED
          BY <3>1, <4>1 DEF Tracked
      <3> QED
        BY <3>2, <3>3 DEF Bounded, Earned
    <2> QED
      BY <2>1, <2>2
  <1> HIDE DEF known, life
  <1>4. /\ b \in Tracked /\ b.refilled <= tick
        /\ (tick - b.refilled) * Num <= Den - 1
        /\ Earned(b.tokens, b.refilled, life)
    BY <1>2, <1>3, RefillEarns
  <1> HIDE DEF b
  <1>5. /\ left \in Tracked /\ left.refilled <= tick
        /\ q \in Seq(Nat) /\ \A i \in 1..Len(q) : q[i] <= tick
        /\ Bounded(q)
        /\ Earned(left.tokens, left.refilled, q)
    <2>1. CASE pass
      <3>1. b.tokens \in 1..burst_size /\ b.refilled \in Nat
        BY <1>4, <2>1, BucketAssumption DEF Tracked
      <3>3. q = Append(life, tick) /\ left = [b EXCEPT !.tokens = b.tokens - 1]
        BY <2>1
      <3> HIDE DEF q, left, pass
      <3>2. /\ left \in Tracked /\ left.tokens = b.tokens - 1
            /\ left.refilled = b.refilled
        <4>1. b.tokens - 1 \in 0..burst_size
          BY <3>1, BucketAssumption
        <4> QED
          BY <1>4, <3>3, <4>1 DEF Tracked
      <3> QED
        BY <1>2, <1>3, <1>4, <3>1, <3>2, <3>3, PassEarns
    <2>2. CASE ~pass
      <3>1. left = b /\ q = life
        BY <2>2
      <3> HIDE DEF left, q, pass
      <3> QED
        BY <1>3, <1>4, <3>1
    <2> QED
      BY <2>1, <2>2
  <1> HIDE DEF left, q
  <1>6. DOMAIN source_buckets' = kept \cup {s}
    BY <1>2
  <1>7. /\ IsFiniteSet(DOMAIN source_buckets')
        /\ Cardinality(DOMAIN source_buckets') <= MaxSources + 1
    <2>1. /\ IsFiniteSet((DOMAIN source_buckets \ gone) \cup {s})
          /\ Cardinality((DOMAIN source_buckets \ gone) \cup {s}) <= MaxSources + 1
      BY <1>1, EvictionMakesRoom DEF BucketInv
    <2> QED
      BY <1>6, <2>1
  <1>8. \A t \in kept \ {s} : source_buckets[t] \in Tracked
    BY DEF BucketInv
  <1>9. /\ source_buckets' \in [DOMAIN source_buckets' -> Tracked]
        /\ DOMAIN source_buckets' \subseteq Sources
    BY <1>2, <1>5, <1>6, <1>8 DEF BucketInv
  <1>10. ASSUME NEW t \in Sources
         PROVE  /\ passed'[t] \in Seq(Nat)
                /\ \A i \in 1..Len(passed'[t]) : passed'[t][i] <= tick
                /\ Bounded(passed'[t])
    <2>1. CASE t = s
      BY <1>2, <1>5, <2>1
    <2>2. CASE t # s /\ t \in gone
      <3>1. passed'[t] = << >>
        BY <1>2, <2>2
      <3>2. Len(<< >>) = 0 /\ DOMAIN << >> = {} /\ << >> \in Seq(Nat)
        OBVIOUS
      <3> QED
        BY <3>1, <3>2 DEF Bounded
    <2>3. CASE t # s /\ t \notin gone
      <3>1. passed'[t] = passed[t]
        BY <1>2, <2>3
      <3> QED
        BY <3>1 DEF BucketInv
    <2> QED
      BY <2>1, <2>2, <2>3
  <1>11. ASSUME NEW t \in DOMAIN source_buckets'
         PROVE  /\ source_buckets'[t].refilled <= tick
                /\ Earned(source_buckets'[t].tokens, source_buckets'[t].refilled,
                          passed'[t])
    <2>1. CASE t = s
      BY <1>2, <1>5, <1>6, <2>1
    <2>2. CASE t # s
      <3>1. /\ t \in DOMAIN source_buckets /\ t \in Sources
            /\ source_buckets'[t] = source_buckets[t]
            /\ passed'[t] = passed[t]
        BY <1>2, <1>6, <2>2 DEF BucketInv
      <3> QED
        BY <3>1 DEF BucketInv
    <2> QED
      BY <2>1, <2>2
  <1>12. passed' \in [Sources -> Seq(Nat)]
    <2>1. passed' = [t \in Sources |-> passed'[t]]
      BY <1>2
    <2> QED
      BY <1>10, <2>1
  <1>13. /\ \A t \in Sources : Bounded(passed[t])'
         /\ \A t \in DOMAIN source_buckets' :
              Earned(source_buckets[t].tokens, source_buckets[t].refilled, passed[t])'
    BY <1>10, <1>11 DEF Bounded, Earned
  <1> QED
    BY <1>2, <1>7, <1>9, <1>10, <1>11, <1>12, <1>13 DEF BucketInv

LEMMA ElapseKeepsBuckets ==
  ASSUME BucketInv, Elapse \/ UNCHANGED bvars
  PROVE  BucketInv'
  <1>1. /\ tick' \in Nat /\ tick <= tick' /\ tick \in Nat
        /\ UNCHANGED <<source_buckets, passed>>
    BY DEF Elapse, bvars, BucketInv
  <1>2. ASSUME NEW s \in Sources, NEW i \in 1..Len(passed[s])
        PROVE  passed[s][i] <= tick'
    <2>1. passed[s][i] \in Nat /\ passed[s][i] <= tick
      BY DEF BucketInv
    <2> QED
      BY <1>1, <2>1
  <1>3. ASSUME NEW s \in DOMAIN source_buckets
        PROVE  source_buckets[s].refilled <= tick'
    <2>1. source_buckets[s].refilled \in Nat /\ source_buckets[s].refilled <= tick
      BY DEF BucketInv, Tracked
    <2> QED
      BY <1>1, <2>1
  <1> QED
    BY <1>1, <1>2, <1>3 DEF BucketInv, Earned, Bounded

LEMMA BucketInvImplies == BucketInv => BucketBound
  BY DEF BucketInv, Bounded, BucketBound

\* In every interval a source passes at most the burst and what the rate earns
\* in it, and the map stays within one source of its limit, however refills
\* are rounded and sources are evicted (check, evict_if_needed).
THEOREM BucketsBoundSources == BucketInit /\ [][BucketNext]_bvars => []BucketBound
  <1>1. ASSUME BucketInv, [BucketNext]_bvars PROVE BucketInv'
    BY <1>1, CheckKeepsBuckets, ElapseKeepsBuckets DEF BucketNext
  <1> QED
    BY <1>1, BucketInitially, BucketInvImplies, PTL

-----------------------------------------------------------------------------
(* The tool calls of Clashd.                                               *)

Stages == {"idle", "asked", "left", "approval", "over"}

\* What an answer says of its call, once it is there.
Justified(c) ==
  LET domain == extract_domain(call[c])
      agent_id == call[c].agent
  IN  /\ policy_file = "default"
      /\ domain # Nothing => domain \notin DeniedFor(agent_id)
      /\ call[c].tool = "destructive" =>
           /\ answer[c] = "review"
           /\ domain # Nothing /\ domain \notin AllowedFor(agent_id)

\* The operator chose to go on without answers to this call.
Waived(c) == call[c].via = "plugin" /\ fallback = "allow"

CallsInv ==
  /\ stage \in [Calls -> Stages]
  /\ answer \in [Calls -> {"allow", "deny", "review", Nothing}]
  /\ DOMAIN outcome = Calls /\ outcome = [c \in Calls |-> outcome[c]]
  /\ \A c \in Calls : stage[c] # "idle" => call[c] # Nothing
  /\ \A c \in Calls : answer[c] # Nothing => server = "on"
  /\ \A c \in Calls : answer[c] \in {"allow", "review"} => Justified(c)
  /\ \A c \in Calls : stage[c] = "approval" => answer[c] = "review"
  /\ \A c \in Calls :
       Asked(c) /\ outcome[c] = "runs" /\ ~Waived(c) =>
         answer[c] \in {"allow", "review"}

LEMMA CallsInitially == ClashdInit => CallsInv
  BY ClashdAssumption DEF ClashdInit, CallsInv, Stages, Asked

\* The shipped policy: what it lets through or sends to review.
LEMMA PolicyJustifies ==
  ASSUME NEW c \in Calls,
         answer'[c] = evaluate(call[c]), answer'[c] \in {"allow", "review"},
         UNCHANGED <<call, policy_file, agents>>
  PROVE  Justified(c)'
  <1>1. policy_file = "default" /\ answer'[c] = default_policy(call[c])
    BY DEF evaluate
  <1> DEFINE domain == extract_domain(call[c])
             agent_id == call[c].agent
  <1>2. domain # Nothing => domain \notin DeniedFor(agent_id)
    BY <1>1 DEF default_policy
  <1>3. call[c].tool = "destructive" =>
          /\ answer'[c] = "review"
          /\ domain # Nothing /\ domain \notin AllowedFor(agent_id)
    BY <1>1 DEF default_policy
  <1> QED
    BY <1>1, <1>2, <1>3 DEF Justified, extract_domain, DeniedFor, AllowedFor

\* Steps that leave the server, the agents file and the answers alone.
LEMMA SettlingKeepsCalls ==
  ASSUME CallsInv, NEW c \in Calls,
         UNCHANGED <<call, policy_file, fallback, server, agents, answer>>,
         call[c] # Nothing,
         NEW what, outcome' = [outcome EXCEPT ![c] = what],
         NEW place \in Stages, stage' = [stage EXCEPT ![c] = place],
         place = "approval" => answer[c] = "review",
         what = "runs" /\ Asked(c) /\ ~Waived(c) => answer[c] \in {"allow", "review"}
  PROVE  CallsInv'
  <1>1. \A d \in Calls : Justified(d)' <=> Justified(d)
    BY DEF Justified, extract_domain, DeniedFor, AllowedFor
  <1>2. /\ stage'[c] = place /\ outcome'[c] = what
        /\ \A d \in Calls \ {c} : stage'[d] = stage[d] /\ outcome'[d] = outcome[d]
    BY DEF CallsInv
  <1>3. \A d \in Calls : /\ Asked(d)' <=> Asked(d)
                         /\ Waived(d)' <=> Waived(d)
    BY DEF Asked, Waived
  <1>4. /\ stage' \in [Calls -> Stages]
        /\ DOMAIN outcome' = Calls /\ outcome' = [d \in Calls |-> outcome'[d]]
    BY DEF CallsInv
  <1> QED
    BY <1>1, <1>2, <1>3, <1>4 DEF CallsInv

LEMMA CallStepsKeepCalls ==
  ASSUME CallsInv, NEW c \in Calls,
         \/ before_tool_call(c) \/ parseClashdResponse(c) \/ fall_back(c)
         \/ claude_code_hook(c) \/ approve(c)
  PROVE  CallsInv'
  <1>1. UNCHANGED <<call, policy_file, fallback, server, agents, answer>>
    BY DEF before_tool_call, parseClashdResponse, fall_back, claude_code_hook, approve
  <1>2. call[c] # Nothing
    BY DEF before_tool_call, parseClashdResponse, fall_back, claude_code_hook, approve,
           CallsInv
  <1>3. CASE before_tool_call(c)
    <2>1. CASE call[c].via = "zeroclaw"
      <3>1. outcome' = [outcome EXCEPT ![c] = "runs"] /\ stage' = [stage EXCEPT ![c] = "left"]
        BY <1>3, <2>1 DEF before_tool_call
      <3> QED
        BY <1>1, <1>2, <2>1, <3>1, SettlingKeepsCalls DEF Stages, Asked
    <2>2. CASE call[c].via # "zeroclaw"
      <3>1. outcome' = outcome /\ stage' = [stage EXCEPT ![c] = "asked"]
        BY <1>3, <2>2 DEF before_tool_call
      <3>2. outcome' = [outcome EXCEPT ![c] = outcome[c]]
        BY <3>1 DEF CallsInv
      <3>3. outcome[c] = "runs" /\ Asked(c) /\ ~Waived(c) => answer[c] \in {"allow", "review"}
        BY DEF CallsInv
      <3> QED
        BY <1>1, <1>2, <3>1, <3>2, <3>3, SettlingKeepsCalls DEF Stages
    <2> QED
      BY <2>1, <2>2
  <1>4. ASSUME NEW what, Settle(c, what),
               what = "asks" => answer[c] = "review",
               what = "runs" /\ Asked(c) /\ ~Waived(c) => answer[c] \in {"allow", "review"}
        PROVE  CallsInv'
    <2> DEFINE place == IF what = "asks" THEN "approval" ELSE "over"
    <2>1. place \in Stages /\ (place = "approval" => answer[c] = "review")
      BY <1>4 DEF Stages
    <2>2. outcome' = [outcome EXCEPT ![c] = what] /\ stage' = [stage EXCEPT ![c] = place]
      BY <1>4 DEF Settle
    <2> HIDE DEF place
    <2> QED
      BY <1>1, <1>2, <1>4, <2>1, <2>2, SettlingKeepsCalls
  <1>5. CASE parseClashdResponse(c) \/ claude_code_hook(c)
    <2>1. Decided(c, answer[c]) /\ answer[c] \in {"allow", "deny", "review"}
      BY <1>5 DEF parseClashdResponse, claude_code_hook, CallsInv
    <2>2. CASE answer[c] = "deny"
      BY <1>4, <2>1, <2>2 DEF Decided
    <2>3. CASE answer[c] = "review"
      BY <1>4, <2>1, <2>3 DEF Decided
    <2>4. CASE answer[c] = "allow"
      BY <1>4, <2>1, <2>4 DEF Decided
    <2> QED
      BY <2>1, <2>2, <2>3, <2>4
  <1>6. CASE fall_back(c)
    <2>1. CASE fallback = "allow"
      BY <1>4, <1>6, <2>1 DEF fall_back, normalizeFallbackOnError, Waived
    <2>2. CASE fallback # "allow"
      BY <1>4, <1>6, <2>2 DEF fall_back, normalizeFallbackOnError
    <2> QED
      BY <2>1, <2>2
  <1>7. CASE approve(c)
    <2>1. answer[c] = "review"
      BY <1>7 DEF approve, CallsInv
    <2> QED
      BY <1>4, <1>7, <2>1 DEF approve
  <1> QED
    BY <1>3, <1>5, <1>6, <1>7

LEMMA ServerStepsKeepCalls ==
  ASSUME CallsInv, main \/ refresh_all \/ UNCHANGED cvars
  PROVE  CallsInv'
  <1>1. UNCHANGED <<call, policy_file, fallback, stage, answer, outcome>>
    BY DEF main, refresh_all, cvars
  <1>2. CASE main
    <2>1. \A c \in Calls : answer[c] = Nothing
      BY <1>2 DEF main, CallsInv
    <2> QED
      BY <1>1, <2>1, ClashdAssumption DEF CallsInv, Asked, Waived
  <1>3. CASE refresh_all \/ UNCHANGED cvars
    <2>1. UNCHANGED <<server, agents>>
      BY <1>3 DEF refresh_all, cvars
    <2> QED
      BY <1>1, <2>1
        DEF CallsInv, Asked, Waived, Justified, extract_domain, DeniedFor, AllowedFor
  <1> QED
    BY <1>2, <1>3

LEMMA AnswerKeepsCalls ==
  ASSUME CallsInv, NEW c \in Calls, answer_request(c)
  PROVE  CallsInv'
  <1>1. /\ UNCHANGED <<call, policy_file, fallback, server, agents, stage, outcome>>
        /\ server = "on" /\ answer[c] = Nothing
        /\ answer' = [answer EXCEPT ![c] = evaluate(call[c])]
    BY DEF answer_request
  <1>2. evaluate(call[c]) \in {"allow", "deny", "review"}
    BY DEF evaluate, default_policy
  <1>3. /\ answer'[c] = evaluate(call[c])
        /\ \A d \in Calls \ {c} : answer'[d] = answer[d]
        /\ answer' \in [Calls -> {"allow", "deny", "review", Nothing}]
    BY <1>1, <1>2 DEF CallsInv
  <1>4. ASSUME NEW d \in Calls, answer'[d] \in {"allow", "review"}
        PROVE  Justified(d)'
    <2>1. CASE d = c
      BY <1>1, <1>3, <1>4, <2>1, PolicyJustifies
    <2>2. CASE d # c
      BY <1>1, <1>3, <1>4, <2>2
        DEF CallsInv, Justified, extract_domain, DeniedFor, AllowedFor
    <2> QED
      BY <2>1, <2>2
  <1>5. stage[c] # "approval" /\ ~(Asked(c) /\ outcome[c] = "runs" /\ ~Waived(c))
    BY <1>1, ClashdAssumption DEF CallsInv
  <1>6. \A d \in Calls : (Asked(d)' <=> Asked(d)) /\ (Waived(d)' <=> Waived(d))
    BY <1>1 DEF Asked, Waived
  <1> QED
    BY <1>1, <1>3, <1>4, <1>5, <1>6 DEF CallsInv

\* No tool call runs against the policy, for every policy file, agents file,
\* feed and set of calls, and however answers, time-outs and the start of the
\* sidecar interleave (PolicyEngine::evaluate, before_tool_call).
THEOREM PolicyAlwaysHolds == ClashdSpec => []PolicyHolds
  <1>1. ASSUME CallsInv, [ClashdNext]_cvars PROVE CallsInv'
    BY <1>1, CallStepsKeepCalls, ServerStepsKeepCalls, AnswerKeepsCalls DEF ClashdNext
  <1>2. CallsInv => PolicyHolds
    BY DEF CallsInv, PolicyHolds, Justified, Waived
  <1> QED
    BY <1>1, <1>2, CallsInitially, PTL DEF ClashdSpec
=============================================================================
