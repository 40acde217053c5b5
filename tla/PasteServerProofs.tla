--------------------------- MODULE PasteServerProofs ---------------------------
(***************************************************************************)
(* Proofs about PasteServer, for any number of links, submissions, names   *)
(* and dumps, and any browser origins.                                     *)
(*                                                                         *)
(* Neither UsedOnce nor ValueHasItsPolicy is inductive.  The first needs   *)
(* to know who holds a link's token: a handler between its claim and its   *)
(* end is the only one of its link, and the flags say so.  The second      *)
(* needs the policy of a value that is still to be written, and that a     *)
(* value in the store is of a submission that was made.                    *)
(*                                                                         *)
(* And one about SecretDiscovery, for any sessions, names, keys, policies  *)
(* and edits of the policy: who is told which names.                       *)
(***************************************************************************)
EXTENDS PasteServer, SecretDiscovery, TLAPS

Forms ==
  {<<>>} \cup {<<LinkName[l]>> : l \in Link \ Bulk}
         \cup {parse_env_dump(d) : d \in Dumps}

PasteTypeOK ==
  /\ server \in [Link -> {"none", "up", "exited"}]
  /\ expired \subseteq Link
  /\ req \in [Link -> [in_progress : BOOLEAN, completed : BOOLEAN]]
  /\ signal \in [Link -> {"open", "sent"}]
  /\ pc \in [Post -> {"new"} \cup Running \cup Ended]
  /\ post \in [Post -> [link : Link \cup {Nobody}, update : BOOLEAN,
                        dests : BOOLEAN, keys : Forms]]
  /\ existing \in [Post -> SUBSET Name]
  /\ line \in [Post -> Nat \ {0}]
  /\ landed \in [Post -> BOOLEAN]
  /\ store \in [Name -> Post \cup {Seed, Nobody}]
  /\ policy \in [Name -> Post \cup {Nobody}]
  /\ lock \in Link \cup {Nobody}

\* Between the claim of the token and its completion or release, ...
Claimed == {"listing", "storing", "locked", "setting"}

\* ... and after its completion.
Completed == {"completing", "responding", "answered"}

\* A handler that has claimed a token is the only one, and the token is
\* still to be used; after a completion it is not.
Token ==
  /\ \A p \in Post : pc[p] \in Claimed =>
       /\ post[p].link \in Link
       /\ req[post[p].link].in_progress /\ ~req[post[p].link].completed
  /\ \A p, q \in Post :
       /\ pc[p] \in Claimed /\ pc[q] \in Claimed
       /\ post[p].link = post[q].link
       => p = q
  /\ \A p \in Post : pc[p] \in Completed =>
       post[p].link \in Link /\ req[post[p].link].completed

\* A value that may be written with a destination list has its policy, and
\* so has one that was; what is in the store was submitted.
Guarded ==
  /\ \A p \in Post : pc[p] = "setting" /\ post[p].dests =>
       \A n \in Name : Key(p) = n => policy[n] # Nobody
  /\ \A n \in Name : store[n] \in Post =>
       /\ pc[store[n]] # "new"
       /\ post[store[n]].dests => policy[n] # Nobody

PInv ==
  /\ PasteTypeOK
  /\ Token
  /\ UsedOnce
  /\ Guarded

-----------------------------------------------------------------------------

LEMMA InitPInv == Init => PInv
<1> SUFFICES ASSUME Init PROVE PInv
  OBVIOUS
<1> USE PasteAssumption DEF Init
<1>1. PasteTypeOK
  <2>1. NoForm \in [link : Link \cup {Nobody}, update : BOOLEAN,
                    dests : BOOLEAN, keys : Forms]
    BY DEF NoForm, Forms
  <2>2. post \in [Post -> [link : Link \cup {Nobody}, update : BOOLEAN,
                           dests : BOOLEAN, keys : Forms]]
    BY <2>1
  <2>3. /\ server \in [Link -> {"none", "up", "exited"}]
        /\ expired \subseteq Link
        /\ req \in [Link -> [in_progress : BOOLEAN, completed : BOOLEAN]]
        /\ signal \in [Link -> {"open", "sent"}]
        /\ pc \in [Post -> {"new"} \cup Running \cup Ended]
        /\ lock \in Link \cup {Nobody}
    OBVIOUS
  <2>4. /\ existing \in [Post -> SUBSET Name]
        /\ line \in [Post -> Nat \ {0}]
        /\ landed \in [Post -> BOOLEAN]
    OBVIOUS
  <2>5. /\ store \in [Name -> Post \cup {Seed, Nobody}]
        /\ policy \in [Name -> Post \cup {Nobody}]
    OBVIOUS
  <2> QED
    BY <2>2, <2>3, <2>4, <2>5 DEF PasteTypeOK
<1>2. Token /\ UsedOnce
  BY DEF Token, UsedOnce, Claimed, Completed
<1>3. Guarded
  BY DEF Guarded
<1> QED
  BY <1>1, <1>2, <1>3 DEF PInv

\* The invariant gives what the runs check.
LEMMA PInvGuards == PInv => ValueHasItsPolicy
BY DEF PInv, Guarded, ValueHasItsPolicy

-----------------------------------------------------------------------------
(* The token.  What a step does to it is one of four things.               *)

\* It is claimed for a submission that was not made before.
LEMMA ClaimKeepsToken ==
  ASSUME PInv, NEW p \in Post, NEW l \in Link, pc[p] = "new",
         validate_request_state(l), claim_request(l),
         NEW where \in {"listing", "storing"}, Goto(p, where),
         NEW form, form.link = l, post' = [post EXCEPT ![p] = form]
  PROVE  Token' /\ UsedOnce'
<1>1. /\ pc'[p] = where /\ post'[p].link = l
      /\ \A q \in Post : q # p => pc'[q] = pc[q] /\ post'[q] = post[q]
  BY DEF PInv, PasteTypeOK, Goto
<1>2. /\ req'[l].in_progress /\ ~req'[l].completed
      /\ \A k \in Link : k # l => req'[k] = req[k]
  BY DEF PInv, PasteTypeOK, validate_request_state, claim_request
<1> USE DEF PInv, Token, UsedOnce, Claimed, Completed
<1>3. \A q \in Post : pc[q] \in Claimed \cup Completed => post[q].link # l
  BY DEF validate_request_state
<1>4. \A q \in Post : pc'[q] \in Claimed =>
        /\ post'[q].link \in Link
        /\ req'[post'[q].link].in_progress /\ ~req'[post'[q].link].completed
  BY <1>1, <1>2, <1>3
<1>5. \A q, r \in Post :
        /\ pc'[q] \in Claimed /\ pc'[r] \in Claimed
        /\ post'[q].link = post'[r].link
        => q = r
  BY <1>1, <1>3
<1>6. \A q \in Post : pc'[q] \in Completed =>
        post'[q].link \in Link /\ req'[post'[q].link].completed
  BY <1>1, <1>2, <1>3
<1>7. UsedOnce'
  BY <1>1
<1> QED
  BY <1>4, <1>5, <1>6, <1>7

\* Handlers move on, or are cut off, without touching it: none enters the
\* claimed part or the completed part.
LEMMA MovesKeepToken ==
  ASSUME PInv, UNCHANGED <<req, post>>,
         \A p \in Post : /\ pc'[p] \in Claimed => pc[p] \in Claimed
                         /\ pc'[p] \in Completed => pc[p] \in Completed
  PROVE  Token' /\ UsedOnce'
<1>1. Token'
  BY DEF PInv, Token
<1>2. UsedOnce'
  BY DEF PInv, UsedOnce, Completed
<1> QED
  BY <1>1, <1>2

\* The handler that has it releases it and ends.
LEMMA ReleaseKeepsToken ==
  ASSUME PInv, NEW p \in Post, pc[p] \in Claimed, Release(p), UNCHANGED post
  PROVE  Token' /\ UsedOnce'
<1> DEFINE l == post[p].link
<1> USE DEF PInv
<1>1. l \in Link
  BY DEF Token
<1>2. /\ pc'[p] = "refused"
      /\ \A q \in Post : q # p => pc'[q] = pc[q]
  BY DEF Release, Goto, PasteTypeOK
<1>3. /\ req'[l].completed = req[l].completed
      /\ \A k \in Link : k # l => req'[k] = req[k]
  BY <1>1 DEF Release, release_request, PasteTypeOK
<1>4. \A q \in Post : q # p /\ pc[q] \in Claimed => post[q].link # l
  BY DEF Token
<1>5. \A q \in Post : pc'[q] \in Claimed => q # p /\ pc[q] \in Claimed
  BY <1>2 DEF Claimed
<1>6. \A q \in Post : pc'[q] \in Completed => pc[q] \in Completed
  BY <1>2 DEF Completed
<1>7. Token'
  BY <1>1, <1>2, <1>3, <1>4, <1>5, <1>6 DEF Token
<1>8. UsedOnce'
  BY <1>6 DEF UsedOnce, Completed
<1> QED
  BY <1>7, <1>8

\* The handler that has it uses it up.
LEMMA CompleteKeepsToken ==
  ASSUME PInv, NEW p \in Post, complete(p)
  PROVE  Token' /\ UsedOnce'
<1> DEFINE l == post[p].link
<1> USE DEF PInv
<1>0. pc[p] \in Claimed /\ post' = post
  BY DEF complete, Claimed, handler
<1>1. l \in Link /\ ~req[l].completed
  BY <1>0 DEF Token
<1>2. /\ pc'[p] = "completing"
      /\ \A q \in Post : q # p => pc'[q] = pc[q]
  BY DEF complete, Goto, PasteTypeOK
<1>3. /\ req'[l].completed
      /\ \A k \in Link : k # l => req'[k] = req[k]
  BY <1>1 DEF complete, complete_request, PasteTypeOK
<1>4. \A q \in Post : q # p /\ pc[q] \in Claimed => post[q].link # l
  BY <1>0 DEF Token
<1>5. \A q \in Post : pc'[q] \in Claimed => q # p /\ pc[q] \in Claimed
  BY <1>2 DEF Claimed
<1>6. \A q \in Post : q # p /\ pc'[q] \in Completed =>
        pc[q] \in Completed /\ post[q].link \in Link /\ post[q].link # l
  BY <1>1, <1>2 DEF Token
<1>7. Token'
  <2>1. \A q \in Post : pc'[q] \in Completed =>
          post'[q].link \in Link /\ req'[post'[q].link].completed
    BY <1>0, <1>1, <1>3, <1>6 DEF Token
  <2> QED
    BY <2>1, <1>0, <1>1, <1>3, <1>4, <1>5 DEF Token
<1>8. UsedOnce'
  BY <1>0, <1>6 DEF UsedOnce, Completed
<1> QED
  BY <1>7, <1>8

-----------------------------------------------------------------------------
(* The store and the policies.                                             *)

\* Policies are added, values are written by handlers that are about to, and
\* forms are kept, but for those that were not submitted yet.
LEMMA GuardedKept ==
  ASSUME PInv,
         \A n \in Name : policy[n] # Nobody => policy'[n] # Nobody,
         \A p \in Post : pc[p] # "new" => pc'[p] # "new" /\ post'[p] = post[p],
         \A p \in Post : pc'[p] = "setting" /\ post'[p].dests =>
           \A n \in Name : Key(p)' = n => policy'[n] # Nobody,
         \A n \in Name : store'[n] = store[n] \/
           \E p \in Post : pc[p] = "setting" /\ Key(p) = n /\ store'[n] = p
  PROVE  Guarded'
<1> USE DEF PInv, Guarded
<1>1. ASSUME NEW n \in Name, store'[n] \in Post
      PROVE  /\ pc'[store'[n]] # "new"
             /\ post'[store'[n]].dests => policy'[n] # Nobody
  <2>1. CASE store'[n] = store[n]
    BY <1>1, <2>1
  <2>2. ASSUME NEW p \in Post, pc[p] = "setting", Key(p) = n, store'[n] = p
        PROVE  /\ pc'[store'[n]] # "new"
               /\ post'[store'[n]].dests => policy'[n] # Nobody
    BY <2>2
  <2> QED
    BY <2>1, <2>2
<1> QED
  BY <1>1

\* A step of one handler that leaves the policies and the store alone, and
\* does not come to a value that needs a policy.
LEMMA MoveKeepsGuarded ==
  ASSUME PInv, NEW p \in Post, NEW where, Goto(p, where), where # "new",
         where = "setting" => ~post[p].dests,
         \A q \in Post : q # p => line'[q] = line[q],
         UNCHANGED <<post, store, policy>>
  PROVE  Guarded'
<1>1. /\ pc'[p] = where
      /\ \A q \in Post : q # p => pc'[q] = pc[q]
  BY DEF Goto, PInv, PasteTypeOK
<1>2. ASSUME NEW q \in Post, pc'[q] = "setting", post'[q].dests
      PROVE  q # p /\ pc[q] = "setting" /\ Key(q)' = Key(q)
  BY <1>1, <1>2 DEF Key
<1>3. \A q \in Post : pc'[q] = "setting" /\ post'[q].dests =>
        \A n \in Name : Key(q)' = n => policy'[n] # Nobody
  BY <1>2 DEF PInv, Guarded
<1> QED
  BY <1>1, <1>3, GuardedKept

-----------------------------------------------------------------------------
(* Steps of the handlers.                                                  *)

\* A submission: it is turned down, or claims the token of its link.
LEMMA SubmitStep ==
  ASSUME PInv, NEW p \in Post, NEW l \in Link, NEW names \in Forms,
         pc[p] = "new", Submit(p, l, names),
         UNCHANGED <<server, expired, signal, existing, line, landed, store,
                     policy, lock>>
  PROVE  PInv'
<1> USE DEF PInv
<1>1. CASE Reject(p)
  <2>1. PasteTypeOK'
    BY <1>1 DEF PasteTypeOK, Reject, Goto, Ended
  <2>2. \A q \in Post : /\ pc'[q] \in Claimed => pc[q] \in Claimed
                        /\ pc'[q] \in Completed => pc[q] \in Completed
    BY <1>1 DEF PasteTypeOK, Reject, Goto, Claimed, Completed
  <2>3. Token' /\ UsedOnce'
    BY <1>1, <2>2, MovesKeepToken DEF Reject
  <2>4. Guarded'
    BY <1>1, MoveKeepsGuarded DEF Reject
  <2> QED
    BY <2>1, <2>3, <2>4
<1>2. ASSUME NEW update \in BOOLEAN, NEW listed \in BOOLEAN,
             validate_request_state(l), claim_request(l),
             post' = [post EXCEPT ![p] = [link |-> l, update |-> update,
                                          dests |-> listed, keys |-> names]],
             Goto(p, IF update THEN "storing" ELSE "listing")
      PROVE  PInv'
  <2> DEFINE form == [link |-> l, update |-> update, dests |-> listed, keys |-> names]
             where == IF update THEN "storing" ELSE "listing"
  <2>0. where \in {"listing", "storing"}
    OBVIOUS
  <2>1. /\ pc'[p] = where
        /\ pc' \in [Post -> {"new"} \cup Running \cup Ended]
        /\ \A q \in Post : q # p => pc'[q] = pc[q] /\ post'[q] = post[q]
    BY <1>2 DEF PasteTypeOK, Goto, Running, Waiting
  <2>2. form \in [link : Link \cup {Nobody}, update : BOOLEAN,
                  dests : BOOLEAN, keys : Forms]
    OBVIOUS
  <2>3. req' \in [Link -> [in_progress : BOOLEAN, completed : BOOLEAN]]
    BY <1>2 DEF PasteTypeOK, claim_request
  <2>4. PasteTypeOK'
    BY <1>2, <2>1, <2>2, <2>3 DEF PasteTypeOK
  <2>5. Token' /\ UsedOnce'
    <3>1. form.link = l /\ post' = [post EXCEPT ![p] = form]
      BY <1>2
    <3> HIDE DEF form, where
    <3> QED
      BY <1>2, <2>0, <3>1, ClaimKeepsToken DEF where
  <2>6. Guarded'
    <3>1. \A q \in Post : pc'[q] = "setting" => q # p /\ pc[q] = "setting"
      BY <2>0, <2>1
    <3>2. \A q \in Post : pc'[q] = "setting" /\ post'[q].dests =>
            \A n \in Name : Key(q)' = n => policy'[n] # Nobody
      BY <2>1, <3>1 DEF Key, Guarded
    <3>3. \A q \in Post : pc[q] # "new" => pc'[q] # "new" /\ post'[q] = post[q]
      BY <2>1
    <3> QED
      BY <3>2, <3>3, GuardedKept
  <2> QED
    BY <2>4, <2>5, <2>6
<1> QED
  BY <1>1, <1>2 DEF Submit

\* A handler releases the token; only values may have been written by it.
LEMMA ReleaseType ==
  ASSUME PInv, NEW p \in Post, pc[p] \in Claimed, Release(p)
  PROVE  /\ req' \in [Link -> [in_progress : BOOLEAN, completed : BOOLEAN]]
         /\ pc' \in [Post -> {"new"} \cup Running \cup Ended]
         /\ Goto(p, "refused")
BY DEF PInv, PasteTypeOK, Release, release_request, Goto, Ended

\* A line is not stored: types, token, and where the handler is now.
LEMMA SkipStep ==
  ASSUME PInv, NEW p \in Post, pc[p] \in Claimed, Skip(p), UNCHANGED post
  PROVE  /\ req' \in [Link -> [in_progress : BOOLEAN, completed : BOOLEAN]]
         /\ pc' \in [Post -> {"new"} \cup Running \cup Ended]
         /\ line' \in [Post -> Nat \ {0}]
         /\ Token' /\ UsedOnce'
         /\ \E where \in {"storing", "refused"} : Goto(p, where)
         /\ \A q \in Post : q # p => line'[q] = line[q]
<1> USE DEF PInv
<1>1. CASE post[p].link \in Bulk
  <2>1. line' = [line EXCEPT ![p] = @ + 1] /\ Goto(p, "storing") /\ UNCHANGED req
    BY <1>1 DEF Skip
  <2>2. line[p] + 1 \in Nat \ {0}
    BY DEF PasteTypeOK
  <2>3. line' \in [Post -> Nat \ {0}] /\ \A q \in Post : q # p => line'[q] = line[q]
    BY <2>1, <2>2 DEF PasteTypeOK
  <2>4. pc' \in [Post -> {"new"} \cup Running \cup Ended]
    BY <2>1 DEF PasteTypeOK, Goto, Running, Waiting
  <2>5. \A q \in Post : /\ pc'[q] \in Claimed => pc[q] \in Claimed
                        /\ pc'[q] \in Completed => pc[q] \in Completed
    BY <2>1 DEF PasteTypeOK, Goto, Claimed, Completed
  <2>6. Token' /\ UsedOnce'
    BY <2>1, <2>5, MovesKeepToken
  <2> QED
    BY <2>1, <2>3, <2>4, <2>6 DEF PasteTypeOK
<1>2. CASE post[p].link \notin Bulk
  <2>1. Release(p) /\ UNCHANGED line
    BY <1>2 DEF Skip
  <2> QED
    BY <2>1, ReleaseType, ReleaseKeepsToken DEF PasteTypeOK
<1> QED
  BY <1>1, <1>2

\* A handler goes on to another place of the same part.
LEMMA GotoStep ==
  ASSUME PInv, NEW p \in Post, NEW where \in Running \cup Ended, Goto(p, where),
         where \in Claimed => pc[p] \in Claimed,
         where \in Completed => pc[p] \in Completed,
         UNCHANGED <<req, post>>
  PROVE  /\ pc' \in [Post -> {"new"} \cup Running \cup Ended]
         /\ Token' /\ UsedOnce'
<1>1. pc' \in [Post -> {"new"} \cup Running \cup Ended]
  BY DEF PInv, PasteTypeOK, Goto
<1>2. \A q \in Post : /\ pc'[q] \in Claimed => pc[q] \in Claimed
                      /\ pc'[q] \in Completed => pc[q] \in Completed
  BY DEF PInv, PasteTypeOK, Goto
<1> QED
  BY <1>1, <1>2, MovesKeepToken

LEMMA DestinationsFailStep ==
  ASSUME PInv, NEW p \in Post, parse_destinations_fails(p)
  PROVE  PInv'
<1> USE DEF PInv
<1>1. pc[p] \in Claimed /\ Release(p) /\ UNCHANGED post
  BY DEF parse_destinations_fails, Claimed, handler
<1>2. PasteTypeOK'
  BY <1>1, ReleaseType DEF PasteTypeOK, parse_destinations_fails, handler
<1>3. Token' /\ UsedOnce'
  BY <1>1, ReleaseKeepsToken
<1>4. Guarded'
  BY <1>1, ReleaseType, MoveKeepsGuarded DEF parse_destinations_fails, handler
<1> QED
  BY <1>2, <1>3, <1>4

LEMMA ListStep ==
  ASSUME PInv, NEW p \in Post, list(p)
  PROVE  PInv'
<1> USE DEF PInv
<1>0. pc[p] \in Claimed
  BY DEF list, Claimed
<1>1. CASE existing' = [existing EXCEPT ![p] = Present] /\ Goto(p, "storing") /\ UNCHANGED req
  <2>1. Present \in SUBSET Name
    BY DEF Present
  <2>2. "storing" \in Running /\ "storing" \notin Completed
    BY DEF Running, Waiting, Completed
  <2>3. UNCHANGED <<req, post>>
    BY <1>1 DEF list
  <2>4. pc' \in [Post -> {"new"} \cup Running \cup Ended] /\ Token' /\ UsedOnce'
    BY <1>0, <1>1, <2>2, <2>3, GotoStep
  <2>5. PasteTypeOK'
    BY <1>1, <2>1, <2>4 DEF PasteTypeOK, list
  <2>6. Guarded'
    BY <1>1, MoveKeepsGuarded DEF list
  <2> QED
    BY <2>4, <2>5, <2>6
<1>2. CASE Release(p) /\ UNCHANGED existing
  <2>1. PasteTypeOK'
    BY <1>0, <1>2, ReleaseType DEF PasteTypeOK, list
  <2>2. Token' /\ UsedOnce'
    BY <1>0, <1>2, ReleaseKeepsToken DEF list
  <2>3. Guarded'
    BY <1>0, <1>2, ReleaseType, MoveKeepsGuarded DEF list
  <2> QED
    BY <2>1, <2>2, <2>3
<1> QED
  BY <1>1, <1>2 DEF list

\* The line is looked at.
LEMMA LookStep ==
  ASSUME PInv, NEW p \in Post, set_allowed_destinations(p)
  PROVE  PInv'
<1> USE DEF PInv
<1>0. pc[p] \in Claimed /\ UNCHANGED <<server, expired, signal, post, existing,
                                      landed, store, policy>>
  BY DEF set_allowed_destinations, Claimed
<1>1. CASE Skip(p) /\ UNCHANGED lock
  <2>1. PasteTypeOK'
    BY <1>0, <1>1, SkipStep DEF PasteTypeOK
  <2>2. Guarded'
    BY <1>0, <1>1, SkipStep, MoveKeepsGuarded
  <2> QED
    BY <1>0, <1>1, <2>1, <2>2, SkipStep
<1>2. CASE ~post[p].dests /\ Goto(p, "setting") /\ UNCHANGED <<line, req, lock>>
  <2>1. "setting" \in Running /\ "setting" \notin Completed
    BY DEF Running, Waiting, Completed
  <2>2. pc' \in [Post -> {"new"} \cup Running \cup Ended] /\ Token' /\ UsedOnce'
    BY <1>0, <1>2, <2>1, GotoStep
  <2>3. PasteTypeOK'
    BY <1>0, <1>2, <2>2 DEF PasteTypeOK
  <2>4. Guarded'
    BY <1>0, <1>2, MoveKeepsGuarded
  <2> QED
    BY <2>2, <2>3, <2>4
<1>3. CASE lock' = post[p].link /\ Goto(p, "locked") /\ UNCHANGED <<line, req>>
  <2>1. "locked" \in Running /\ "locked" \notin Completed
    BY DEF Running, Waiting, Completed
  <2>2. pc' \in [Post -> {"new"} \cup Running \cup Ended] /\ Token' /\ UsedOnce'
    BY <1>0, <1>3, <2>1, GotoStep
  <2>3. post[p].link \in Link
    BY <1>0 DEF Token
  <2>4. PasteTypeOK'
    BY <1>0, <1>3, <2>2, <2>3 DEF PasteTypeOK
  <2>5. Guarded'
    BY <1>0, <1>3, MoveKeepsGuarded
  <2> QED
    BY <2>2, <2>4, <2>5
<1> QED
  BY <1>1, <1>2, <1>3 DEF set_allowed_destinations, PolicyFails

\* The policy goes to its file, and then the value may go to its own.
LEMMA WriteStep ==
  ASSUME PInv, NEW p \in Post, write_atomic(p)
  PROVE  PInv'
<1> USE DEF PInv
<1>0. /\ pc[p] \in Claimed /\ lock' = Nobody
      /\ UNCHANGED <<server, expired, signal, post, existing, landed, store>>
  BY DEF write_atomic, Claimed
<1>1. CASE Skip(p) /\ UNCHANGED policy
  <2>1. PasteTypeOK'
    BY <1>0, <1>1, SkipStep DEF PasteTypeOK
  <2>2. Guarded'
    BY <1>0, <1>1, SkipStep, MoveKeepsGuarded
  <2> QED
    BY <1>0, <1>1, <2>1, <2>2, SkipStep
<1>2. CASE /\ policy' = [policy EXCEPT ![Key(p)] = p]
           /\ Goto(p, "setting") /\ UNCHANGED <<line, req>>
  <2>1. "setting" \in Running /\ "setting" \notin Completed
    BY DEF Running, Waiting, Completed
  <2>2. pc' \in [Post -> {"new"} \cup Running \cup Ended] /\ Token' /\ UsedOnce'
    BY <1>0, <1>2, <2>1, GotoStep
  <2>3. PasteTypeOK'
    BY <1>0, <1>2, <2>2 DEF PasteTypeOK
  <2>4. \A n \in Name : policy'[n] = IF Key(p) = n THEN p ELSE policy[n]
    BY <1>2 DEF PasteTypeOK
  <2>5. p # Nobody
    BY PasteAssumption
  <2>6. \A q \in Post : Key(q)' = Key(q)
    BY <1>0, <1>2 DEF Key
  <2>7. \A q \in Post : q # p => pc'[q] = pc[q]
    BY <1>2 DEF PasteTypeOK, Goto
  <2>8. \A q \in Post : pc'[q] = "setting" /\ post'[q].dests =>
          \A n \in Name : Key(q)' = n => policy'[n] # Nobody
    BY <1>0, <2>4, <2>5, <2>6, <2>7 DEF Guarded
  <2>9. Guarded'
    <3>1. pc'[p] # "new"
      BY <1>2 DEF PasteTypeOK, Goto
    <3> QED
      BY <1>0, <2>4, <2>5, <2>7, <2>8, <3>1, GuardedKept
  <2> QED
    BY <2>2, <2>3, <2>9
<1> QED
  BY <1>1, <1>2 DEF write_atomic, PolicyFails

\* What a handler that is setting does to the store and where it goes.
LEMMA StoreKeepsGuarded ==
  ASSUME PInv, NEW p \in Post, pc[p] = "setting", Stored(p) \/ UNCHANGED store,
         NEW where, Goto(p, where), where \notin {"new", "setting"},
         \A q \in Post : q # p => line'[q] = line[q],
         UNCHANGED <<post, policy>>
  PROVE  Guarded' /\ store' \in [Name -> Post \cup {Seed, Nobody}]
<1> USE DEF PInv
<1>1. /\ pc'[p] = where
      /\ \A q \in Post : q # p => pc'[q] = pc[q]
  BY DEF Goto, PasteTypeOK
<1>2. \A q \in Post : pc'[q] = "setting" =>
        q # p /\ pc[q] = "setting" /\ Key(q)' = Key(q)
  BY <1>1 DEF Key
<1>3. \A q \in Post : pc'[q] = "setting" /\ post'[q].dests =>
        \A n \in Name : Key(q)' = n => policy'[n] # Nobody
  BY <1>2 DEF Guarded
<1>4. \A n \in Name : store'[n] = store[n] \/ (Key(p) = n /\ store'[n] = p)
  BY DEF Stored, PasteTypeOK
<1>5. store' \in [Name -> Post \cup {Seed, Nobody}]
  BY DEF Stored, PasteTypeOK
<1> QED
  BY <1>1, <1>3, <1>4, <1>5, GuardedKept

LEMMA SetStep ==
  ASSUME PInv, NEW p \in Post, set(p)
  PROVE  PInv'
<1> USE DEF PInv
<1>1. "storing" \in Running /\ "storing" \notin Completed /\ pc[p] \in Claimed
  BY DEF Running, Waiting, Completed, Claimed, set
<1>2. pc' \in [Post -> {"new"} \cup Running \cup Ended] /\ Token' /\ UsedOnce'
  BY <1>1, GotoStep DEF set
<1>3. line[p] + 1 \in Nat \ {0} /\ line \in [Post -> Nat \ {0}]
  BY DEF PasteTypeOK
<1>4. line' \in [Post -> Nat \ {0}] /\ \A q \in Post : q # p => line'[q] = line[q]
  BY <1>3 DEF set
<1>5. landed' \in [Post -> BOOLEAN]
  BY DEF set, PasteTypeOK
<1>6. Guarded' /\ store' \in [Name -> Post \cup {Seed, Nobody}]
  BY <1>4, StoreKeepsGuarded DEF set
<1>7. PasteTypeOK'
  BY <1>2, <1>4, <1>5, <1>6 DEF PasteTypeOK, set
<1> QED
  BY <1>2, <1>6, <1>7

LEMMA SetFailsStep ==
  ASSUME PInv, NEW p \in Post, set_fails(p)
  PROVE  PInv'
<1> USE DEF PInv
<1>1. pc[p] \in Claimed /\ Skip(p) /\ UNCHANGED post
  BY DEF Claimed, set_fails
<1>2. Guarded' /\ store' \in [Name -> Post \cup {Seed, Nobody}]
  BY <1>1, SkipStep, StoreKeepsGuarded DEF set_fails
<1>3. PasteTypeOK'
  BY <1>1, <1>2, SkipStep DEF PasteTypeOK, set_fails
<1> QED
  BY <1>1, <1>2, <1>3, SkipStep

LEMMA CompleteStep ==
  ASSUME PInv, NEW p \in Post, complete(p)
  PROVE  PInv'
<1> USE DEF PInv
<1>1. req' \in [Link -> [in_progress : BOOLEAN, completed : BOOLEAN]]
  BY DEF PasteTypeOK, complete, complete_request
<1>2. pc' \in [Post -> {"new"} \cup Running \cup Ended]
  BY DEF PasteTypeOK, complete, Goto, Running, Waiting
<1>3. PasteTypeOK'
  BY <1>1, <1>2 DEF PasteTypeOK, complete, handler
<1>4. Guarded'
  BY MoveKeepsGuarded DEF complete, handler
<1> QED
  BY <1>3, <1>4, CompleteKeepsToken

LEMMA SubmittedStep ==
  ASSUME PInv, NEW p \in Post, submitted(p)
  PROVE  PInv'
<1> USE DEF PInv
<1>1. /\ "responding" \in Running /\ "responding" \notin Claimed
      /\ pc[p] \in Completed
  BY DEF Running, Waiting, Completed, Claimed, submitted
<1>2. pc' \in [Post -> {"new"} \cup Running \cup Ended] /\ Token' /\ UsedOnce'
  BY <1>1, GotoStep DEF submitted, handler
<1>3. signal' \in [Link -> {"open", "sent"}]
  BY DEF PasteTypeOK, submitted
<1>4. PasteTypeOK'
  BY <1>2, <1>3 DEF PasteTypeOK, submitted, handler
<1>5. Guarded'
  BY MoveKeepsGuarded DEF submitted, handler
<1> QED
  BY <1>2, <1>4, <1>5

LEMMA RespondStep ==
  ASSUME PInv, NEW p \in Post, respond(p)
  PROVE  PInv'
<1> USE DEF PInv
<1>1. "answered" \in Ended /\ "answered" \notin Claimed /\ pc[p] \in Completed
  BY DEF Ended, Completed, Claimed, respond
<1>2. pc' \in [Post -> {"new"} \cup Running \cup Ended] /\ Token' /\ UsedOnce'
  BY <1>1, GotoStep DEF respond, handler
<1>3. PasteTypeOK'
  BY <1>2 DEF PasteTypeOK, respond, handler
<1>4. Guarded'
  BY MoveKeepsGuarded DEF respond, handler
<1> QED
  BY <1>2, <1>3, <1>4

LEMMA HangUpStep ==
  ASSUME PInv, NEW p \in Post, hang_up(p)
  PROVE  PInv'
<1> USE DEF PInv
<1>0. Goto(p, "dropped") /\ UNCHANGED <<server, expired, req, signal, post, existing,
                                        line, landed, policy, lock>>
  BY DEF hang_up, handler
<1>1. "dropped" \in Ended /\ "dropped" \notin Claimed /\ "dropped" \notin Completed
  BY DEF Ended, Completed, Claimed
<1>2. pc' \in [Post -> {"new"} \cup Running \cup Ended] /\ Token' /\ UsedOnce'
  BY <1>0, <1>1, GotoStep
<1>3. Guarded' /\ store' \in [Name -> Post \cup {Seed, Nobody}]
  <2>1. CASE UNCHANGED store
    BY <1>0, <2>1, MoveKeepsGuarded DEF PasteTypeOK
  <2>2. CASE pc[p] = "setting" /\ Stored(p)
    BY <1>0, <2>2, StoreKeepsGuarded
  <2> QED
    BY <2>1, <2>2 DEF hang_up
<1>4. PasteTypeOK'
  BY <1>0, <1>2, <1>3 DEF PasteTypeOK
<1> QED
  BY <1>2, <1>3, <1>4

-----------------------------------------------------------------------------
(* Steps of the processes.                                                 *)

\* A process starts, or its link's time is up.
LEMMA ClockStep ==
  ASSUME PInv, NEW l \in Link, Spawn(l) \/ expire(l)
  PROVE  PInv'
<1> USE DEF PInv
<1>1. /\ UNCHANGED <<req, signal, pc, post, existing, line, landed, store, policy, lock>>
      /\ server' \in [Link -> {"none", "up", "exited"}]
      /\ expired' \subseteq Link
  BY DEF Spawn, expire, handler, PasteTypeOK
<1>2. PasteTypeOK'
  BY <1>1 DEF PasteTypeOK
<1>3. Token' /\ UsedOnce' /\ Guarded'
  BY <1>1 DEF Token, UsedOnce, Guarded, Key
<1> QED
  BY <1>2, <1>3

\* A process ends, with or without the policy it was writing.
LEMMA EndsStep ==
  ASSUME PInv, NEW l \in Link, Ends(l),
         policy' \in [Name -> Post \cup {Nobody}],
         \A n \in Name : policy[n] # Nobody => policy'[n] # Nobody
  PROVE  PInv'
<1> USE DEF PInv
<1>1. /\ UNCHANGED <<expired, req, signal, post, existing, line, landed, lock>>
      /\ server' = [server EXCEPT ![l] = "exited"]
      /\ pc' = [p \in Post |-> IF p \in Of(l, Running) THEN "dropped" ELSE pc[p]]
  BY DEF Ends, handler
<1>2. PICK written \in SUBSET Of(l, {"setting"}) :
        store' = [n \in Name |->
                    IF \E p \in written : Key(p) = n
                    THEN CHOOSE p \in written : Key(p) = n ELSE store[n]]
  BY DEF Ends
<1>3. \A p \in Post : pc'[p] = pc[p] \/ pc'[p] = "dropped"
  BY <1>1
<1>4. ASSUME NEW n \in Name
      PROVE  \/ store'[n] = store[n]
             \/ \E p \in Post : pc[p] = "setting" /\ Key(p) = n /\ store'[n] = p
  <2>1. CASE \E p \in written : Key(p) = n
    <3>1. PICK p \in written : Key(p) = n /\ store'[n] = p
      BY <1>2, <2>1
    <3> QED
      BY <3>1 DEF Of
  <2>2. CASE ~\E p \in written : Key(p) = n
    BY <1>2, <2>2
  <2> QED
    BY <2>1, <2>2
<1>5. store' \in [Name -> Post \cup {Seed, Nobody}]
  <2>1. \A n \in Name : store'[n] \in Post \cup {Seed, Nobody}
    BY <1>4 DEF PasteTypeOK
  <2>2. store' = [n \in Name |-> store'[n]]
    BY <1>2
  <2> QED
    BY <2>1, <2>2
<1>6. PasteTypeOK'
  <2>1. pc' \in [Post -> {"new"} \cup Running \cup Ended]
    BY <1>1 DEF PasteTypeOK, Ended
  <2> QED
    BY <1>1, <1>5, <2>1 DEF PasteTypeOK
<1>7. Token' /\ UsedOnce'
  <2>1. \A p \in Post : /\ pc'[p] \in Claimed => pc[p] \in Claimed
                        /\ pc'[p] \in Completed => pc[p] \in Completed
    BY <1>3 DEF Claimed, Completed
  <2> QED
    BY <1>1, <2>1, MovesKeepToken
<1>8. Guarded'
  <2>1. \A p \in Post : pc'[p] = "setting" /\ post'[p].dests =>
          \A n \in Name : Key(p)' = n => policy'[n] # Nobody
    BY <1>1, <1>3 DEF Guarded, Key
  <2>2. \A p \in Post : pc[p] # "new" => pc'[p] # "new" /\ post'[p] = post[p]
    BY <1>1, <1>3
  <2> QED
    BY <1>4, <2>1, <2>2, GuardedKept
<1> QED
  BY <1>6, <1>7, <1>8

LEMMA ExitStep ==
  ASSUME PInv, NEW l \in Link, exit(l) \/ kill(l)
  PROVE  PInv'
<1>1. Ends(l)
  BY DEF exit, kill
<1>2. CASE UNCHANGED policy
  BY <1>1, <1>2, EndsStep DEF PInv, PasteTypeOK
<1>3. ASSUME NEW p \in Of(l, {"locked"}), policy' = [policy EXCEPT ![Key(p)] = p]
      PROVE  PInv'
  <2>1. p \in Post /\ p # Nobody
    BY PasteAssumption DEF Of
  <2>2. /\ policy' \in [Name -> Post \cup {Nobody}]
        /\ \A n \in Name : policy[n] # Nobody => policy'[n] # Nobody
    BY <1>3, <2>1 DEF PInv, PasteTypeOK
  <2> QED
    BY <1>1, <2>2, EndsStep
<1> QED
  BY <1>2, <1>3 DEF exit, kill

-----------------------------------------------------------------------------

LEMMA NextPInv == PInv /\ [Next]_vars => PInv'
<1> SUFFICES ASSUME PInv, [Next]_vars PROVE PInv'
  OBVIOUS
<1>1. ASSUME NEW l \in Link,
             \/ spawn_request(l) \/ spawn_bulk_request(l)
             \/ expire(l) \/ exit(l) \/ kill(l)
      PROVE  PInv'
  BY <1>1, ClockStep, ExitStep DEF spawn_request, spawn_bulk_request
<1>2. ASSUME NEW p \in Post, post_submit(p)
      PROVE  PInv'
  <2>1. PICK l \in Link \ Bulk : Submit(p, l, <<LinkName[l]>>)
    BY <1>2 DEF post_submit
  <2>2. <<LinkName[l]>> \in Forms
    BY DEF Forms
  <2> QED
    BY <1>2, <2>1, <2>2, SubmitStep DEF post_submit
<1>3. ASSUME NEW p \in Post, post_bulk_submit(p)
      PROVE  PInv'
  <2>1. PICK l \in Bulk, d \in Dumps : Submit(p, l, parse_env_dump(d))
    BY <1>3 DEF post_bulk_submit
  <2>2. l \in Link /\ parse_env_dump(d) \in Forms
    BY PasteAssumption DEF Forms
  <2> QED
    BY <1>3, <2>1, <2>2, SubmitStep DEF post_bulk_submit
<1>4. ASSUME NEW p \in Post, hang_up(p) \/ PostStep(p)
      PROVE  PInv'
  BY <1>4, HangUpStep, DestinationsFailStep, ListStep, LookStep, WriteStep, SetStep,
     SetFailsStep, CompleteStep, SubmittedStep, RespondStep DEF PostStep
<1>5. CASE UNCHANGED vars
  <2>1. UNCHANGED <<server, expired, req, signal, pc, post, existing, line, landed,
                    store, policy, lock>>
    BY <1>5 DEF vars, handler
  <2> QED
    BY <2>1 DEF PInv, PasteTypeOK, Token, UsedOnce, Guarded, Key
<1> QED
  BY <1>1, <1>2, <1>3, <1>4, <1>5 DEF Next

\* A link's token has one holder at most (claim_request), and no value is
\* ahead of its policy, whichever handlers interleave.
THEOREM PasteInvariant == Spec => []PInv
BY InitPInv, NextPInv, PTL DEF Spec

\* A one-shot link is used once: however many submissions arrive while one
\* is being stored, whichever browser hangs up and whichever process dies,
\* at most one submission of a link goes through (claim_request,
\* complete_request, release_request of paste-server).
THEOREM LinksAreUsedOnce == Spec => []UsedOnce
<1>1. PInv => UsedOnce
  BY DEF PInv
<1> QED
  BY <1>1, PasteInvariant, PTL

\* A value that came with a destination list is in fnox only if its name has
\* a policy, whichever writes fail or are cut off, and whichever process is
\* killed with the lock file in place (set_allowed_destinations before set).
THEOREM ValuesAreGuarded == Spec => []ValueHasItsPolicy
BY PasteInvariant, PInvGuards, PTL

-----------------------------------------------------------------------------
(* Secret discovery.                                                       *)

\* The rules a session has read, if it could, are those of a policy that was
\* on file since it began.
RulesWereOnFile(s) ==
  access[s].ok => \E f \in since[s] : f.state # "broken" /\ f.rules = access[s].rules

\* What a session that lists has shown and read.
ListsWithRules(s) ==
  stage[s] = "listing" /\ call[s].via # "chat" =>
    /\ access[s].ok
    /\ call[s].via = "http" \/ call[s].base # "none" =>
         keys.discovery = "set" /\ call[s].token = "discovery"

\* The identity of s may have the name n, by one of the files, and has shown a
\* key where one is asked for.
MayHave(s, files, n) ==
  /\ \E f \in files : f.state # "broken" /\ allows(f.rules, call[s].id, n)
  /\ call[s].via = "http" \/ call[s].base # "none" =>
       keys.discovery = "set" /\ call[s].token = "discovery"

\* The inductive invariant: NamesWerePermitted needs to know what a session
\* that waits for fnox has read and shown, and that what it read, it read from
\* a file that was there since it began.
DiscoveryInv ==
  /\ call \in [Session -> Calls]
  /\ stage = [s \in Session |-> stage[s]]
  /\ access = [s \in Session |-> access[s]]
  /\ told \in [Session -> SUBSET (Names \cup {BadName})]
  /\ since = [s \in Session |-> since[s]]
  /\ \A s \in Session :
       /\ stage[s] = "new" => told[s] = {} /\ ~ access[s].ok
       /\ stage[s] = "arrived" => file \in since[s]
       /\ stage[s] = "up" => call[s].via = "mcp"
       /\ RulesWereOnFile(s)
       /\ ListsWithRules(s)
  /\ NamesWerePermitted

\* At the start no session has read or been told anything.
LEMMA DiscoveryInitInv == DiscoveryInit => DiscoveryInv
  BY DEF DiscoveryInit, DiscoveryInv, RulesWereOnFile, ListsWithRules, NamesWerePermitted

\* A step of one session: where it goes, what it has read and told then, and
\* the files there were since it began; it keeps what it was started with.
SessionDoes(s, where, read, names, files) ==
  /\ UNCHANGED <<env, call>>
  /\ stage' = [stage EXCEPT ![s] = where]
  /\ access' = [access EXCEPT ![s] = read]
  /\ names \in SUBSET (Names \cup {BadName})
  /\ told' = [told EXCEPT ![s] = @ \cup names]
  /\ since' = [since EXCEPT ![s] = files]
  /\ where # "new"
  /\ where = "arrived" => file \in files
  /\ where = "up" => call[s].via = "mcp"
  /\ stage[s] # "new" => since[s] \subseteq files
  /\ read # access[s] => (read.ok => \E f \in files : f.state # "broken" /\ f.rules = read.rules)
  /\ ListsWithRules(s)'
  /\ call[s].via # "chat" => \A n \in names : MayHave(s, files, n)

\* Such a step leaves the others as they are, and the invariant with them.
LEMMA SessionStep ==
  ASSUME DiscoveryInv, NEW s \in Session, NEW where, NEW read, NEW names, NEW files,
         SessionDoes(s, where, read, names, files)
  PROVE  DiscoveryInv'
<1> USE DEF DiscoveryInv, SessionDoes, env
<1>1. \A t \in Session \ {s} :
        /\ stage'[t] = stage[t] /\ access'[t] = access[t] /\ told'[t] = told[t]
        /\ since'[t] = since[t]
  OBVIOUS
<1>2. stage'[s] = where /\ access'[s] = read /\ told'[s] = told[s] \cup names /\ since'[s] = files
  OBVIOUS
<1>3. told' \in [Session -> SUBSET (Names \cup {BadName})]
  <2>1. told \in [Session -> SUBSET (Names \cup {BadName})]
    OBVIOUS
  <2> QED
    BY <2>1
<1>4. RulesWereOnFile(s)'
  <2> SUFFICES ASSUME read.ok
               PROVE  \E f \in files : f.state # "broken" /\ f.rules = read.rules
    BY <1>2 DEF RulesWereOnFile
  <2>1. CASE read # access[s]
    BY <2>1
  <2>2. CASE read = access[s]
    <3>1. stage[s] # "new" /\ since[s] \subseteq files
      BY <2>2
    <3>2. RulesWereOnFile(s)
      OBVIOUS
    <3> QED
      BY <2>2, <3>1, <3>2 DEF RulesWereOnFile
  <2> QED
    BY <2>1, <2>2
<1>5. \A t \in Session : RulesWereOnFile(t)' /\ ListsWithRules(t)'
  <2> TAKE t \in Session
  <2>1. CASE t = s
    BY <2>1, <1>4
  <2>2. CASE t # s
    <3>1. RulesWereOnFile(t) /\ ListsWithRules(t) /\ UNCHANGED <<call, keys>>
      OBVIOUS
    <3>2. stage'[t] = stage[t] /\ access'[t] = access[t] /\ since'[t] = since[t]
      BY <2>2, <1>1
    <3> HIDE DEF DiscoveryInv, SessionDoes, env
    <3>3. RulesWereOnFile(t)'
      BY <3>1, <3>2 DEF RulesWereOnFile
    <3>4. ListsWithRules(t)'
      BY <3>1, <3>2 DEF ListsWithRules
    <3> QED
      BY <3>3, <3>4
  <2> QED
    BY <2>1, <2>2
<1>6. NamesWerePermitted'
  <2> SUFFICES ASSUME NEW t \in Session, call[t].via # "chat", NEW n \in told'[t]
      PROVE  /\ \E f \in since'[t] : f.state # "broken" /\ allows(f.rules, call[t].id, n)
             /\ call[t].via = "http" \/ call[t].base # "none" =>
                  keys.discovery = "set" /\ call[t].token = "discovery"
    BY DEF NamesWerePermitted
  <2>1. CASE t # s
    BY <2>1, <1>1 DEF NamesWerePermitted
  <2>2. CASE t = s /\ n \in names
    BY <2>2, <1>2 DEF MayHave
  <2>3. CASE t = s /\ n \in told[s]
    BY <2>3, <1>2 DEF NamesWerePermitted
  <2> QED
    BY <2>1, <2>2, <2>3, <1>2
<1>7. \A t \in Session :
        /\ stage'[t] = "new" => told'[t] = {} /\ ~ access'[t].ok
        /\ stage'[t] = "arrived" => file' \in since'[t]
        /\ stage'[t] = "up" => call'[t].via = "mcp"
  BY <1>1, <1>2
<1> QED
  BY <1>3, <1>5, <1>6, <1>7

\* Such a step that tells nothing and reads nothing.
LEMMA QuietStep ==
  ASSUME DiscoveryInv, NEW s \in Session,
         UNCHANGED <<env, call, access, told>>,
         NEW where, Goes(s, where),
         NEW files, since' = [since EXCEPT ![s] = files],
         where # "new",
         where = "arrived" => file \in files,
         where = "up" => call[s].via = "mcp",
         where = "listing" => ListsWithRules(s)',
         stage[s] # "new" => since[s] \subseteq files
  PROVE  DiscoveryInv'
<1> DEFINE names == {}
<1>1. stage'[s] = where /\ stage' = [stage EXCEPT ![s] = where]
  BY DEF Goes, DiscoveryInv
<1>2. ListsWithRules(s)'
  BY <1>1 DEF ListsWithRules
<1>3. access' = [access EXCEPT ![s] = access[s]]
  BY DEF DiscoveryInv
<1>4. told' = [told EXCEPT ![s] = @ \cup names] /\ names \in SUBSET (Names \cup {BadName})
  BY DEF DiscoveryInv
<1>5. \A n \in names : FALSE
  OBVIOUS
<1> HIDE DEF names
<1>6. SessionDoes(s, where, access[s], names, files)
  BY <1>1, <1>2, <1>3, <1>4, <1>5 DEF SessionDoes
<1> QED
  BY <1>6, SessionStep

\* The rules that are read are those on file now.
LEMMA RulesAreOnFile ==
  load_access_policy.ok =>
    file.state # "broken" /\ file.rules = load_access_policy.rules
  BY DEF load_access_policy

\* A session that begins goes to a place where it has shown and read nothing.
LEMMA SessionBegins ==
  ASSUME DiscoveryInv, NEW s \in Session, NEW via, Begins(s, via),
         UNCHANGED <<env, call, access, told>>,
         NEW where, Goes(s, where),
         where \in {"arrived", "setting", "refused"}
  PROVE  DiscoveryInv'
  BY QuietStep DEF Begins

\* A session that reads the policy and goes on; its identity may list if it
\* has shown a key where one is asked for.
LEMMA SessionReads ==
  ASSUME DiscoveryInv, NEW s \in Session,
         UNCHANGED <<env, call, told>>,
         NEW files, since' = [since EXCEPT ![s] = files],
         stage[s] # "new" => since[s] \subseteq files,
         file \in files,
         access' = [access EXCEPT ![s] = load_access_policy],
         NEW where, Goes(s, where),
         where \in {"listing", "up", "refused"},
         where = "up" => call[s].via = "mcp",
         where = "listing" =>
           /\ load_access_policy.ok
           /\ call[s].via = "http" \/ call[s].base # "none" =>
                keys.discovery = "set" /\ call[s].token = "discovery"
  PROVE  DiscoveryInv'
<1> DEFINE names == {}
<1>1. stage'[s] = where /\ stage' = [stage EXCEPT ![s] = where]
      /\ access'[s] = load_access_policy
  BY DEF Goes, DiscoveryInv
<1>2. ListsWithRules(s)'
  BY <1>1 DEF ListsWithRules, env
<1>3. told' = [told EXCEPT ![s] = @ \cup names] /\ names \in SUBSET (Names \cup {BadName})
  BY DEF DiscoveryInv
<1>4. \A n \in names : FALSE
  OBVIOUS
<1> HIDE DEF names
<1>5. SessionDoes(s, where, load_access_policy, names, files)
  BY <1>1, <1>2, <1>3, <1>4, RulesAreOnFile DEF SessionDoes
<1> QED
  BY <1>5, SessionStep

\* A session that is told names its identity may have, by the policy it has
\* read or by the one on file.
LEMMA SessionIsTold ==
  ASSUME DiscoveryInv, NEW s \in Session,
         UNCHANGED <<env, call, access>>,
         NEW files, since' = [since EXCEPT ![s] = files],
         stage[s] # "new" => since[s] \subseteq files,
         NEW names \in SUBSET (Names \cup {BadName}),
         NEW where, where # "arrived", where # "new", where # "listing",
         where = "up" => call[s].via = "mcp",
         Goes(s, where),
         told' = [told EXCEPT ![s] = @ \cup names],
         call[s].via # "chat" =>
           \A n \in names : MayHave(s, files, n)
  PROVE  DiscoveryInv'
<1>1. stage'[s] = where /\ stage' = [stage EXCEPT ![s] = where]
  BY DEF Goes, DiscoveryInv
<1>2. ListsWithRules(s)'
  BY <1>1 DEF ListsWithRules
<1> DEFINE read == access[s]
<1>3. access' = [access EXCEPT ![s] = read]
  BY DEF DiscoveryInv
<1>4. read = access[s] /\ UNCHANGED <<env, call>>
  OBVIOUS
<1>5. /\ where # "new"
      /\ where = "arrived" => file \in files
      /\ read # access[s] =>
           (read.ok => \E f \in files : f.state # "broken" /\ f.rules = read.rules)
  BY <1>4
<1>6. names \in SUBSET (Names \cup {BadName})
  OBVIOUS
<1>7. /\ since' = [since EXCEPT ![s] = files] /\ (stage[s] # "new" => since[s] \subseteq files)
      /\ told' = [told EXCEPT ![s] = @ \cup names]
      /\ call[s].via # "chat" => \A n \in names : MayHave(s, files, n)
      /\ where = "up" => call[s].via = "mcp"
  OBVIOUS
<1> HIDE DEF read
<1>8. SessionDoes(s, where, read, names, files)
  BY <1>1, <1>2, <1>3, <1>4, <1>5, <1>6, <1>7 DEF SessionDoes
<1> QED
  BY <1>8, SessionStep

-----------------------------------------------------------------------------

\* fnox has listed: what the session tells is filtered by the rules it read.
LEMMA ListedNames ==
  ASSUME DiscoveryInv, NEW s \in Session, fnox_list(s)
  PROVE  DiscoveryInv'
<1> DEFINE where == IF call[s].via = "mcp" THEN "up" ELSE "answered"
           refused == IF call[s].via = "mcp" THEN "up" ELSE "refused"
           names == IF call[s].via = "chat"
                    THEN parse_fnox_list_names
                    ELSE filter_names(access[s].rules, call[s].id, parse_fnox_list_names)
<1>1. /\ stage[s] = "listing" /\ UNCHANGED <<env, call, access>>
      /\ since' = [since EXCEPT ![s] = since[s]]
      /\ \/ told' = [told EXCEPT ![s] = @ \cup names] /\ Goes(s, where)
         \/ Goes(s, refused) /\ UNCHANGED told
  BY DEF fnox_list, Tell, End, DiscoveryInv
<1>2. names \in SUBSET (Names \cup {BadName})
  BY DEF parse_fnox_list_names, filter_names, is_valid_secret_name
<1>3. ASSUME call[s].via # "chat" PROVE \A n \in names : MayHave(s, since[s], n)
  <2>1. RulesWereOnFile(s) /\ ListsWithRules(s)
    BY DEF DiscoveryInv
  <2>2. \A n \in names : allows(access[s].rules, call[s].id, n)
    BY <1>3 DEF filter_names
  <2> QED
    BY <1>1, <1>3, <2>1, <2>2 DEF RulesWereOnFile, ListsWithRules, MayHave
<1>4. CASE told' = [told EXCEPT ![s] = @ \cup names] /\ Goes(s, where)
  <2> HIDE DEF names
  <2>1. where # "arrived" /\ where # "new" /\ where # "listing"
        /\ (where = "up" => call[s].via = "mcp")
    OBVIOUS
  <2> HIDE DEF where
  <2> QED
    BY <1>1, <1>2, <1>3, <1>4, <2>1, SessionIsTold
<1>5. CASE Goes(s, refused) /\ UNCHANGED told
  <2>1. refused \notin {"new", "arrived", "listing"} /\ (refused = "up" => call[s].via = "mcp")
    OBVIOUS
  <2> HIDE DEF refused
  <2> QED
    BY <1>1, <1>5, <2>1, QuietStep
<1> QED
  BY <1>1, <1>4, <1>5

\* A reference is told, or refused, by the policy on file.
LEMMA ReferredName ==
  ASSUME DiscoveryInv, NEW s \in Session, Refers(s, load_access_policy),
         UNCHANGED <<env, call, access>>,
         NEW files, since' = [since EXCEPT ![s] = files],
         stage[s] # "new" => since[s] \subseteq files, file \in files,
         call[s].via = "http" \/ call[s].base # "none" =>
           keys.discovery = "set" /\ call[s].token = "discovery"
  PROVE  DiscoveryInv'
<1> DEFINE where == IF call[s].via = "mcp" THEN "up" ELSE "answered"
           refused == IF call[s].via = "mcp" THEN "up" ELSE "refused"
           names == {call[s].name}
<1>1. CASE /\ is_valid_secret_name(call[s].name) /\ load_access_policy.ok
           /\ allows(load_access_policy.rules, call[s].id, call[s].name)
  <2>1. told' = [told EXCEPT ![s] = @ \cup names] /\ Goes(s, where)
    BY <1>1 DEF Refers, Tell, End
  <2>2. names \in SUBSET (Names \cup {BadName})
    BY <1>1 DEF is_valid_secret_name
  <2>3. \A n \in names : MayHave(s, files, n)
    BY <1>1, RulesAreOnFile DEF MayHave
  <2>4. where # "arrived" /\ where # "new" /\ where # "listing"
        /\ (where = "up" => call[s].via = "mcp")
    OBVIOUS
  <2> HIDE DEF where, names
  <2> QED
    BY <2>1, <2>2, <2>3, <2>4, SessionIsTold
<1>2. CASE Goes(s, refused) /\ UNCHANGED told
  <2>1. refused \notin {"new", "arrived", "listing"} /\ (refused = "up" => call[s].via = "mcp")
    OBVIOUS
  <2> HIDE DEF refused
  <2> QED
    BY <1>2, <2>1, QuietStep
<1> QED
  BY <1>1, <1>2 DEF Refers, End

\* An MCP server answers by the policy it read when it was started.
LEMMA McpReferredName ==
  ASSUME DiscoveryInv, NEW s \in Session, NEW n \in Names, mcp_secret_reference(s, n)
  PROVE  DiscoveryInv'
<1> DEFINE names == {n}
<1>1. call[s].via = "mcp" /\ RulesWereOnFile(s) /\ call[s] \in Calls
  BY DEF DiscoveryInv, mcp_secret_reference
<1>2. Goes(s, "up") /\ told' = [told EXCEPT ![s] = @ \cup names]
  BY <1>1 DEF mcp_secret_reference, Tell, End
<1>3. names \in SUBSET (Names \cup {BadName})
  OBVIOUS
<1>4. \A m \in names : MayHave(s, since[s], m)
  BY <1>1, DiscoveryAssumption DEF mcp_secret_reference, RulesWereOnFile, MayHave
<1>5. UNCHANGED <<env, call, access>> /\ since' = [since EXCEPT ![s] = since[s]]
  BY DEF mcp_secret_reference, DiscoveryInv
<1> HIDE DEF names
<1> QED
  BY <1>1, <1>2, <1>3, <1>4, <1>5, SessionIsTold

\* The operator edits the file: those who may yet read it have it noted.
LEMMA PolicyIsEdited ==
  ASSUME DiscoveryInv, NEW f \in Policies, edit(f)
  PROVE  DiscoveryInv'
<1>1. \A s \in Session :
        /\ since[s] \subseteq since'[s]
        /\ stage[s] = "arrived" => file' \in since'[s]
  BY DEF edit
<1>2. UNCHANGED <<keys, stage, own>>
  BY DEF edit, data
<1>3. \A s \in Session : RulesWereOnFile(s)' /\ ListsWithRules(s)'
  BY <1>1, <1>2 DEF DiscoveryInv, RulesWereOnFile, ListsWithRules, own
<1>4. NamesWerePermitted'
  BY <1>1, <1>2 DEF DiscoveryInv, NamesWerePermitted, own
<1>5. since' = [s \in Session |-> since'[s]]
  BY DEF edit
<1> QED
  BY <1>1, <1>2, <1>3, <1>4, <1>5 DEF DiscoveryInv, own

\* Each step of a session, and each edit of the file.
LEMMA DiscoveryNextInv ==
  ASSUME DiscoveryInv, [DiscoveryNext]_discoveryVars
  PROVE  DiscoveryInv'
<1> USE DEF data, own, End
<1>0. \A s \in Session : since = [since EXCEPT ![s] = since[s]]
  BY DEF DiscoveryInv
<1>1. ASSUME NEW s \in Session, is_text_file_busy(s) PROVE DiscoveryInv'
  BY <1>1 DEF is_text_file_busy, DiscoveryInv, env, RulesWereOnFile, ListsWithRules,
    NamesWerePermitted
<1>2. ASSUME NEW s \in Session, run_fails(s) PROVE DiscoveryInv'
  <2> DEFINE where == IF call[s].via = "mcp" THEN "up" ELSE "refused"
  <2>1. where \notin {"new", "arrived", "listing"} /\ (where = "up" => call[s].via = "mcp")
    OBVIOUS
  <2>2. Goes(s, where) /\ UNCHANGED <<env, call, access, told>> /\ since' = since
    BY <1>2 DEF run_fails
  <2> HIDE DEF where
  <2> QED
    BY <1>0, <2>1, <2>2, QuietStep
<1>3. ASSUME NEW s \in Session, fnox_set(s) \/ fnox_set_fails(s) \/ caller_gone(s) \/ waiting(s)
      PROVE  DiscoveryInv'
  <2>1. /\ Goes(s, "answered") \/ Goes(s, "refused")
        /\ UNCHANGED <<env, call, access, told>> /\ since' = since
    BY <1>3 DEF fnox_set, fnox_set_fails, caller_gone, waiting
  <2> QED
    BY <1>0, <2>1, QuietStep
<1>4. ASSUME NEW s \in Session,
             http_request(s) \/ RemoteSecretsApi(s) \/ helper_set(s) \/ secure_set(s)
      PROVE  DiscoveryInv'
  <2>1. \E via \in {"http", "helper", "chat"}, where \in {"arrived", "setting", "refused"} :
          /\ Begins(s, via) /\ Goes(s, where)
          /\ UNCHANGED <<env, call, access, told>>
    BY <1>4 DEF http_request, RemoteSecretsApi, helper_set, secure_set, LocalHelper
  <2> QED
    BY <2>1, SessionBegins
<1>5. ASSUME NEW s \in Session, secure_list(s) PROVE DiscoveryInv'
  <2> DEFINE files == {file}
  <2>1. /\ Goes(s, "listing") /\ since' = [since EXCEPT ![s] = files]
        /\ UNCHANGED <<env, call, access, told>>
        /\ stage[s] = "new" /\ call[s].via = "chat"
    BY <1>5 DEF secure_list, Begins
  <2>2. ListsWithRules(s)'
    BY <2>1 DEF ListsWithRules
  <2> HIDE DEF files
  <2> QED
    BY <2>1, <2>2, QuietStep
<1>6. ASSUME NEW s \in Session, secret_list(s) PROVE DiscoveryInv'
  <2>1. stage[s] = "arrived" /\ UNCHANGED <<env, call, told>> /\ since' = since /\ file \in since[s]
    BY <1>6 DEF secret_list, Handles, DiscoveryInv
  <2>2. CASE require_secret_discovery_api_key(s) /\ Reads(s, "listing")
    <3> DEFINE where == IF load_access_policy.ok THEN "listing" ELSE "refused"
    <3>1. Goes(s, where) /\ access' = [access EXCEPT ![s] = load_access_policy]
      BY <2>2 DEF Reads
    <3>2. where \in {"listing", "up", "refused"} /\ where # "up"
          /\ (where = "listing" => load_access_policy.ok)
      OBVIOUS
    <3>3. keys.discovery = "set" /\ call[s].token = "discovery"
      BY <2>2 DEF require_secret_discovery_api_key, require_bearer
    <3> HIDE DEF where
    <3> DEFINE files == since[s]
    <3>4. /\ since' = [since EXCEPT ![s] = files] /\ file \in files
          /\ stage[s] # "new" => since[s] \subseteq files
      BY <1>0, <2>1
    <3> HIDE DEF files
    <3> QED
      BY <2>1, <3>1, <3>2, <3>3, <3>4, SessionReads
  <2>3. CASE Goes(s, "refused") /\ UNCHANGED access
    BY <1>0, <2>1, <2>3, QuietStep
  <2> QED
    BY <1>6, <2>2, <2>3 DEF secret_list
<1>7. ASSUME NEW s \in Session, secret_reference(s) PROVE DiscoveryInv'
  <2>1. /\ stage[s] = "arrived" /\ UNCHANGED <<env, call, access>> /\ since' = since
        /\ file \in since[s]
    BY <1>7 DEF secret_reference, Handles, DiscoveryInv
  <2>2. CASE require_secret_discovery_api_key(s) /\ Refers(s, load_access_policy)
    BY <1>0, <2>1, <2>2, ReferredName DEF require_secret_discovery_api_key, require_bearer
  <2>3. CASE Goes(s, "refused") /\ UNCHANGED told
    BY <1>0, <2>1, <2>3, QuietStep
  <2> QED
    BY <1>7, <2>2, <2>3 DEF secret_reference
<1>8. ASSUME NEW s \in Session, secret_set(s) PROVE DiscoveryInv'
  <2>1. /\ Goes(s, "refused") \/ Goes(s, "setting")
        /\ UNCHANGED <<env, call, access, told>> /\ since' = since
    BY <1>8 DEF secret_set, DestinationsFail
  <2> QED
    BY <1>0, <2>1, QuietStep
<1>9. ASSUME NEW s \in Session, helper_list(s) PROVE DiscoveryInv'
  <2> DEFINE where == IF load_access_policy.ok THEN "listing" ELSE "refused"
             files == {file}
  <2>1. /\ Goes(s, where) /\ access' = [access EXCEPT ![s] = load_access_policy]
        /\ since' = [since EXCEPT ![s] = files] /\ stage[s] = "new"
        /\ call[s].via = "helper" /\ call[s].base = "none"
        /\ UNCHANGED <<env, call, told>>
    BY <1>9 DEF helper_list, LocalHelper, Begins, Reads
  <2>2. where \in {"listing", "up", "refused"} /\ where # "up"
        /\ (where = "listing" => load_access_policy.ok) /\ file \in files
    OBVIOUS
  <2>3. ~ (call[s].via = "http" \/ call[s].base # "none")
    BY <2>1
  <2> HIDE DEF where, files
  <2> QED
    BY <2>1, <2>2, <2>3, SessionReads
<1>10. ASSUME NEW s \in Session, helper_reference(s) PROVE DiscoveryInv'
  <2>1. /\ since' = [since EXCEPT ![s] = {file}] /\ stage[s] = "new"
        /\ call[s].via = "helper" /\ call[s].base = "none"
        /\ Refers(s, load_access_policy)
        /\ UNCHANGED <<env, call, access>>
    BY <1>10 DEF helper_reference, LocalHelper, Begins
  <2>2. ~ (call[s].via = "http" \/ call[s].base # "none")
    BY <2>1
  <2> QED
    BY <2>1, <2>2, ReferredName
<1>11. ASSUME NEW s \in Session, CalciforgeMcp_new(s) PROVE DiscoveryInv'
  <2>1. /\ Goes(s, "up") /\ access' = [access EXCEPT ![s] = load_access_policy]
        /\ since' = [since EXCEPT ![s] = {file}] /\ stage[s] = "new" /\ call[s].via = "mcp"
        /\ UNCHANGED <<env, call, told>>
    BY <1>11 DEF CalciforgeMcp_new, Begins
  <2> QED
    BY <2>1, SessionReads
<1>12. ASSUME NEW s \in Session, list_secrets(s) PROVE DiscoveryInv'
  <2>1. call[s].via = "mcp" /\ call[s] \in Calls /\ access[s].ok
        /\ Goes(s, "listing") /\ UNCHANGED <<env, call, access, told>> /\ since' = since
    BY <1>12 DEF list_secrets, DiscoveryInv
  <2>2. ListsWithRules(s)'
    BY <2>1, DiscoveryAssumption DEF ListsWithRules
  <2> QED
    BY <1>0, <2>1, <2>2, QuietStep
<1>13. CASE UNCHANGED discoveryVars
  BY <1>13 DEF discoveryVars, DiscoveryInv, env, RulesWereOnFile, ListsWithRules,
    NamesWerePermitted
<1> QED
  BY <1>1, <1>2, <1>3, <1>4, <1>5, <1>6, <1>7, <1>8, <1>9, <1>10, <1>11, <1>12, <1>13,
     ListedNames, McpReferredName, PolicyIsEdited
  DEF DiscoveryNext, FnoxEnds

\* An agent is told only names that a policy on file since its session began
\* lets it have, however the file is edited, removed or broken meanwhile, and
\* over HTTP only with the discovery key, for any sessions, names and policies
\* (filter_names, SecretsAccessPolicy, require_secret_discovery_api_key).
THEOREM OnlyPermittedNamesAreTold == DiscoverySpec => []NamesWerePermitted
<1>1. DiscoveryInv => NamesWerePermitted
  BY DEF DiscoveryInv
<1> QED
  BY <1>1, DiscoveryInitInv, DiscoveryNextInv, PTL DEF DiscoverySpec
=============================================================================
