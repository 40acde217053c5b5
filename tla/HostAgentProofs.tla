--------------------------- MODULE HostAgentProofs ---------------------------
(***************************************************************************)
(* Proofs about HostAgent, for any set of requests, tokens, callers and    *)
(* targets, any rule table and any TTL.                                    *)
(*                                                                         *)
(* SingleUse and RunsAreApproved are not inductive: the entry that shows a *)
(* token was approved or used may be swept away, or lost in a restart,     *)
(* while the request that consumed the token is still about to execute.    *)
(* The strengthening ties the store to the history (what an entry says was *)
(* really asked and confirmed), a granted token to its entry (used or      *)
(* gone), and a request's position to what it has been granted and what it *)
(* has logged.                                                             *)
(***************************************************************************)
EXTENDS HostAgent, RateLimiterHistory, TLAPS

\* An allowed approver confirmed token k in time.
Confirmed(k) ==
  \E q \in confirmed : /\ q.token = k
                       /\ q.approver \in AllowedApprovers
                       /\ q.at <= issued[k].expires_at

\* What the store says of a token is what was asked and confirmed.
StoreTrue ==
  \A k \in Token : tokens[k] # NoEntry =>
    /\ issued[k] # NoEntry
    /\ issued[k].expires_at = tokens[k].expires_at
    /\ issued[k].caller = tokens[k].caller
    /\ issued[k].target = tokens[k].target
    /\ tokens[k].approved => Confirmed(k)

\* A consumed token is used up and was rightly consumed.
GrantTrue ==
  \A r \in Request : grant[r] # NoToken =>
    /\ issued[grant[r]] # NoEntry
    /\ tokens[grant[r]] = NoEntry \/ tokens[grant[r]].used
    /\ issued[grant[r]].caller = arg[r].caller
    /\ issued[grant[r]].target = arg[r].target
    /\ Confirmed(grant[r])

\* A request that has not begun has done nothing; one that has not opened
\* its approval has no entry in the index.
Untouched ==
  \A r \in Request :
    /\ pc[r] = "idle" => ~ran[r] /\ grant[r] = NoToken
    /\ pc[r] # "idle" => arg[r] \in Arg
    /\ pc[r] \in {"idle", "create"} => by_id[r] = NoToken

\* Whoever may launch a gated operation holds a token.
Gated ==
  \A r \in Request :
    (pc[r] \in {"execute", "record"} \/ ran[r]) /\ NeedsApproval(arg[r])
      => grant[r] # NoToken

\* What a request must have logged before it may launch its command.
Announced(r) ==
  /\ "attempting" \in log[r]
  /\ arg[r].endpoint = "op" /\ grant[r] # NoToken =>
       "approval_consumed" \in log[r]

\* Whoever may launch a command has announced it; on /host/op the attempt
\* is logged before the token is looked at.
LogTrue ==
  \A r \in Request :
    /\ pc[r] = "consume" =>
         /\ ~ran[r]
         /\ \/ arg[r].endpoint = "destroy"
            \/ arg[r].endpoint = "op" /\ "attempting" \in log[r]
    /\ pc[r] \in {"execute", "record"} \/ ran[r] => Announced(r)

IInv ==
  /\ TypeOK
  /\ IndexMatchesStore
  /\ StoreTrue
  /\ GrantTrue
  /\ SingleUse
  /\ Untouched
  /\ Gated
  /\ LogTrue

-----------------------------------------------------------------------------

\* check changes the caller's bucket and nothing else, and leaves a bucket.
LEMMA CheckType ==
  ASSUME RateTypeOK, NEW c \in Caller, NEW ok, Check(c, ok)
  PROVE  RateTypeOK'
<1>1. Opened(c) \in Bucket
  BY DEF RateTypeOK, Opened, Bucket
<1>2. Charged(c) \in Bucket \cup {NoBucket}
  BY <1>1 DEF RateTypeOK, Charged, Bucket, WindowPassed
<1> QED
  BY <1>2 DEF RateTypeOK, Check

\* A request comes to wait at p, or ends there, with the lines l logged: to
\* execute only what needs no approval and was announced.
Begins(r, a, p, l) ==
  /\ p \in Waiting \cup Ended
  /\ l \in SUBSET LogLine
  /\ pc' = [pc EXCEPT ![r] = p]
  /\ log' = [log EXCEPT ![r] = l]
  /\ p # "record"
  /\ p = "execute" => ~NeedsApproval(a) /\ "attempting" \in l
  /\ p = "consume" => \/ a.endpoint = "destroy"
                      \/ a.endpoint = "op" /\ "attempting" \in l

\* A request's first step, whichever handler it enters: only its own fields
\* change.
ArrivalOf(r, a) ==
  /\ pc[r] = "idle"
  /\ arg' = [arg EXCEPT ![r] = a]
  /\ \E p \in Waiting \cup Ended, l \in SUBSET LogLine : Begins(r, a, p, l)
  /\ RateTypeOK'
  /\ UNCHANGED <<tokens, by_id, sweep, grant, ran, issued, confirmed>>

\* Every handler's first step is such an arrival.
LEMMA HandlersArrive ==
  ASSUME TypeOK, NEW r \in Request, NEW a \in Arg,
         \/ zfs_snapshot(r, a)
         \/ zfs_list(r, a)
         \/ zfs_destroy(r, a)
         \/ host_op_dispatch(r, a)
         \/ submit_approval(r, a)
  PROVE  ArrivalOf(r, a)
<1> USE DEF Arrive, approvalVars, historyVars, Refuse, Proceed, Audited
<1>0. /\ a.caller \in Caller
      /\ log \in [Request -> SUBSET LogLine]
      /\ log[r] \in SUBSET LogLine
      /\ log = [log EXCEPT ![r] = log[r]]
      /\ RateTypeOK
  BY DEF TypeOK, Arg
<1>1. CASE zfs_snapshot(r, a)
  <2>1. RateTypeOK'
    BY <1>1, <1>0 DEF zfs_snapshot, rateVars, RateTypeOK
  <2>2. \/ Begins(r, a, "error", log[r])
        \/ Begins(r, a, "denied", log[r])
        \/ Begins(r, a, "execute", log[r] \cup {"attempting"})
    BY <1>1, <1>0 DEF Begins, zfs_snapshot, Waiting, Ended, LogLine, NeedsApproval
  <2> QED
    BY <1>1, <2>1, <2>2 DEF Begins, zfs_snapshot, ArrivalOf
<1>2. CASE zfs_list(r, a)
  <2>1. RateTypeOK'
    BY <1>2, <1>0 DEF zfs_list, rateVars, RateTypeOK
  <2>2. \/ Begins(r, a, "error", log[r])
        \/ Begins(r, a, "execute", log[r] \cup {"attempting"})
    BY <1>2, <1>0 DEF Begins, zfs_list, Waiting, Ended, LogLine, NeedsApproval
  <2> QED
    BY <1>2, <2>1, <2>2 DEF Begins, zfs_list, ArrivalOf
<1>3. CASE zfs_destroy(r, a)
  <2>1. RateTypeOK'
    BY <1>3, <1>0, CheckType DEF zfs_destroy
  <2>2. \/ Begins(r, a, "limited", log[r])
        \/ Begins(r, a, "error", log[r])
        \/ Begins(r, a, "consume", log[r])
        \/ Begins(r, a, "create", log[r])
        \/ Begins(r, a, "execute", log[r] \cup {"attempting"})
    BY <1>3, <1>0 DEF Begins, zfs_destroy, Waiting, Ended, LogLine, ByApproval, NeedsApproval
  <2> QED
    BY <1>3, <2>1, <2>2 DEF Begins, zfs_destroy, ArrivalOf
<1>4. CASE host_op_dispatch(r, a)
  <2>1. RateTypeOK'
    BY <1>4, <1>0, CheckType DEF host_op_dispatch
  <2>2. \/ Begins(r, a, "limited", log[r])
        \/ Begins(r, a, "error", log[r])
        \/ Begins(r, a, Dispatched(a), {"attempting"})
        \/ Begins(r, a, "denied", {"attempting", "denied"})
        \/ Begins(r, a, "error", {"attempting"})
    BY <1>4, <1>0 DEF Begins, host_op_dispatch, Waiting, Ended, LogLine, Dispatched, NeedsApproval
  <2> QED
    BY <1>4, <2>1, <2>2 DEF Begins, host_op_dispatch, ArrivalOf
<1>5. CASE submit_approval(r, a)
  <2>1. RateTypeOK'
    BY <1>5, <1>0, CheckType DEF submit_approval
  <2>2. \/ Begins(r, a, "limited", log[r])
        \/ Begins(r, a, "denied", log[r])
        \/ Begins(r, a, "plugin", log[r])
        \/ Begins(r, a, "confirm", log[r])
    BY <1>5, <1>0 DEF Begins, submit_approval, Waiting, Ended, LogLine, NeedsApproval
  <2> QED
    BY <1>5, <2>1, <2>2 DEF Begins, submit_approval, ArrivalOf
<1> QED
  BY <1>1, <1>2, <1>3, <1>4, <1>5

-----------------------------------------------------------------------------

LEMMA InitIInv == Init => IInv
<1> SUFFICES ASSUME Init PROVE IInv
  OBVIOUS
<1> USE DEF Init, RateInit
<1>1. TypeOK
  BY RateAssumption, HostAgentAssumption DEF TypeOK, RateTypeOK
<1>2. IndexMatchesStore /\ StoreTrue /\ GrantTrue /\ SingleUse
  BY HostAgentAssumption DEF IndexMatchesStore, StoreTrue, GrantTrue, SingleUse
<1>3. Untouched /\ Gated /\ LogTrue
  BY DEF Untouched, Gated, LogTrue
<1> QED
  BY <1>1, <1>2, <1>3 DEF IInv

\* A request arrives.
LEMMA ArrivalStep ==
  ASSUME IInv, NEW r \in Request, NEW a \in Arg, ArrivalOf(r, a)
  PROVE  IInv'
<1> USE DEF IInv, ArrivalOf, Begins
<1>1. TypeOK'
  BY DEF TypeOK
<1>2. IndexMatchesStore' /\ StoreTrue' /\ SingleUse'
  BY DEF IndexMatchesStore, StoreTrue, SingleUse, Confirmed
<1>3. GrantTrue'
  BY DEF GrantTrue, Untouched, TypeOK, Confirmed
<1>4. Untouched'
  BY DEF Untouched, TypeOK, Waiting, Ended
<1>5. Gated'
  <2> SUFFICES ASSUME NEW s \in Request,
                      pc'[s] \in {"execute", "record"} \/ ran'[s],
                      NeedsApproval(arg'[s])
               PROVE  grant'[s] # NoToken
    BY DEF Gated, NeedsApproval
  <2>1. CASE s = r
    BY <2>1 DEF Untouched, TypeOK
  <2>2. CASE s # r
    BY <2>2 DEF Gated, TypeOK
  <2> QED
    BY <2>1, <2>2
<1>6. LogTrue'
  BY DEF LogTrue, Announced, Untouched, TypeOK
<1> QED
  BY <1>1, <1>2, <1>3, <1>4, <1>5, <1>6

\* A new token is stored.
LEMMA CreateStep ==
  ASSUME IInv, NEW r \in Request, create_approval(r)
  PROVE  IInv'
<1> USE DEF IInv
<1>1. PICK k \in Token :
        LET e == [id |-> r, caller |-> arg[r].caller, op |-> arg[r].op,
                  target |-> arg[r].target, expires_at |-> now + TTL,
                  used |-> FALSE, approved |-> FALSE]
        IN  /\ issued[k] = NoEntry
            /\ tokens' = [tokens EXCEPT ![k] = e]
            /\ by_id' = [by_id EXCEPT ![r] = k]
            /\ issued' = [issued EXCEPT ![k] = e]
  BY DEF create_approval
<1> DEFINE e == [id |-> r, caller |-> arg[r].caller, op |-> arg[r].op,
                 target |-> arg[r].target, expires_at |-> now + TTL,
                 used |-> FALSE, approved |-> FALSE]
<1>2. /\ pc[r] = "create"
      /\ UNCHANGED <<now, buckets, sweep, arg, grant, ran, confirmed>>
      /\ \E p \in {"notify", "pending", "error"} :
           pc' = [pc EXCEPT ![r] = p]
      /\ log' \in [Request -> SUBSET LogLine]
      /\ \A s \in Request : log[s] \subseteq log'[s]
  BY DEF create_approval, rateVars, Proceed, Audited, LogLine, TypeOK
<1>3. arg[r] \in Arg /\ by_id[r] = NoToken
  BY <1>2 DEF Untouched, TypeOK
<1>4. e \in Entry /\ e # NoEntry
  <2>1. now + TTL \in Nat
    BY RateAssumption, HostAgentAssumption DEF TypeOK, RateTypeOK
  <2>2. /\ arg[r].caller \in Caller
        /\ arg[r].op \in HostOp \cup ZfsOps
        /\ arg[r].target \in Target
    BY <1>3 DEF Arg
  <2>3. e \in Entry
    BY <2>1, <2>2 DEF Entry
  <2> QED
    BY <2>3, HostAgentAssumption
<1>5. tokens[k] = NoEntry
  BY <1>1 DEF StoreTrue
<1>6. TypeOK'
  <2>1. pc' \in [Request -> {"idle"} \cup Waiting \cup Ended]
    BY <1>2 DEF TypeOK, Waiting, Ended
  <2>2. /\ tokens' \in [Token -> Entry \cup {NoEntry}]
        /\ issued' \in [Token -> Entry \cup {NoEntry}]
    BY <1>1, <1>4 DEF TypeOK
  <2>3. by_id' \in [Request -> Token \cup {NoToken}]
    BY <1>1 DEF TypeOK
  <2>4. RateTypeOK'
    BY <1>2 DEF TypeOK, RateTypeOK
  <2> QED
    BY <1>2, <2>1, <2>2, <2>3, <2>4 DEF TypeOK
<1>7. IndexMatchesStore'
  <2> SUFFICES ASSUME NEW s \in Request, NEW j \in Token
               PROVE  by_id'[s] = j <=> tokens'[j] # NoEntry /\ tokens'[j].id = s
    BY DEF IndexMatchesStore
  <2>1. CASE j = k
    BY <2>1, <1>1, <1>4, <1>5 DEF IndexMatchesStore, TypeOK
  <2>2. CASE j # k
    BY <2>2, <1>1, <1>3, HostAgentAssumption DEF IndexMatchesStore, TypeOK
  <2> QED
    BY <2>1, <2>2
<1>8. StoreTrue'
  BY <1>1, <1>2, <1>4 DEF StoreTrue, Confirmed, TypeOK
<1>9. GrantTrue'
  BY <1>1, <1>2 DEF GrantTrue, Confirmed, TypeOK
<1>10. SingleUse'
  BY <1>2 DEF SingleUse
<1>11. Untouched'
  BY <1>1, <1>2 DEF Untouched, TypeOK
<1>12. Gated'
  BY <1>2 DEF Gated, TypeOK, NeedsApproval
<1>13. LogTrue'
  BY <1>2 DEF LogTrue, Announced, TypeOK
<1> QED
  BY <1>6, <1>7, <1>8, <1>9, <1>10, <1>11, <1>12, <1>13

\* A token is consumed, or refused.
LEMMA ConsumeStep ==
  ASSUME IInv, NEW r \in Request, validate_and_consume_token(r)
  PROVE  IInv'
<1> USE DEF IInv
<1> DEFINE k == hash_token(arg[r].code)
<1>0. /\ pc[r] = "consume"
      /\ UNCHANGED <<now, buckets, by_id, sweep, arg, ran, issued, confirmed>>
  BY DEF validate_and_consume_token, rateVars, historyVars
<1>1. CASE /\ k \in Token /\ Consumable(k, r)
           /\ tokens' = [tokens EXCEPT ![k].used = TRUE]
           /\ grant' = [grant EXCEPT ![r] = k]
           /\ Audited(r, IF arg[r].endpoint = "destroy"
                         THEN "attempting" ELSE "approval_consumed", "execute")
  <2>1. tokens[k] \in Entry
    BY <1>1 DEF TypeOK, Consumable
  <2>2. /\ tokens'[k] = [tokens[k] EXCEPT !.used = TRUE]
        /\ tokens'[k] \in Entry
        /\ tokens'[k] # NoEntry
        /\ \A j \in Token : j # k => tokens'[j] = tokens[j]
    <3> HIDE DEF k
    <3>1. /\ tokens'[k] = [tokens[k] EXCEPT !.used = TRUE]
          /\ \A j \in Token : j # k => tokens'[j] = tokens[j]
      BY <1>1 DEF TypeOK
    <3>2. [tokens[k] EXCEPT !.used = TRUE] \in Entry
      BY <2>1 DEF Entry
    <3> QED
      BY <3>1, <3>2, HostAgentAssumption
  <2>3. /\ \E p \in {"execute", "error"} : pc' = [pc EXCEPT ![r] = p]
        /\ log' \in [Request -> SUBSET LogLine]
    BY <1>1 DEF Audited, TypeOK, LogLine
  <2>4. TypeOK'
    <3>1. pc' \in [Request -> {"idle"} \cup Waiting \cup Ended]
      BY <2>3 DEF TypeOK, Waiting, Ended
    <3>2. tokens' \in [Token -> Entry \cup {NoEntry}]
      <4> HIDE DEF k
      <4>1. tokens' = [j \in Token |-> tokens'[j]]
        BY <1>1 DEF TypeOK
      <4>2. \A j \in Token : tokens'[j] \in Entry \cup {NoEntry}
        BY <2>2 DEF TypeOK
      <4> QED
        BY <4>1, <4>2
    <3>3. grant' \in [Request -> Token \cup {NoToken}]
      BY <1>1 DEF TypeOK
    <3>4. RateTypeOK'
      BY <1>0 DEF TypeOK, RateTypeOK
    <3>5. ran' = ran
      BY DEF validate_and_consume_token
    <3> QED
      BY <1>0, <2>3, <3>1, <3>2, <3>3, <3>4, <3>5 DEF TypeOK
  <2>5. IndexMatchesStore'
    BY <1>0, <1>1, <2>1, <2>2 DEF IndexMatchesStore, Entry, Consumable
  <2>6. StoreTrue'
    BY <1>0, <1>1, <2>1, <2>2 DEF StoreTrue, Confirmed, Entry, Consumable
  <2>7. \A s \in Request : grant[s] # k
    BY <1>1, HostAgentAssumption DEF GrantTrue, Consumable
  <2>8. SingleUse'
    BY <1>1, <2>7 DEF SingleUse, TypeOK
  <2>9. GrantTrue'
    <3> SUFFICES ASSUME NEW s \in Request, grant'[s] # NoToken
                 PROVE  /\ issued[grant'[s]] # NoEntry
                        /\ \/ tokens'[grant'[s]] = NoEntry
                           \/ tokens'[grant'[s]].used
                        /\ issued[grant'[s]].caller = arg[s].caller
                        /\ issued[grant'[s]].target = arg[s].target
                        /\ Confirmed(grant'[s])
      BY <1>0 DEF GrantTrue, Confirmed
    <3>1. CASE s = r
      <4>1. grant'[s] = k
        BY <3>1, <1>1 DEF TypeOK
      <4>2. tokens'[k].used
        BY <2>1, <2>2 DEF Entry
      <4> QED
        BY <3>1, <4>1, <4>2, <1>1 DEF StoreTrue, Consumable
    <3>2. CASE s # r
      <4>1. grant'[s] = grant[s] /\ grant[s] \in Token /\ grant[s] # k
        BY <3>2, <1>1, <2>7 DEF TypeOK
      <4> QED
        BY <4>1, <2>2 DEF GrantTrue
    <3> QED
      BY <3>1, <3>2
  <2>10. Untouched'
    BY <1>0, <1>1, <2>3 DEF Untouched, TypeOK
  <2>11. Gated'
    BY <1>0, <1>1, <2>3, HostAgentAssumption DEF Gated, TypeOK, NeedsApproval
  <2>12. LogTrue'
    BY <1>0, <1>1 DEF LogTrue, Announced, Audited, TypeOK
  <2> QED
    BY <2>4, <2>5, <2>6, <2>8, <2>9, <2>10, <2>11, <2>12
<1>2. CASE pc' = [pc EXCEPT ![r] = "invalid"] /\ UNCHANGED <<tokens, grant, log>>
  <2>1. TypeOK'
    BY <1>0, <1>2 DEF TypeOK, RateTypeOK, Ended
  <2>2. IndexMatchesStore' /\ StoreTrue' /\ GrantTrue' /\ SingleUse'
    BY <1>0, <1>2
    DEF IndexMatchesStore, StoreTrue, GrantTrue, SingleUse, Confirmed
  <2>3. Untouched' /\ Gated' /\ LogTrue'
    BY <1>0, <1>2
    DEF Untouched, Gated, TypeOK, NeedsApproval, LogTrue, Announced
  <2> QED
    BY <2>1, <2>2, <2>3
<1> QED
  BY <1>1, <1>2 DEF validate_and_consume_token

\* A confirmation is accepted, from /approve or from the webhook.
LEMMA ConfirmStep ==
  ASSUME IInv, NEW code, NEW approver \in Approver \cup Caller,
         approver \in AllowedApprovers,
         handle_signal_confirmation(code, approver),
         UNCHANGED <<now, buckets, by_id, sweep, arg, grant, ran, issued>>,
         UNCHANGED log,
         \/ UNCHANGED pc
         \/ \E r \in Request : pc[r] = "confirm" /\ pc' = [pc EXCEPT ![r] = "ok"]
  PROVE  IInv'
<1> USE DEF IInv
<1> DEFINE k == hash_token(code)
           q == [token |-> k, approver |-> approver, at |-> now]
<1>1. /\ k \in Token /\ tokens[k] # NoEntry
      /\ tokens[k].expires_at >= now
      /\ tokens' = [tokens EXCEPT ![k].approved = TRUE]
      /\ confirmed' = confirmed \cup {q}
  BY DEF handle_signal_confirmation, Confirmable
<1> HIDE DEF k
<1>2. tokens[k] \in Entry
  BY <1>1 DEF TypeOK
<1>3. /\ tokens'[k] = [tokens[k] EXCEPT !.approved = TRUE]
      /\ tokens'[k] \in Entry
      /\ tokens'[k] # NoEntry
      /\ \A j \in Token : j # k => tokens'[j] = tokens[j]
  <2>1. tokens \in [Token -> Entry \cup {NoEntry}]
    BY DEF TypeOK
  <2>2. /\ tokens'[k] = [tokens[k] EXCEPT !.approved = TRUE]
        /\ \A j \in Token : j # k => tokens'[j] = tokens[j]
    BY <1>1, <2>1
  <2>3. [tokens[k] EXCEPT !.approved = TRUE] \in Entry
    BY <1>2 DEF Entry
  <2> QED
    BY <2>2, <2>3, HostAgentAssumption
<1>4. q \in Confirmation
  BY <1>1, RateAssumption DEF Confirmation, TypeOK, RateTypeOK
<1>5. TypeOK'
  BY <1>1, <1>3, <1>4 DEF TypeOK, RateTypeOK, Ended
<1>6. IndexMatchesStore'
  BY <1>1, <1>2, <1>3 DEF IndexMatchesStore, Entry
<1>7. StoreTrue'
  <2>1. \A j \in Token : Confirmed(j) => Confirmed(j)'
    BY <1>1 DEF Confirmed
  <2>2. Confirmed(k)'
    <3>1. q \in confirmed' /\ q.token = k /\ q.approver \in AllowedApprovers
      BY <1>1
    <3>2. q.at <= issued'[k].expires_at
      BY <1>1, <1>2, RateAssumption DEF StoreTrue, TypeOK, RateTypeOK, Entry
    <3> QED
      BY <3>1, <3>2 DEF Confirmed
  <2> QED
    BY <1>1, <1>2, <1>3, <2>1, <2>2 DEF StoreTrue, Entry
<1>8. GrantTrue'
  <2>1. \A r \in Request : grant[r] # NoToken => grant[r] \in Token
    BY DEF TypeOK
  <2>2. \A j \in Token : tokens'[j] = NoEntry \/ tokens'[j].used
                           <=> tokens[j] = NoEntry \/ tokens[j].used
    BY <1>1, <1>2, <1>3 DEF Entry
  <2>3. \A j \in Token : Confirmed(j) => Confirmed(j)'
    BY <1>1 DEF Confirmed
  <2> QED
    BY <2>1, <2>2, <2>3 DEF GrantTrue
<1>9. SingleUse' /\ Untouched' /\ Gated' /\ LogTrue'
  BY DEF SingleUse, Untouched, Gated, TypeOK, NeedsApproval, LogTrue, Announced
<1> QED
  BY <1>5, <1>6, <1>7, <1>8, <1>9

\* Entries leave the store, with their index, and requests may be dropped.
Removal(gone) ==
  /\ tokens' = [k \in Token |-> IF k \in gone THEN NoEntry ELSE tokens[k]]
  /\ by_id' = [r \in Request |->
                 IF \E k \in gone : tokens[k] # NoEntry /\ tokens[k].id = r
                 THEN NoToken ELSE by_id[r]]
  /\ RateTypeOK' /\ sweep' = NoSweep
  /\ UNCHANGED <<arg, grant, ran, log, issued, confirmed>>
  /\ pc' \in [Request -> {"idle"} \cup Waiting \cup Ended]
  /\ \A r \in Request : \/ pc'[r] = pc[r]
                        \/ pc'[r] = "dropped" /\ pc[r] # "idle"

\* The clean-up task and a restart are removals, and these are harmless.
LEMMA RemovalStep ==
  ASSUME IInv, NEW gone \in SUBSET Token, Removal(gone)
  PROVE  IInv'
<1> USE DEF Removal
<1> USE DEF IInv
<1>1. TypeOK'
  BY DEF TypeOK
<1>2. IndexMatchesStore'
  BY HostAgentAssumption DEF IndexMatchesStore, TypeOK
<1>3. StoreTrue' /\ SingleUse'
  BY DEF StoreTrue, SingleUse, Confirmed
<1>4. GrantTrue'
  BY DEF GrantTrue, Confirmed, TypeOK
<1>5. Untouched' /\ Gated' /\ LogTrue'
  BY DEF Untouched, Gated, TypeOK, NeedsApproval, LogTrue, Announced
<1> QED
  BY <1>1, <1>2, <1>3, <1>4, <1>5

\* A request moves on without touching the store, or nothing of it moves.
LEMMA OtherStep ==
  ASSUME IInv, RateTypeOK', sweep' \in Nat \cup {NoSweep},
         log' \in [Request -> SUBSET LogLine],
         \A r \in Request : log[r] \subseteq log'[r],
         UNCHANGED <<tokens, by_id, arg, grant, issued, confirmed>>,
         \/ UNCHANGED <<pc, ran>>
         \/ \E r \in Request :
              /\ pc[r] \in Waiting /\ pc[r] # "create" /\ ran' = ran
              /\ \E p \in Ended \cup {"confirm"} : pc' = [pc EXCEPT ![r] = p]
         \/ \E r \in Request :
              /\ pc[r] \in Waiting /\ ran' = ran
              /\ pc' = [pc EXCEPT ![r] = "dropped"]
         \/ \E r \in Request :
              /\ pc[r] = "execute" /\ pc' = [pc EXCEPT ![r] = "record"]
              /\ ran' = ran \/ ran' = [ran EXCEPT ![r] = TRUE]
  PROVE  IInv'
<1> USE DEF IInv
<1>1. TypeOK'
  <2>1. pc' \in [Request -> {"idle"} \cup Waiting \cup Ended]
    BY DEF TypeOK, Waiting, Ended
  <2>2. ran' \in [Request -> BOOLEAN]
    BY DEF TypeOK
  <2> QED
    BY <2>1, <2>2 DEF TypeOK
<1>2. IndexMatchesStore' /\ StoreTrue' /\ GrantTrue' /\ SingleUse'
  BY DEF IndexMatchesStore, StoreTrue, GrantTrue, SingleUse, Confirmed
<1>3. Untouched'
  BY DEF Untouched, TypeOK, Waiting, Ended
<1>4. Gated'
  BY DEF Gated, TypeOK, NeedsApproval, Waiting, Ended
<1>5. LogTrue'
  BY DEF LogTrue, Announced, TypeOK, Waiting, Ended
<1> QED
  BY <1>1, <1>2, <1>3, <1>4, <1>5

-----------------------------------------------------------------------------

\* Every step of every handler and task preserves the invariant.
LEMMA NextIInv == IInv /\ [Next]_vars => IInv'
<1> SUFFICES ASSUME IInv, [Next]_vars PROVE IInv'
  OBVIOUS
<1> USE DEF rateVars, approvalVars, requestVars, historyVars
<1>0. TypeOK /\ RateTypeOK
  BY DEF IInv, TypeOK
<1>1. ASSUME NEW r \in Request, NEW a \in Sent,
             \/ zfs_snapshot(r, a) \/ zfs_list(r, a) \/ zfs_destroy(r, a)
             \/ host_op_dispatch(r, a) \/ submit_approval(r, a)
      PROVE  IInv'
  <2>1. a \in Arg
    BY HostAgentAssumption
  <2> QED
    BY <1>0, <1>1, <2>1, HandlersArrive, ArrivalStep
<1>2. ASSUME NEW r \in Request, RequestStep(r)
      PROVE  IInv'
  <2>1. CASE create_approval(r)
    BY <2>1, CreateStep
  <2>2. CASE validate_and_consume_token(r)
    BY <2>2, ConsumeStep
  <2>3. CASE answer_pending(r)
    BY <2>3, <1>0, OtherStep
    DEF answer_pending, Audited, Waiting, Ended, LogLine, TypeOK, RateTypeOK
  <2>4. CASE \/ execute(r) \/ ZfsAdapter_execute(r) \/ PctAdapter_execute(r)
             \/ SystemdAdapter_execute(r) \/ GitAdapter_execute(r)
             \/ ExecAdapter_execute(r)
    <3>1. Spawn(r)
      BY <2>4
      DEF execute, ZfsAdapter_execute, PctAdapter_execute,
          SystemdAdapter_execute, GitAdapter_execute, ExecAdapter_execute
    <3> QED
      BY <3>1, <1>0, OtherStep DEF Spawn, TypeOK, RateTypeOK
  <2>5. CASE record_outcome(r)
    BY <2>5, <1>0, OtherStep
    DEF record_outcome, Audited, Waiting, Ended, LogLine, TypeOK, RateTypeOK
  <2>6. CASE validate_approver_identity(r)
    BY <2>6, <1>0, OtherStep
    DEF validate_approver_identity, Waiting, Ended, TypeOK, RateTypeOK
  <2>7. CASE confirm_approval(r)
    <3>1. CASE /\ CallbackValid(arg[r].caller, TRUE, now)
               /\ handle_signal_confirmation(arg[r].code, arg[r].caller)
               /\ pc' = [pc EXCEPT ![r] = "ok"]
      <4>1. arg[r].caller \in Approver \cup Caller
        BY <2>7 DEF IInv, Untouched, confirm_approval, Arg
      <4> QED
        BY <2>7, <3>1, <4>1, <1>0, ConfirmStep
        DEF confirm_approval, CallbackValid, TypeOK
    <3>2. CASE pc' = [pc EXCEPT ![r] = "error"] /\ UNCHANGED <<tokens, confirmed>>
      BY <2>7, <3>2, <1>0, OtherStep
      DEF confirm_approval, Waiting, Ended, TypeOK, RateTypeOK
    <3> QED
      BY <2>7, <3>1, <3>2 DEF confirm_approval
  <2> QED
    BY <1>2, <2>1, <2>2, <2>3, <2>4, <2>5, <2>6, <2>7 DEF RequestStep
<1>3. ASSUME NEW r \in Request, hang_up(r)
      PROVE  IInv'
  BY <1>3, <1>0, OtherStep DEF hang_up, TypeOK, RateTypeOK
<1>4. ASSUME NEW c \in Caller, list_pending(c)
      PROVE  IInv'
  <2>1. RateTypeOK'
    BY <1>4, <1>0, CheckType DEF list_pending
  <2> QED
    BY <1>4, <2>1, <1>0, OtherStep DEF list_pending, TypeOK
<1>5. ASSUME NEW code \in Code, NEW approver \in Approver, NEW word, NEW stamp,
             signal_webhook(code, approver, word, stamp)
      PROVE  IInv'
  BY <1>5, <1>0, ConfirmStep DEF signal_webhook, CallbackValid, TypeOK
<1>6. CASE cleanup_tick
  <2>1. RateTypeOK' /\ sweep' \in Nat
    BY <1>6, <1>0, RateAssumption DEF cleanup_tick, RateTypeOK
  <2> QED
    BY <1>6, <2>1, <1>0, OtherStep DEF cleanup_tick, TypeOK
<1>7. CASE cleanup_task
  <2>1. RateTypeOK'
    BY <1>7, <1>0 DEF cleanup_task, RateTypeOK
  <2> DEFINE gone == ExpiredAt(sweep)
  <2>2. gone \in SUBSET Token /\ \A k \in gone : tokens[k] # NoEntry
    BY DEF ExpiredAt
  <2>3. by_id' = [r \in Request |->
                    IF \E k \in gone : tokens[k] # NoEntry /\ tokens[k].id = r
                    THEN NoToken ELSE by_id[r]]
    BY <1>7, <2>2 DEF cleanup_task
  <2>4. /\ tokens' = [k \in Token |-> IF k \in gone THEN NoEntry ELSE tokens[k]]
        /\ sweep' = NoSweep
        /\ UNCHANGED <<pc, arg, grant, ran, log, issued, confirmed>>
        /\ pc' \in [Request -> {"idle"} \cup Waiting \cup Ended]
    BY <1>7, <1>0 DEF cleanup_task, TypeOK
  <2>5. Removal(gone)
    BY <2>1, <2>3, <2>4 DEF Removal
  <2> QED
    BY <2>2, <2>5, RemovalStep
<1>8. CASE evict_task
  <2>1. RateTypeOK'
    BY <1>8, <1>0 DEF evict_task, evict_expired, Evicted, RateTypeOK
  <2> QED
    BY <1>8, <2>1, <1>0, OtherStep DEF evict_task, TypeOK
<1>9. CASE clock
  <2>1. RateTypeOK'
    BY <1>9, <1>0, RateAssumption DEF clock, Tick, RateTypeOK
  <2> QED
    BY <1>9, <2>1, <1>0, OtherStep DEF clock, TypeOK
<1>10. CASE restart
  <2>1. RateTypeOK'
    BY <1>10, <1>0 DEF restart, RateTypeOK
  <2>2. by_id' = [r \in Request |->
                    IF \E k \in Token : tokens[k] # NoEntry /\ tokens[k].id = r
                    THEN NoToken ELSE by_id[r]]
    BY <1>10, <1>0 DEF restart, IInv, IndexMatchesStore, TypeOK
  <2>3. /\ tokens' = [k \in Token |-> IF k \in Token THEN NoEntry ELSE tokens[k]]
        /\ sweep' = NoSweep
        /\ UNCHANGED <<arg, grant, ran, log, issued, confirmed>>
    BY <1>10 DEF restart
  <2>4. /\ pc' \in [Request -> {"idle"} \cup Waiting \cup Ended]
        /\ \A r \in Request : \/ pc'[r] = pc[r]
                              \/ pc'[r] = "dropped" /\ pc[r] # "idle"
    BY <1>10, <1>0 DEF restart, TypeOK, Waiting, Ended
  <2>5. Removal(Token)
    BY <2>1, <2>2, <2>3, <2>4 DEF Removal
  <2> QED
    BY <2>5, RemovalStep
<1>11. CASE UNCHANGED vars
  BY <1>11, <1>0, OtherStep DEF vars, TypeOK, RateTypeOK
<1> QED
  BY <1>1, <1>2, <1>3, <1>4, <1>5, <1>6, <1>7, <1>8, <1>9, <1>10, <1>11
  DEF Next

\* The strengthened invariant holds of every behaviour.
LEMMA AlwaysIInv == Spec => []IInv
  BY InitIInv, NextIInv, PTL DEF Spec

-----------------------------------------------------------------------------

\* The approval manager, the limiter and the requests keep their shape.
THEOREM TypeSafe == Spec => []TypeOK
<1>1. IInv => TypeOK
  BY DEF IInv
<1> QED
  BY <1>1, AlwaysIInv, PTL

\* validate_and_consume_token never lets two requests through on one token,
\* whatever interleaves with them.
THEOREM TokensAreSingleUse == Spec => []SingleUse
<1>1. IInv => SingleUse
  BY DEF IInv
<1> QED
  BY <1>1, AlwaysIInv, PTL

\* A gated operation runs only on a token of the same caller and target
\* that an allowed approver confirmed before it expired.
THEOREM GatedRunsAreApproved == Spec => []RunsAreApproved
<1>1. IInv => RunsAreApproved
  <2> SUFFICES ASSUME IInv, NEW r \in Request, ran[r], NeedsApproval(arg[r])
               PROVE  \E k \in Token, q \in confirmed :
                        /\ grant[r] = k
                        /\ q.token = k
                        /\ q.approver \in AllowedApprovers
                        /\ issued[k] # NoEntry
                        /\ q.at <= issued[k].expires_at
                        /\ issued[k].caller = arg[r].caller
                        /\ issued[k].target = arg[r].target
    BY DEF RunsAreApproved
  <2>1. grant[r] \in Token
    BY DEF IInv, Gated, TypeOK
  <2> QED
    BY <2>1, HostAgentAssumption DEF IInv, GrantTrue, Confirmed
<1> QED
  BY <1>1, AlwaysIInv, PTL

\* Every command that is launched was announced in the audit file first,
\* whichever of the three ways led to it: no failed append is passed over.
THEOREM RunsAreAudited == Spec => []AuditPrecedesRun
<1>1. IInv => AuditPrecedesRun
  BY DEF IInv, LogTrue, Announced, AuditPrecedesRun
<1> QED
  BY <1>1, AlwaysIInv, PTL

\* The two maps of the approval manager stay inverse to each other through
\* creation, clean-up and restart.
THEOREM IndexFollowsStore == Spec => []IndexMatchesStore
<1>1. IInv => IndexMatchesStore
  BY DEF IInv
<1> QED
  BY <1>1, AlwaysIInv, PTL

-----------------------------------------------------------------------------
(* The windows of one caller: B counts what was admitted before each       *)
(* instant, b is the bucket and n the clock.                                *)

Counts == [Instant -> Nat]

\* Nothing was admitted in the future, and nothing is ever taken back.
Counted(B, n) ==
  /\ \A t \in Instant : B[t] <= B[n + 1]
  /\ \A t \in Instant : t > n => B[t] = B[n + 1]
  /\ \A t, u \in Instant : t <= u => B[t] <= B[u]

\* The bucket counts what was admitted since its window began, which all fell
\* into that window; the window before it admitted no more than its worth.
Windowed(B, b, n) ==
  IF b = NoBucket
  THEN \A t \in Instant : t > n - Window => B[t] = B[n + 1]
  ELSE LET s == b.window_start
       IN  /\ s <= n
           /\ b.count = B[n + 1] - B[s]
           /\ b.count <= Worth
           /\ \A t \in Instant : t >= s + Window => B[t] = B[n + 1]
           /\ \A t \in Instant : t <= s /\ t > s - Window => B[s] - B[t] <= Worth

Spanned(B) == \A t \in 0..MaxTime : B[t + Window] - B[t] <= 2 * Worth

LimiterInv ==
  /\ RateTypeOK
  /\ admitted \in [Caller -> Counts]
  /\ RateEnabled =>
       \A c \in Caller : /\ Counted(admitted[c], now)
                         /\ Windowed(admitted[c], buckets[c], now)
                         /\ Spanned(admitted[c])

LEMMA WorthType == Worth \in Nat \ {0} /\ MaxRequests <= Worth
  BY RateAssumption DEF Worth

LEMMA InstantTypes ==
  /\ \A t \in 0..MaxTime : t \in Instant /\ t + 1 \in Instant /\ t + Window \in Instant
  /\ Instant \subseteq Nat
  BY RateAssumption DEF Instant

\* The clock moves on.
LEMMA TickKeepsWindows ==
  ASSUME NEW B \in Counts, NEW b \in Bucket \cup {NoBucket}, NEW n \in 0..MaxTime,
         n + 1 \in 0..MaxTime, Counted(B, n), Windowed(B, b, n)
  PROVE  Counted(B, n + 1) /\ Windowed(B, b, n + 1)
  <1>1. B[n + 1] \in Nat /\ B[n + 2] = B[n + 1]
    BY InstantTypes DEF Counts, Counted
  <1>2. Counted(B, n + 1)
    BY <1>1, InstantTypes DEF Counted
  <1>3. Windowed(B, b, n + 1)
    BY <1>1, InstantTypes, RateAssumption DEF Windowed, Bucket
  <1> QED
    BY <1>2, <1>3

\* Eviction forgets a bucket two windows old.
LEMMA EvictionKeepsWindows ==
  ASSUME NEW B \in Counts, NEW b \in Bucket, NEW n \in 0..MaxTime,
         Windowed(B, b, n), ~(n - b.window_start < 2 * Window)
  PROVE  Windowed(B, NoBucket, n)
  BY InstantTypes, RateAssumption DEF Windowed, Bucket

\* The bucket check opens for a caller without one.
LEMMA OpeningKeepsWindows ==
  ASSUME NEW B \in Counts, NEW n \in 0..MaxTime,
         Counted(B, n), Windowed(B, NoBucket, n)
  PROVE  Windowed(B, [count |-> 0, window_start |-> n], n)
  <1> DEFINE b == [count |-> 0, window_start |-> n]
  <1>1. b \in Bucket /\ b # NoBucket /\ n \in Instant /\ n + 1 \in Instant
    BY InstantTypes, RateAssumption DEF Bucket
  <1>2. B[n] = B[n + 1] /\ B[n] \in Nat
    BY <1>1, InstantTypes, RateAssumption DEF Windowed, Counts
  <1>3. \A t \in Instant : t >= n + Window => B[t] = B[n + 1]
    BY <1>2, InstantTypes, RateAssumption DEF Windowed
  <1>4. \A t \in Instant : t > n - Window => B[n] - B[t] <= Worth
    BY <1>2, WorthType, InstantTypes, RateAssumption DEF Windowed
  <1> QED
    BY <1>1, <1>2, <1>3, <1>4, WorthType DEF Windowed

\* What admitting a request at n does to the counts.
Admit(B, n) == [t \in Instant |-> IF t > n THEN B[t] + 1 ELSE B[t]]

LEMMA AdmissionCounts ==
  ASSUME NEW B \in Counts, NEW n \in 0..MaxTime, Counted(B, n)
  PROVE  Admit(B, n) \in Counts /\ Counted(Admit(B, n), n)
  BY InstantTypes DEF Admit, Counts, Counted

\* A request is admitted into the window under way.
LEMMA AdmissionKeepsWindows ==
  ASSUME NEW B \in Counts, NEW b \in Bucket, NEW n \in 0..MaxTime,
         Counted(B, n), Windowed(B, b, n), Spanned(B),
         n - b.window_start < Window, b.count < MaxRequests
  PROVE  LET C == Admit(B, n)
             d == [b EXCEPT !.count = b.count + 1]
         IN  Windowed(C, d, n) /\ Spanned(C)
  <1> DEFINE C == Admit(B, n)
             d == [b EXCEPT !.count = b.count + 1]
             s == b.window_start
  <1>1. /\ b.count \in Nat /\ s \in Nat /\ b # NoBucket
        /\ d.count = b.count + 1 /\ d.window_start = s /\ d # NoBucket
    BY RateAssumption DEF Bucket
  <1>2. /\ \A t \in Instant : B[t] \in Nat /\ C[t] \in Nat
        /\ \A t \in Instant : t > n => C[t] = B[t] + 1
        /\ \A t \in Instant : t <= n => C[t] = B[t]
        /\ n \in Instant /\ n + 1 \in Instant /\ n \in Nat
    BY InstantTypes DEF Counts, Admit
  <1>3. /\ s <= n /\ s \in Instant
        /\ b.count = B[n + 1] - B[s]
        /\ \A t \in Instant : t >= s + Window => B[t] = B[n + 1]
        /\ \A t \in Instant : t <= s /\ t > s - Window => B[s] - B[t] <= Worth
    BY <1>1, <1>2, RateAssumption DEF Windowed, Instant
  <1>4. b.count + 1 <= Worth
    BY <1>1, WorthType, RateAssumption
  <1> HIDE DEF C, d, s
  <1>5. Windowed(C, d, n)
    <2>1. s <= n /\ C[n + 1] - C[s] = b.count + 1
      BY <1>1, <1>2, <1>3
    <2>2. \A t \in Instant : t >= s + Window => C[t] = C[n + 1]
      BY <1>1, <1>2, <1>3, RateAssumption DEF s
    <2>3. \A t \in Instant : t <= s /\ t > s - Window => C[s] - C[t] <= Worth
      BY <1>1, <1>2, <1>3, InstantTypes
    <2> QED
      BY <1>1, <1>4, <2>1, <2>2, <2>3 DEF Windowed
  <1>6. Spanned(C)
    <2> SUFFICES ASSUME NEW t \in 0..MaxTime PROVE C[t + Window] - C[t] <= 2 * Worth
      BY DEF Spanned
    <2>1. /\ t \in Instant /\ t + Window \in Instant /\ t \in Nat
          /\ B[t + Window] - B[t] <= 2 * Worth /\ Worth \in Nat
      BY InstantTypes, WorthType DEF Spanned
    <2>2. CASE t > n \/ t + Window <= n
      BY <1>2, <2>1, <2>2, RateAssumption
    <2>3. CASE t <= n /\ t + Window > n
      <3>1. B[t + Window] = B[n + 1]
        BY <1>2, <2>1, <2>3 DEF Counted
      <3>2. C[t + Window] = B[n + 1] + 1 /\ C[t] = B[t]
        BY <1>2, <2>1, <2>3, <3>1
      <3>3. CASE t >= s
        <4>1. B[s] <= B[t]
          BY <1>3, <2>1, <3>3 DEF Counted
        <4> QED
          BY <1>2, <1>3, <1>4, <2>1, <3>2, <4>1
      <3>4. CASE t < s
        <4>1. B[s] - B[t] <= Worth
          BY <1>1, <1>2, <1>3, <2>1, <2>3, <3>4, RateAssumption
        <4> QED
          BY <1>2, <1>3, <1>4, <2>1, <3>2, <4>1
      <3> QED
        BY <1>1, <2>1, <3>3, <3>4
    <2> QED
      BY <1>2, <2>1, <2>2, <2>3, RateAssumption
  <1> QED
    BY <1>5, <1>6 DEF C, d

\* A request is admitted that opens a new window.
LEMMA NewWindowKeepsWindows ==
  ASSUME NEW B \in Counts, NEW b \in Bucket, NEW n \in 0..MaxTime,
         Counted(B, n), Windowed(B, b, n), Spanned(B),
         n - b.window_start >= Window
  PROVE  LET C == Admit(B, n)
             d == [count |-> 1, window_start |-> n]
         IN  Windowed(C, d, n) /\ Spanned(C)
  <1> DEFINE C == Admit(B, n)
             d == [count |-> 1, window_start |-> n]
             s == b.window_start
  <1>1. /\ b.count \in Nat /\ s \in Nat /\ b # NoBucket
        /\ d.count = 1 /\ d.window_start = n /\ d # NoBucket
    BY RateAssumption, InstantTypes DEF Bucket
  <1>2. /\ \A t \in Instant : B[t] \in Nat /\ C[t] \in Nat
        /\ \A t \in Instant : t > n => C[t] = B[t] + 1
        /\ \A t \in Instant : t <= n => C[t] = B[t]
        /\ n \in Instant /\ n + 1 \in Instant /\ n \in Nat
    BY InstantTypes DEF Counts, Admit
  <1>3. /\ s <= n /\ s \in Instant
        /\ b.count = B[n + 1] - B[s] /\ b.count <= Worth
        /\ \A t \in Instant : t >= s + Window => B[t] = B[n + 1]
    BY <1>1, <1>2, RateAssumption DEF Windowed, Instant
  <1>4. Worth \in Nat \ {0}
    BY WorthType
  <1>5. B[n] = B[n + 1] /\ s + Window <= n
    BY <1>1, <1>2, <1>3, RateAssumption
  <1> HIDE DEF C, d, s
  <1>6. \A t \in Instant : t <= n /\ t > n - Window => B[n] - B[t] <= Worth
    <2> SUFFICES ASSUME NEW t \in Instant, t <= n, t > n - Window
                 PROVE  B[n] - B[t] <= Worth
      OBVIOUS
    <2>1. t \in Nat /\ s <= t
      BY <1>1, <1>5, InstantTypes, RateAssumption
    <2>2. B[s] <= B[t]
      BY <1>3, <2>1 DEF Counted
    <2> QED
      BY <1>2, <1>3, <1>4, <1>5, <2>2
  <1>7. Windowed(C, d, n)
    <2>1. C[n + 1] - C[n] = 1
      BY <1>1, <1>2, <1>5
    <2>2. \A t \in Instant : t >= n + Window => C[t] = C[n + 1]
      BY <1>1, <1>2, <1>3, <1>5, InstantTypes, RateAssumption
    <2>3. \A t \in Instant : t <= n /\ t > n - Window => C[n] - C[t] <= Worth
      BY <1>2, <1>6
    <2> QED
      BY <1>1, <1>2, <1>4, <2>1, <2>2, <2>3 DEF Windowed
  <1>8. Spanned(C)
    <2> SUFFICES ASSUME NEW t \in 0..MaxTime PROVE C[t + Window] - C[t] <= 2 * Worth
      BY DEF Spanned
    <2>1. /\ t \in Instant /\ t + Window \in Instant /\ t \in Nat
          /\ B[t + Window] - B[t] <= 2 * Worth
      BY InstantTypes DEF Spanned
    <2>2. CASE t > n \/ t + Window <= n
      BY <1>2, <2>1, <2>2, RateAssumption
    <2>3. CASE t <= n /\ t + Window > n
      <3>1. B[t + Window] = B[n + 1]
        BY <1>2, <2>1, <2>3 DEF Counted
      <3>2. C[t + Window] = B[n] + 1 /\ C[t] = B[t]
        BY <1>2, <1>5, <2>1, <2>3, <3>1
      <3>3. B[n] - B[t] <= Worth
        BY <1>2, <1>6, <2>1, <2>3, RateAssumption
      <3> QED
        BY <1>2, <1>4, <2>1, <3>2, <3>3
    <2> QED
      BY <1>2, <2>1, <2>2, <2>3, RateAssumption
  <1> QED
    BY <1>7, <1>8 DEF C, d

LEMMA LimiterInitially == LimiterInit => LimiterInv
  <1> SUFFICES ASSUME LimiterInit PROVE LimiterInv
    OBVIOUS
  <1>1. RateTypeOK /\ admitted \in [Caller -> Counts]
    BY RateAssumption DEF LimiterInit, RateInit, RateTypeOK, Counts
  <1>2. ASSUME NEW c \in Caller
        PROVE  /\ Counted(admitted[c], now) /\ Windowed(admitted[c], buckets[c], now)
               /\ Spanned(admitted[c])
    <2>1. \A t \in Instant : admitted[c][t] = 0
      BY DEF LimiterInit
    <2>2. now + 1 \in Instant /\ buckets[c] = NoBucket
      BY RateAssumption, InstantTypes DEF LimiterInit, RateInit
    <2>3. Counted(admitted[c], now)
      BY <2>1, <2>2 DEF Counted
    <2>4. Windowed(admitted[c], NoBucket, now)
      BY <2>1, <2>2 DEF Windowed
    <2>5. Spanned(admitted[c])
      <3>1. ASSUME NEW t \in 0..MaxTime
            PROVE  admitted[c][t + Window] = 0 /\ admitted[c][t] = 0
        BY <2>1, InstantTypes
      <3>2. 0 - 0 <= 2 * Worth
        BY WorthType
      <3> QED
        BY <3>1, <3>2 DEF Spanned
    <2> QED
      BY <2>2, <2>3, <2>4, <2>5
  <1> QED
    BY <1>1, <1>2 DEF LimiterInv

LEMMA AskKeepsLimiter ==
  ASSUME LimiterInv, NEW c \in Caller, Ask(c)
  PROVE  LimiterInv'
  <1> DEFINE B == admitted[c]
             b == Opened(c)
  <1>1. /\ now \in 0..MaxTime /\ buckets[c] \in Bucket \cup {NoBucket} /\ B \in Counts
        /\ b \in Bucket
    BY InstantTypes DEF LimiterInv, RateTypeOK, Opened, Bucket
  <1>2. /\ buckets' = [buckets EXCEPT ![c] = Charged(c)] /\ now' = now
        /\ admitted' = [admitted EXCEPT ![c] =
             [t \in Instant |-> IF Admits(c) /\ t > now THEN B[t] + 1 ELSE B[t]]]
    BY DEF Ask, Check
  <1>3. Charged(c) \in Bucket \cup {NoBucket}
    BY <1>1, InstantTypes DEF Charged, Bucket
  <1>4. [t \in Instant |-> IF Admits(c) /\ t > now THEN B[t] + 1 ELSE B[t]] \in Counts
    BY <1>1 DEF Counts
  <1>5. RateTypeOK' /\ admitted' \in [Caller -> Counts]
    BY <1>2, <1>3, <1>4 DEF LimiterInv, RateTypeOK
  <1>6. ASSUME RateEnabled
        PROVE  /\ Counted(admitted'[c], now) /\ Windowed(admitted'[c], buckets'[c], now)
               /\ Spanned(admitted'[c])
    <2>1. Counted(B, now) /\ Spanned(B) /\ Windowed(B, buckets[c], now)
      BY <1>6 DEF LimiterInv
    <2>2. Windowed(B, b, now)
      BY <1>1, <2>1, OpeningKeepsWindows DEF Opened
    <2>3. buckets'[c] = Charged(c)
      BY <1>2 DEF LimiterInv, RateTypeOK
    <2>4. Admits(c) => admitted'[c] = Admit(B, now)
      BY <1>2 DEF LimiterInv, Admit
    <2>5. ~Admits(c) => admitted'[c] = B
      BY <1>1, <1>2 DEF LimiterInv, Counts
    <2> HIDE DEF B, b
    <2>6. CASE WindowPassed(b)
      <3>1. Admits(c) /\ Charged(c) = [count |-> 1, window_start |-> now]
        BY <1>6, <2>6 DEF Admits, Charged, b
      <3> QED
        BY <1>1, <2>1, <2>2, <2>3, <2>4, <2>6, <3>1, AdmissionCounts, NewWindowKeepsWindows
        DEF WindowPassed
    <2>7. CASE ~WindowPassed(b) /\ b.count < MaxRequests
      <3>1. Admits(c) /\ Charged(c) = [b EXCEPT !.count = b.count + 1]
        BY <1>6, <2>7 DEF Admits, Charged, b
      <3>2. now - b.window_start < Window
        BY <1>1, <2>7, InstantTypes, RateAssumption DEF WindowPassed, Bucket
      <3> QED
        BY <1>1, <2>1, <2>2, <2>3, <2>4, <2>7, <3>1, <3>2, AdmissionCounts,
           AdmissionKeepsWindows
    <2>8. CASE ~WindowPassed(b) /\ ~(b.count < MaxRequests)
      <3>1. ~Admits(c) /\ Charged(c) = b
        BY <1>6, <2>8 DEF Admits, Charged, b
      <3> QED
        BY <2>1, <2>2, <2>3, <2>5, <3>1
    <2> QED
      BY <2>6, <2>7, <2>8
  <1>7. \A d \in Caller \ {c} : admitted'[d] = admitted[d] /\ buckets'[d] = buckets[d]
    BY <1>2 DEF LimiterInv, RateTypeOK
  <1> QED
    BY <1>2, <1>5, <1>6, <1>7 DEF LimiterInv

LEMMA EvictionKeepsLimiter ==
  ASSUME LimiterInv, evict_expired, UNCHANGED admitted
  PROVE  LimiterInv'
  <1>1. buckets' = Evicted /\ now' = now /\ admitted' = admitted
    BY DEF evict_expired
  <1>2. RateTypeOK'
    BY <1>1 DEF LimiterInv, RateTypeOK, Evicted
  <1>3. ASSUME NEW c \in Caller, RateEnabled
        PROVE  Windowed(admitted[c], buckets'[c], now)
    <2>1. /\ admitted[c] \in Counts /\ now \in 0..MaxTime
          /\ buckets[c] \in Bucket \cup {NoBucket}
          /\ Windowed(admitted[c], buckets[c], now)
      BY <1>3 DEF LimiterInv, RateTypeOK
    <2>2. buckets'[c] = IF buckets[c] # NoBucket /\ now - buckets[c].window_start < 2 * Window
                        THEN buckets[c] ELSE NoBucket
      BY <1>1 DEF Evicted
    <2> QED
      BY <2>1, <2>2, EvictionKeepsWindows
  <1> QED
    BY <1>1, <1>2, <1>3 DEF LimiterInv

LEMMA TickKeepsLimiter ==
  ASSUME LimiterInv, Tick, UNCHANGED admitted
  PROVE  LimiterInv'
  <1>1. now' = now + 1 /\ now + 1 \in 0..MaxTime /\ UNCHANGED <<buckets, admitted>>
    BY RateAssumption DEF Tick, LimiterInv, RateTypeOK
  <1>2. RateTypeOK'
    BY <1>1 DEF LimiterInv, RateTypeOK
  <1>3. ASSUME NEW c \in Caller, RateEnabled
        PROVE  Counted(admitted[c], now + 1) /\ Windowed(admitted[c], buckets[c], now + 1)
    BY <1>1, <1>3, TickKeepsWindows DEF LimiterInv, RateTypeOK
  <1> QED
    BY <1>1, <1>2, <1>3 DEF LimiterInv

\* However requests, ticks and evictions interleave, a CN gets no more than two
\* windows' worth of requests through in any span as long as a window, for
\* every limit, window and set of CNs (RateLimiter::check, evict_expired).
THEOREM WindowsBoundBursts == LimiterSpec => []SlidingBound
  <1>1. ASSUME LimiterInv, [LimiterNext]_limiterVars
        PROVE  LimiterInv'
    <2>1. CASE UNCHANGED limiterVars
      BY <1>1, <2>1 DEF limiterVars, rateVars, LimiterInv, RateTypeOK
    <2> QED
      BY <1>1, <2>1, AskKeepsLimiter, EvictionKeepsLimiter, TickKeepsLimiter DEF LimiterNext
  <1>2. LimiterInv => SlidingBound
    BY DEF LimiterInv, SlidingBound, Spanned
  <1> QED
    BY <1>1, <1>2, LimiterInitially, PTL DEF LimiterSpec
=============================================================================
