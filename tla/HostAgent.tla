------------------------------ MODULE HostAgent ------------------------------
(***************************************************************************)
(* host-agent: the HTTP handlers that run host operations, the approval    *)
(* tokens that gate the destructive ones (approval/mod.rs), and the two    *)
(* background tasks.  Every HTTP request is a process of its own; its      *)
(* steps are cut at the handler's await points, where other requests, the  *)
(* clean-up task, a dropped connection or a restart may come in.           *)
(*                                                                         *)
(* Tokens and hashes.  The store is keyed by the SHA-256 hash of the       *)
(* 16-character token.  A token is a value of Token; generate_token never  *)
(* returns one twice (80 bits of entropy) and hash_token never collides.   *)
(* What a client presents is a code: a token in full ("plain") or the      *)
(* first four characters and **** ("masked", mask_token); the hash of a    *)
(* masked code is the hash of no token.                                    *)
(***************************************************************************)
EXTENDS HostPolicy, RateLimiter

CONSTANTS
  Request,          \* HTTP requests; also the uuid of the approval they open
  Token,            \* the token values generate_token can return
  HostOp,           \* the operations clients ask POST /host/op for
  Forms,            \* bound: the forms in which clients present tokens
  Sent,             \* bound: the requests clients send, a subset of Arg
  SignalConfigured, \* approval.signal_webhook is set
  AllowedApprovers, \* approval.allowed_approvers
  Approver,         \* the approver names that appear in webhook payloads
  AdminCN,          \* the CNs admin_cn_pattern matches; {} when it is unset
  PluginConfigured, \* approval.identity_plugin is set
  TTL,              \* approval.ttl_seconds
  ConfirmWindow,    \* the 300 s a webhook timestamp stays acceptable
  NoToken, NoEntry, NoArg, NoSweep

ZfsOp(command) == [kind |-> "zfs", command |-> command]
ZfsDestroy     == ZfsOp("destroy")
ZfsSnapshot    == ZfsOp("snapshot")
ZfsList        == ZfsOp("list")
ZfsOps         == {ZfsDestroy, ZfsSnapshot, ZfsList}

Code == Token \X Forms

Arg == [endpoint : {"snapshot", "list", "destroy", "op", "approve"},
        caller : Caller,
        op : HostOp \cup ZfsOps,
        target : Target,
        code : Code \cup {NoToken},
        wellFormed : BOOLEAN]

Entry == [id : Request,
          caller : Caller,
          op : HostOp \cup ZfsOps,
          target : Target,
          expires_at : Nat,
          used : BOOLEAN,
          approved : BOOLEAN]

Confirmation == [token : Token, approver : Approver \cup Caller, at : Nat]

LogLine == {"attempting", "approval_consumed", "pending_approval", "denied",
            "success", "failure"}

\* Where a handler waits, and how a request ends.
Waiting == {"consume", "create", "notify", "execute", "record",
            "plugin", "confirm"}
Ended   == {"ok", "failed", "pending", "limited", "denied", "invalid",
            "error", "dropped"}

ASSUME HostAgentAssumption ==
  /\ TTL \in Nat
  /\ ConfirmWindow \in Nat
  /\ SignalConfigured \in BOOLEAN
  /\ PluginConfigured \in BOOLEAN
  /\ Sent \subseteq Arg
  /\ \A op \in DOMAIN Rules : Rules[op] \in RuleConfig
  /\ Forms \subseteq {"plain", "masked"}
  /\ NoToken \notin Code
  /\ NoToken \notin Token
  /\ NoEntry \notin Entry
  /\ NoArg \notin Arg
  /\ NoSweep \notin Nat

VARIABLES
  tokens,    \* ApprovalManager.tokens: token -> Entry or NoEntry
  by_id,     \* ApprovalManager.by_id: request -> token or NoToken
  sweep,     \* the time cleanup_task read before waiting for the locks
  pc,        \* the await point or the outcome of each request
  arg,       \* what the client sent
  grant,     \* the token the request consumed
  ran,       \* the host command was launched
  log,       \* the request's lines in the audit file
  issued,    \* history: each token's entry as it was created
  confirmed  \* history: the confirmations that were accepted

approvalVars == <<tokens, by_id, sweep>>
requestVars  == <<pc, arg, grant, ran, log>>
historyVars  == <<issued, confirmed>>
vars == <<rateVars, approvalVars, requestVars, historyVars>>

TypeOK ==
  /\ RateTypeOK
  /\ tokens \in [Token -> Entry \cup {NoEntry}]
  /\ by_id \in [Request -> Token \cup {NoToken}]
  /\ sweep \in Nat \cup {NoSweep}
  /\ pc \in [Request -> {"idle"} \cup Waiting \cup Ended]
  /\ arg \in [Request -> Arg \cup {NoArg}]
  /\ grant \in [Request -> Token \cup {NoToken}]
  /\ ran \in [Request -> BOOLEAN]
  /\ log \in [Request -> SUBSET LogLine]
  /\ issued \in [Token -> Entry \cup {NoEntry}]
  /\ confirmed \subseteq Confirmation

Init ==
  /\ RateInit
  /\ tokens = [k \in Token |-> NoEntry]
  /\ by_id = [r \in Request |-> NoToken]
  /\ sweep = NoSweep
  /\ pc = [r \in Request |-> "idle"]
  /\ arg = [r \in Request |-> NoArg]
  /\ grant = [r \in Request |-> NoToken]
  /\ ran = [r \in Request |-> FALSE]
  /\ log = [r \in Request |-> {}]
  /\ issued = [k \in Token |-> NoEntry]
  /\ confirmed = {}

-----------------------------------------------------------------------------
(* Building blocks of the handlers.                                        *)

\* hash_token: only a token in full hashes to the key of an entry.
hash_token(code) ==
  IF code # NoToken /\ code[2] = "plain" THEN code[1] ELSE NoToken

\* Mutant: the failure of audit.log is ignored.
Audited_Ignored(r, line, next) ==
  /\ log' = log \/ log' = [log EXCEPT ![r] = @ \cup {line}]
  /\ pc' = [pc EXCEPT ![r] = next]

\* audit.log appends a line, or fails and the handler's ? ends the request.
Audited(r, line, next) ==
  \/ log' = [log EXCEPT ![r] = @ \cup {line}] /\ pc' = [pc EXCEPT ![r] = next]
  \/ log' = log /\ pc' = [pc EXCEPT ![r] = "error"]

\* The request arrives and passes or fails the per-CN limit.
Arrive(r, a) ==
  /\ pc[r] = "idle"
  /\ arg' = [arg EXCEPT ![r] = a]
  /\ UNCHANGED <<approvalVars, historyVars, grant, ran>>

Proceed(r, next) ==
  /\ pc' = [pc EXCEPT ![r] = next]
  /\ UNCHANGED log

Refuse(r, outcome) == Proceed(r, outcome)

\* The operation waits for an approval: consume the code sent, or open one.
ByApproval(r, a) ==
  Proceed(r, IF a.code # NoToken THEN "consume" ELSE "create")

-----------------------------------------------------------------------------
(* The handlers up to their first await point.                             *)

\* POST /zfs/snapshot: not rate limited; a rule makes it impossible.
zfs_snapshot(r, a) ==
  /\ a.endpoint = "snapshot" /\ a.op = ZfsSnapshot /\ a.code = NoToken
  /\ Arrive(r, a)
  /\ UNCHANGED rateVars
  /\ \/ /\ ~a.wellFormed
        /\ Refuse(r, "error")
     \/ /\ a.wellFormed
        /\ IF requires_approval_for_agent(ZfsSnapshot, a.target,
                                          a.caller \in FullBypass)
           THEN Refuse(r, "denied")
           ELSE Audited(r, "attempting", "execute")

\* POST /zfs/list: neither rate limited nor gated, but logged.
zfs_list(r, a) ==
  /\ a.endpoint = "list" /\ a.op = ZfsList /\ a.code = NoToken
  /\ Arrive(r, a)
  /\ UNCHANGED rateVars
  /\ Audited(r, "attempting", "execute")

\* POST /zfs/destroy
zfs_destroy(r, a) ==
  /\ a.endpoint = "destroy" /\ a.op = ZfsDestroy
  /\ Arrive(r, a)
  /\ \/ /\ Check(a.caller, FALSE)
        /\ Refuse(r, "limited")
     \/ /\ Check(a.caller, TRUE)
        /\ ~a.wellFormed
        /\ Refuse(r, "error")
     \/ /\ Check(a.caller, TRUE)
        /\ a.wellFormed
        /\ IF requires_approval_for_agent(ZfsDestroy, a.target,
                                          a.caller \in FullBypass)
           THEN ByApproval(r, a)
           ELSE Audited(r, "attempting", "execute")

\* Where a dispatched operation goes that the adapter did not deny.
Dispatched(a) ==
  IF validate(a.op, a.target, a.wellFormed) = "Allow" THEN "execute"
  ELSE IF a.code # NoToken THEN "consume" ELSE "create"

\* POST /host/op: the attempt is logged before the adapter is asked.
host_op_dispatch(r, a) ==
  /\ a.endpoint = "op" /\ a.op \in HostOp
  /\ Arrive(r, a)
  /\ \/ /\ Check(a.caller, FALSE)
        /\ Refuse(r, "limited")
     \/ /\ Check(a.caller, TRUE)
        /\ \/ Refuse(r, "error")
           \/ /\ validate(a.op, a.target, a.wellFormed) # "Deny"
              /\ log' = [log EXCEPT ![r] = {"attempting"}]
              /\ pc' = [pc EXCEPT ![r] = Dispatched(a)]
           \/ /\ validate(a.op, a.target, a.wellFormed) = "Deny"
              /\ \/ /\ log' = [log EXCEPT ![r] = {"attempting", "denied"}]
                    /\ pc' = [pc EXCEPT ![r] = "denied"]
                 \/ /\ log' = [log EXCEPT ![r] = {"attempting"}]
                    /\ pc' = [pc EXCEPT ![r] = "error"]

\* zfs-destroy's rule alone decides whether an approver must be an admin.
AdminRequired ==
  find_rule(ZfsDestroy) /\ Rules[ZfsDestroy].approval_admin_only

\* POST /approve, up to the identity plugin.
submit_approval(r, a) ==
  /\ a.endpoint = "approve" /\ a.code # NoToken
  /\ Arrive(r, a)
  /\ \/ /\ Check(a.caller, FALSE)
        /\ Refuse(r, "limited")
     \/ /\ Check(a.caller, TRUE)
        /\ IF AdminRequired /\ a.caller \notin AdminCN
           THEN Refuse(r, "denied")
           ELSE Proceed(r, IF PluginConfigured THEN "plugin" ELSE "confirm")

\* GET /pending reads the store; only the rate limiter changes.
list_pending(c) ==
  /\ \E ok \in BOOLEAN : Check(c, ok)
  /\ UNCHANGED <<approvalVars, requestVars, historyVars>>

-----------------------------------------------------------------------------
(* The steps behind the await points.                                      *)

\* create_approval stores a new token's entry under both locks; without a
\* Signal client the handler goes on to its audit line without waiting.
create_approval(r) ==
  /\ pc[r] = "create"
  /\ \E k \in {j \in Token : issued[j] = NoEntry} :
       LET e == [id |-> r,
                 caller |-> arg[r].caller,
                 op |-> arg[r].op,
                 target |-> arg[r].target,
                 expires_at |-> now + TTL,
                 used |-> FALSE,
                 approved |-> FALSE]
       IN  /\ tokens' = [tokens EXCEPT ![k] = e]
           /\ by_id' = [by_id EXCEPT ![r] = k]
           /\ issued' = [issued EXCEPT ![k] = e]
  /\ IF SignalConfigured THEN Proceed(r, "notify")
                         ELSE Audited(r, "pending_approval", "pending")
  /\ UNCHANGED <<rateVars, sweep, arg, grant, ran, confirmed>>

\* The Signal message went out or failed, which create_approval ignores;
\* the handler logs the pending approval and answers with the masked code.
answer_pending(r) ==
  /\ pc[r] = "notify"
  /\ Audited(r, "pending_approval", "pending")
  /\ UNCHANGED <<rateVars, approvalVars, historyVars, arg, grant, ran>>

\* Mutants: one check of the token is missing.
Consumable_Reusable(k, r) ==
  /\ tokens[k] # NoEntry
  /\ now <= tokens[k].expires_at
  /\ tokens[k].approved
  /\ tokens[k].target = arg[r].target
  /\ tokens[k].caller = arg[r].caller

Consumable_AnyTarget(k, r) ==
  /\ tokens[k] # NoEntry
  /\ now <= tokens[k].expires_at
  /\ ~tokens[k].used
  /\ tokens[k].approved
  /\ tokens[k].caller = arg[r].caller

\* What validate_and_consume_token checks; the operation is not among it.
Consumable(k, r) ==
  /\ tokens[k] # NoEntry
  /\ now <= tokens[k].expires_at
  /\ ~tokens[k].used
  /\ tokens[k].approved
  /\ tokens[k].target = arg[r].target
  /\ tokens[k].caller = arg[r].caller

validate_and_consume_token(r) ==
  LET k == hash_token(arg[r].code)
  IN  /\ pc[r] = "consume"
      /\ \/ /\ k \in Token
            /\ Consumable(k, r)
            /\ tokens' = [tokens EXCEPT ![k].used = TRUE]
            /\ grant' = [grant EXCEPT ![r] = k]
            /\ Audited(r, IF arg[r].endpoint = "destroy"
                          THEN "attempting" ELSE "approval_consumed",
                       "execute")
         \/ /\ ~(k \in Token /\ Consumable(k, r))
            /\ pc' = [pc EXCEPT ![r] = "invalid"]
            /\ UNCHANGED <<tokens, grant, log>>
      /\ UNCHANGED <<rateVars, by_id, sweep, arg, ran, historyVars>>

\* The command is launched, and nothing takes it back once it is; or it
\* cannot be spawned.
Spawn(r) ==
  /\ pc[r] = "execute"
  /\ ran' = ran \/ ran' = [ran EXCEPT ![r] = TRUE]
  /\ pc' = [pc EXCEPT ![r] = "record"]
  /\ UNCHANGED <<rateVars, approvalVars, historyVars, arg, grant, log>>

\* ZfsExecutor, for the three /zfs endpoints.
execute(r) == Spawn(r) /\ arg[r].endpoint # "op"

\* Adapter::execute of the adapter registered for the operation's kind.
Behind(r, kind) == arg[r].endpoint = "op" /\ arg[r].op.kind = kind

ZfsAdapter_execute(r) == Spawn(r) /\ Behind(r, "zfs")
PctAdapter_execute(r) == Spawn(r) /\ Behind(r, "pct")
SystemdAdapter_execute(r) == Spawn(r) /\ Behind(r, "systemd")
GitAdapter_execute(r) == Spawn(r) /\ Behind(r, "git")

\* An ansible:// target is a job file put in the queue instead.
ExecAdapter_execute(r) == Spawn(r) /\ Behind(r, "exec")

\* systemctl status exits non-zero for a stopped service: not a failure.
run_systemctl_succeeds(r) ==
  /\ Behind(r, "systemd") /\ arg[r].op.command = "status"
  /\ ran[r]

\* It ended; the outcome is logged and returned.
record_outcome(r) ==
  /\ pc[r] = "record"
  /\ \/ ran[r] /\ Audited(r, "success", "ok")
     \/ ~run_systemctl_succeeds(r) /\ Audited(r, "failure", "failed")
  /\ UNCHANGED <<rateVars, approvalVars, historyVars, arg, grant, ran>>

\* The identity plugin allows, denies, fails or times out.
validate_approver_identity(r) ==
  /\ pc[r] = "plugin"
  /\ \E verdict \in {"confirm", "denied"} : pc' = [pc EXCEPT ![r] = verdict]
  /\ UNCHANGED <<rateVars, approvalVars, historyVars, arg, grant, ran, log>>

\* validate_callback: who may confirm, with which word, how long after.
CallbackValid(approver, word, stamp) ==
  /\ SignalConfigured
  /\ approver \in AllowedApprovers
  /\ word
  /\ now - stamp <= ConfirmWindow

\* The entry handle_signal_confirmation would approve.
Confirmable(k) ==
  /\ k \in Token
  /\ tokens[k] # NoEntry
  /\ ~tokens[k].used
  /\ tokens[k].expires_at >= now

handle_signal_confirmation(code, approver) ==
  LET k == hash_token(code)
  IN  /\ Confirmable(k)
      /\ tokens' = [tokens EXCEPT ![k].approved = TRUE]
      /\ confirmed' = confirmed \cup
                        {[token |-> k, approver |-> approver, at |-> now]}

\* POST /approve after the plugin: the caller's CN is the approver.
confirm_approval(r) ==
  /\ pc[r] = "confirm"
  /\ \/ /\ CallbackValid(arg[r].caller, TRUE, now)
        /\ handle_signal_confirmation(arg[r].code, arg[r].caller)
        /\ pc' = [pc EXCEPT ![r] = "ok"]
     \/ /\ ~(/\ CallbackValid(arg[r].caller, TRUE, now)
             /\ Confirmable(hash_token(arg[r].code)))
        /\ pc' = [pc EXCEPT ![r] = "error"]
        /\ UNCHANGED <<tokens, confirmed>>
  /\ UNCHANGED <<rateVars, by_id, sweep, arg, grant, ran, log, issued>>

\* The Signal webhook; a payload it refuses changes nothing.
signal_webhook(code, approver, word, stamp) ==
  /\ CallbackValid(approver, word, stamp)
  /\ handle_signal_confirmation(code, approver)
  /\ UNCHANGED <<rateVars, by_id, sweep, requestVars, issued>>

-----------------------------------------------------------------------------
(* Background tasks and failures.                                          *)

cleanup_tick ==
  /\ sweep = NoSweep
  /\ sweep' = now
  /\ UNCHANGED <<rateVars, tokens, by_id, requestVars, historyVars>>

\* Mutants: used tokens are kept; the index is forgotten.
ExpiredAt_KeepsUsed(t) ==
  {k \in Token : /\ tokens[k] # NoEntry
                 /\ tokens[k].expires_at < t
                 /\ ~tokens[k].used}

ExpiredAt(t) == {k \in Token : tokens[k] # NoEntry /\ tokens[k].expires_at < t}

cleanup_task_NoIndex ==
  /\ sweep # NoSweep
  /\ tokens' = [k \in Token |-> IF k \in ExpiredAt(sweep) THEN NoEntry
                                                          ELSE tokens[k]]
  /\ sweep' = NoSweep
  /\ UNCHANGED <<rateVars, by_id, requestVars, historyVars>>

cleanup_task ==
  /\ sweep # NoSweep
  /\ tokens' = [k \in Token |-> IF k \in ExpiredAt(sweep) THEN NoEntry
                                                          ELSE tokens[k]]
  /\ by_id' = [r \in Request |->
                 IF \E k \in ExpiredAt(sweep) : tokens[k].id = r
                 THEN NoToken ELSE by_id[r]]
  /\ sweep' = NoSweep
  /\ UNCHANGED <<rateVars, requestVars, historyVars>>

evict_task ==
  /\ evict_expired
  /\ UNCHANGED <<approvalVars, requestVars, historyVars>>

clock ==
  /\ Tick
  /\ UNCHANGED <<approvalVars, requestVars, historyVars>>

\* The client hangs up: the server drops the handler at its await point.
\* A command that was launched goes on without it.
hang_up(r) ==
  /\ pc[r] \in Waiting
  /\ pc' = [pc EXCEPT ![r] = "dropped"]
  /\ UNCHANGED <<rateVars, approvalVars, historyVars, arg, grant, ran, log>>

\* Tokens and buckets live in memory only; the audit file stays.
restart ==
  /\ tokens' = [k \in Token |-> NoEntry]
  /\ by_id' = [r \in Request |-> NoToken]
  /\ sweep' = NoSweep
  /\ buckets' = [c \in Caller |-> NoBucket]
  /\ pc' = [r \in Request |-> IF pc[r] \in Waiting THEN "dropped" ELSE pc[r]]
  /\ UNCHANGED <<now, arg, grant, ran, log, historyVars>>

RequestStep(r) ==
  \/ create_approval(r)
  \/ answer_pending(r)
  \/ validate_and_consume_token(r)
  \/ execute(r)
  \/ ZfsAdapter_execute(r)
  \/ PctAdapter_execute(r)
  \/ SystemdAdapter_execute(r)
  \/ GitAdapter_execute(r)
  \/ ExecAdapter_execute(r)
  \/ record_outcome(r)
  \/ validate_approver_identity(r)
  \/ confirm_approval(r)

Next ==
  \/ \E r \in Request :
       \/ \E a \in Sent : \/ zfs_snapshot(r, a)
                          \/ zfs_list(r, a)
                          \/ zfs_destroy(r, a)
                          \/ host_op_dispatch(r, a)
                          \/ submit_approval(r, a)
       \/ RequestStep(r)
       \/ hang_up(r)
  \/ \E c \in Caller : list_pending(c)
  \/ \E code \in Code, approver \in Approver, word \in BOOLEAN,
        stamp \in 0..MaxTime : signal_webhook(code, approver, word, stamp)
  \/ cleanup_tick
  \/ cleanup_task
  \/ evict_task
  \/ clock
  \/ restart

Spec == Init /\ [][Next]_vars

\* The clean-up task is an interval timer that waits for two fair locks.
CleanupFairness == WF_vars(cleanup_tick) /\ WF_vars(cleanup_task)

FairSpec == Spec /\ CleanupFairness

-----------------------------------------------------------------------------
(* Properties.                                                             *)

\* The request asks for something that the policy gates on an approval.
NeedsApproval(a) ==
  \/ /\ a.endpoint = "destroy"
     /\ requires_approval_for_agent(ZfsDestroy, a.target,
                                    a.caller \in FullBypass)
  \/ /\ a.endpoint = "op"
     /\ validate(a.op, a.target, a.wellFormed) = "RequiresApproval"

\* validate_and_consume_token: however requests, drops and restarts
\* interleave, no two requests ever get through on the same token.
SingleUse ==
  \A r, s \in Request :
    r # s /\ grant[r] # NoToken => grant[r] # grant[s]

\* zfs_destroy, host_op_dispatch: a gated operation runs only on a token
\* opened by the same caller for the same target that an allowed approver
\* confirmed before it expired.
RunsAreApproved ==
  \A r \in Request :
    ran[r] /\ NeedsApproval(arg[r]) =>
      \E k \in Token, q \in confirmed :
        /\ grant[r] = k
        /\ q.token = k
        /\ q.approver \in AllowedApprovers
        /\ issued[k] # NoEntry
        /\ q.at <= issued[k].expires_at
        /\ issued[k].caller = arg[r].caller
        /\ issued[k].target = arg[r].target

\* create_approval and cleanup_task keep the two maps of the approval
\* manager inverse to each other.
IndexMatchesStore ==
  \A r \in Request, k \in Token :
    by_id[r] = k <=> tokens[k] # NoEntry /\ tokens[k].id = r

\* Every launched command was announced in the audit file before, and on
\* /host/op the consumption of its token too (the ? after audit.log).
AuditPrecedesRun ==
  \A r \in Request :
    ran[r] => /\ "attempting" \in log[r]
              /\ arg[r].endpoint = "op" /\ grant[r] # NoToken =>
                   "approval_consumed" \in log[r]

\* cleanup_task: a token past its expiry does not stay in the store.
ExpiredSwept ==
  \A k \in Token :
    tokens[k] # NoEntry /\ tokens[k].expires_at < now
      ~> tokens[k] = NoEntry

-----------------------------------------------------------------------------
(* What the pending answer says and the code does not do.                  *)

\* The pending answer says "Reply CONFIRM <code> to approve": while the
\* token can be confirmed, that code confirms it.
ToldCodeConfirms ==
  \A k \in Token : Confirmable(k) => Confirmable(hash_token(<<k, "masked">>))
=============================================================================
