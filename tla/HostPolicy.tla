----------------------------- MODULE HostPolicy -----------------------------
(***************************************************************************)
(* Which host operations need a human approval: the rule table of          *)
(* host-agent's configuration (config.rs) and the policy half of the five  *)
(* adapters behind POST /host/op (adapters/{zfs,pct,systemd,git,exec}.rs). *)
(*                                                                         *)
(* The configuration is read once at start-up (ReloadableConfig has no     *)
(* reload), so it is a parameter.  An operation is its adapter kind and    *)
(* command; the code joins the two into the rule key "kind-command".  A    *)
(* rule's regular expression is the set of targets it matches.             *)
(***************************************************************************)
EXTENDS Integers

CONSTANTS
  Target,           \* datasets, VM ids, services, repositories, programs
  Rules,            \* rule key -> RuleConfig, for the keys that have a rule
  FullBypass,       \* callers whose agent entry is Full + bypass allowed
  FirstAgentBypass, \* the same two flags of the first [[agents]] entry
  ExecEnabled,      \* exec.enabled
  AnsibleQueue,     \* exec.ansible_job_queue is set
  AnsibleTarget,    \* the targets that start with ansible://
  ExecAllowed       \* exec.allowed_commands

RuleConfig ==
  [approval_required : BOOLEAN,
   pattern : {"none", "invalid", "regex"},
   matches : SUBSET Target,
   always_ask : BOOLEAN,
   approval_admin_only : BOOLEAN]

\* The commands each adapter supports; any other is denied.
Commands ==
  [zfs |-> {"list", "snapshot", "destroy", "get", "rollback"},
   pct |-> {"status", "start", "stop", "destroy"},
   systemd |-> {"status", "start", "stop", "restart"},
   git |-> {"status", "fetch", "pull", "checkout", "log"},
   exec |-> {"run"}]

Kind == DOMAIN Commands

find_rule(op) == op \in DOMAIN Rules

IfApproval(needed) == IF needed THEN "RequiresApproval" ELSE "Allow"

(***************************************************************************)
(* An invalid pattern does not exempt a target, a valid one that does not  *)
(* match it does; always_ask only defeats the autonomy bypass.             *)
(***************************************************************************)
requires_approval_for_agent(op, target, bypass) ==
  /\ find_rule(op)
  /\ Rules[op].approval_required
  /\ Rules[op].pattern = "regex" => target \in Rules[op].matches
  /\ Rules[op].always_ask \/ ~bypass

\* The ZFS adapter asks with the first configured agent, not the caller's.
ZfsPolicy(op, target) ==
  IfApproval(requires_approval_for_agent(op, target, FirstAgentBypass))

\* destroy always asks; start and stop ask unless a rule allows them.
PctPolicy(op) ==
  IfApproval(\/ op.command = "destroy"
             \/ find_rule(op) /\ (\/ Rules[op].approval_required
                                  \/ Rules[op].always_ask)
             \/ ~find_rule(op) /\ op.command \in {"start", "stop"})

\* A rule that requires approval asks only for the targets of its pattern.
SystemdPolicy(op, target) ==
  IfApproval(/\ find_rule(op)
             /\ Rules[op].approval_required
             /\ \/ Rules[op].always_ask
                \/ Rules[op].pattern = "regex" /\ target \in Rules[op].matches)

GitPolicy(op) ==
  IfApproval(find_rule(op) /\ (\/ Rules[op].approval_required
                               \/ Rules[op].always_ask))

ExecPolicy(target) ==
  CASE target \in AnsibleTarget -> IF AnsibleQueue THEN "RequiresApproval"
                                                   ELSE "Deny"
    [] OTHER -> IF target \in ExecAllowed THEN "Allow" ELSE "Deny"

(***************************************************************************)
(* Adapter::validate of the adapter registered for op.kind.  wellFormed    *)
(* stands for the syntactic checks of the resource and the arguments.      *)
(***************************************************************************)
validate(op, target, wellFormed) ==
  IF \/ op.kind = "exec" /\ ~ExecEnabled
     \/ op.command \notin Commands[op.kind]
     \/ ~wellFormed
  THEN "Deny"
  ELSE CASE op.kind = "zfs"     -> ZfsPolicy(op, target)
         [] op.kind = "pct"     -> PctPolicy(op)
         [] op.kind = "systemd" -> SystemdPolicy(op, target)
         [] op.kind = "git"     -> GitPolicy(op)
         [] op.kind = "exec"    -> ExecPolicy(target)
=============================================================================
