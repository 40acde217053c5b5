----------------------------- MODULE MCHostAgent -----------------------------
(***************************************************************************)
(* Small instances of HostAgent for TLC.                                   *)
(***************************************************************************)
EXTENDS HostAgent, TLC

CONSTANTS c1, t1

Symmetric == Permutations(Request) \cup Permutations(Token)

Rule(required, ask, admin) ==
  [approval_required |-> required, pattern |-> "none", matches |-> {},
   always_ask |-> ask, approval_admin_only |-> admin]

PctStop        == [kind |-> "pct", command |-> "stop"]
PctStatus      == [kind |-> "pct", command |-> "status"]
SystemdStatus  == [kind |-> "systemd", command |-> "status"]
SystemdRestart == [kind |-> "systemd", command |-> "restart"]
GitPull        == [kind |-> "git", command |-> "pull"]
ExecRun        == [kind |-> "exec", command |-> "run"]

OnlyPctStop  == {PctStop}
EveryAdapter == {ZfsDestroy, ZfsList, PctStop, PctStatus, SystemdStatus,
                 SystemdRestart, GitPull, ExecRun}

\* Well-formed requests to an endpoint, with the given codes.
To(endpoint, ops, codes) ==
  [endpoint : {endpoint}, caller : Caller, op : ops, target : Target,
   code : codes, wellFormed : {TRUE}]

Destroys == To("destroy", {ZfsDestroy}, Code \cup {NoToken})
Approves == To("approve", {ZfsDestroy}, Code)
Ops      == To("op", HostOp, Code \cup {NoToken})

Snapshots == To("snapshot", {ZfsSnapshot}, {NoToken})
Lists     == To("list", {ZfsList}, {NoToken})

\* Every endpoint: a second caller for destroys, a second target for destroys,
\* pct stop and exec, codes for the first two, and one malformed request.
EveryEndpoint ==
  Destroys \cup
  {a \in Approves \cup Ops \cup Snapshots \cup Lists :
     /\ a.caller = c1
     /\ a.target = t1 \/ a.op \in {PctStop, ExecRun}
     /\ a.endpoint = "op" /\ a.code # NoToken => a.op = PctStop} \cup
  {[a EXCEPT !.wellFormed = FALSE] :
     a \in {b \in Destroys : /\ b.caller = c1 /\ b.target = t1
                             /\ b.code = NoToken}}

\* zfs-destroy asks, except of agents with the autonomy bypass.
DestroyRule == ZfsDestroy :> Rule(TRUE, FALSE, FALSE)

\* One rule of each shape: pattern, always_ask, admin only, none.
MixedRules ==
  (ZfsDestroy :> [Rule(TRUE, TRUE, TRUE) EXCEPT !.pattern = "regex",
                                                !.matches = {t1}]) @@
  (ZfsSnapshot :> Rule(TRUE, FALSE, FALSE)) @@
  (SystemdRestart :> [Rule(TRUE, FALSE, FALSE) EXCEPT !.pattern = "regex",
                                                      !.matches = {t1}]) @@
  (PctStatus :> Rule(FALSE, TRUE, FALSE)) @@
  (GitPull :> Rule(FALSE, FALSE, FALSE))
=============================================================================
