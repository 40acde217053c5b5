------------------------------ MODULE SetupProofs ------------------------------
(***************************************************************************)
(* Proofs about Installer, Configuration and ModelPlans.                   *)
(*                                                                         *)
(* Installer: for any claws and hosts, any command line, any order of      *)
(* installation, and any number of claws that share a host.  The three     *)
(* properties speak of the end of a claw's installation or of any moment;  *)
(* what makes them true is what is known in each step of it.  At(w) says   *)
(* that for step w, so that a step which only moves on is a comparison of  *)
(* At for two steps.                                                       *)
(*                                                                         *)
(* Configuration: for any configuration, files, answers of the plugins and *)
(* build.  The two properties compare checks with what is done later, so   *)
(* the lemmas go through each way a start or an adapter may fail and find  *)
(* the rule that excludes it; the invariant carries the result to the      *)
(* moment of the failure.                                                  *)
(*                                                                         *)
(* ModelPlans: for any configuration of names, and whatever the plan is;   *)
(* what the plan is stays with TLC (PlanIsTheClosure).                     *)
(***************************************************************************)
EXTENDS Installer, Configuration, SetupPlans, TLAPS, FiniteSetTheorems

(* Installer                                                               *)

\* Steps before the config is changed, ...
Early == {"ssh", "access", "helper", "baseline", "backup"}
Prior == Early \cup {"version", "apply", "patch"}

\* ... those that come after the file was looked at, ...
Seen == Prior \ {"ssh", "access"}

\* ... those on the way to success after it was changed, ...
Loaded == {"discover", "ca", "reload", "verify", "health"}
Plugged == Loaded \cup {"policy", "proxyenv", "restart"}
Written == Plugged \cup {"readback", "plugin"}

\* ... and those after the backup.
Late == Written \cup {"version", "apply", "patch", "rollback"}
Steps == Prior \cup Late

Outcome == [success : BOOLEAN, rollback : {"not_applicable", "restored", "failed"}]

State == Content \cup {Missing, Broken}

InstallerTypeOK ==
  /\ args \in [dry_run : BOOLEAN, skip_backup : BOOLEAN, wizard : BOOLEAN,
               helper : {"none", "trusted", "untrusted"}]
  /\ order \in Seq(Claws) \ {<<>>}
  /\ n \in 1 .. Len(order)
  /\ pc \in Steps \cup {"start", "refused", "next", "done", "dead"}
  /\ conf \in [Files -> State]
  /\ backups \in [Files -> SUBSET State]
  /\ backup \in State \cup {None, Planned}
  /\ plugin \subseteq Files
  /\ dropins \in [Files -> SUBSET (Units \cup {gateway})]
  /\ loaded \in [Files -> State]
  /\ proxied \in [Files -> SUBSET (Units \cup {gateway})]
  /\ queue \subseteq Units
  /\ helper \in [Files -> Claws \cup {None}]
  /\ result \in [Claws -> Outcome \cup {None}]
  /\ before \in [Claws -> State \cup {None}]

\* Nothing writes an OpenClaw config that was not read from one.
Owners ==
  \A c \in Claws : openclaw(c) =>
    \A copy \in backups[FileOf[c]] \cup {conf[FileOf[c]]} :
      copy \in Content => copy.user

\* The entries of the claw are in a config that lost nothing.
Patched(c) == Intact(conf[FileOf[c]]) /\ conf[FileOf[c]].bridge = c /\ ~conf[FileOf[c]].legacy

found == {u \in Units : classify_service(u)}

\* The claw's services are all to be hardened.
Hard(c) ==
  {"hardening", "proxy_endpoint"} \subseteq Given[c] /\ Mode[FileOf[c]] = "system"

\* What an OpenClaw installation has done before step w.
Progress(w) ==
  /\ w \in Written => Patched(claw)
  /\ w \in Plugged => file \in plugin
  /\ w \in Loaded => loaded[file] = conf[file]
  /\ w = "restart" => "proxy_endpoint" \notin Given[claw]
  /\ Hard(claw) =>
       /\ w \in {"ca", "reload"} =>
            found \subseteq dropins[file] /\ found \ queue \subseteq proxied[file]
       /\ w \in {"verify", "health"} => found \subseteq proxied[file]

\* What is known before step w.
At(w) ==
  /\ w = "start" => n = 1
  /\ w \in Prior => before[claw] = conf[file]
  /\ w \in Early => backup = None
  /\ w \in Seen /\ managed(claw) => conf[file] # Missing
  /\ w \in Late /\ backup \notin {None, Planned} =>
       /\ backup = before[claw] /\ backup \in backups[file] /\ ~args.dry_run
       /\ Intact(conf[file]) => Intact(backup)
  /\ w \in Late /\ managed(claw) /\ ~args.skip_backup /\ ~args.dry_run =>
       backup \notin {None, Planned}
  /\ w = "patch" => managed(claw) /\ ~args.dry_run
  /\ openclaw(claw) /\ ~args.dry_run => Progress(w)

\* What is true of a claw with the outcome r.
Reported(r) ==
  /\ r.rollback = "restored" => conf[file] = before[claw]
  /\ openclaw(claw) /\ ~args.dry_run =>
       /\ r.success => Progress("health")
       /\ ~r.success /\ ~args.skip_backup /\ r.rollback # "failed" =>
            conf[file] = before[claw]

IInv ==
  /\ InstallerTypeOK
  /\ SettingsNeverLost
  /\ Owners
  /\ At(pc)
  /\ pc = "next" => Reported(result[claw])

-----------------------------------------------------------------------------

LEMMA InitIInv == Init => IInv
<1> SUFFICES ASSUME Init PROVE IInv
  OBVIOUS
<1> USE InstallerAssumption DEF Init
<1>1. Original \in Content /\ Original.user
  BY DEF Original, Content
<1>2. InstallerTypeOK
  <2>1. order \in Seq(Claws) \ {<<>>} /\ 1 \in 1 .. Len(order)
    OBVIOUS
  <2>2. conf \in [Files -> State] /\ loaded \in [Files -> State]
    BY <1>1 DEF State
  <2>3. /\ dropins \in [Files -> SUBSET (Units \cup {gateway})]
        /\ proxied \in [Files -> SUBSET (Units \cup {gateway})]
    OBVIOUS
  <2> QED
    BY <2>1, <2>2, <2>3 DEF InstallerTypeOK
<1>3. SettingsNeverLost
  BY DEF SettingsNeverLost, Intact
<1>4. Owners
  BY <1>1 DEF Owners
<1>5. At("start")
  BY DEF At, Progress, Prior, Early, Seen, Late, Written, Plugged, Loaded
<1> QED
  BY <1>2, <1>3, <1>4, <1>5 DEF IInv

\* The claw that is being installed and its file.
LEMMA ClawIsOne == IInv => claw \in Claws /\ file \in Files /\ FileOf[claw] = file
BY InstallerAssumption DEF IInv, InstallerTypeOK, claw, file

-----------------------------------------------------------------------------
(* Steps that only move on or end.                                         *)

\* An outcome is recorded.
LEMMA ResultType ==
  ASSUME IInv, NEW success \in BOOLEAN,
         NEW rollback \in {"not_applicable", "restored", "failed"},
         Finish(success, rollback)
  PROVE  /\ result' \in [Claws -> Outcome \cup {None}]
         /\ result'[claw] = [success |-> success, rollback |-> rollback]
<1>1. [success |-> success, rollback |-> rollback] \in Outcome
  BY DEF Outcome
<1>2. claw \in Claws
  BY ClawIsOne
<1>3. result \in [Claws -> Outcome \cup {None}]
  BY DEF IInv, InstallerTypeOK
<1> QED
  BY <1>1, <1>2, <1>3 DEF Finish

everything == <<args, order, n, conf, backups, backup, host, helper, before>>

LEMMA MoveStep ==
  ASSUME IInv, NEW w \in Steps, Continue(w), At(w), UNCHANGED everything
  PROVE  IInv'
<1> USE DEF IInv, everything, host
<1>1. InstallerTypeOK'
  BY DEF InstallerTypeOK, Continue
<1>2. SettingsNeverLost' /\ Owners'
  BY DEF SettingsNeverLost, Owners
<1>3. At(pc)'
  BY DEF At, Continue, Progress, Patched, claw, file
<1>4. pc' # "next"
  BY DEF Continue, Steps, Prior, Early, Late, Written, Plugged, Loaded
<1> QED
  BY <1>1, <1>2, <1>3, <1>4

LEMMA FinishStep ==
  ASSUME IInv, NEW success \in BOOLEAN,
         NEW rollback \in {"not_applicable", "restored", "failed"},
         Finish(success, rollback), Reported([success |-> success, rollback |-> rollback]),
         UNCHANGED everything
  PROVE  IInv'
<1> USE DEF IInv, everything, host
<1>1. InstallerTypeOK'
  BY ResultType DEF InstallerTypeOK, Finish
<1>2. SettingsNeverLost' /\ Owners'
  <2>1. SettingsNeverLost'
    BY DEF SettingsNeverLost
  <2>2. Owners'
    BY DEF Owners
  <2> QED
    BY <2>1, <2>2
<1>3. At(pc)'
  BY DEF At, Finish, Progress, Prior, Early, Seen, Late, Written, Plugged, Loaded
<1>4. result'[claw] = [success |-> success, rollback |-> rollback]
  BY ResultType
<1>5. Reported(result[claw])'
  BY <1>4 DEF Reported, Progress, Patched, claw, file
<1> QED
  BY <1>1, <1>2, <1>3, <1>5

\* A claw that is given up before its config was changed.
LEMMA StopEarly ==
  ASSUME IInv, pc \in Prior, Stop, UNCHANGED everything
  PROVE  IInv'
<1>1. Reported([success |-> FALSE, rollback |-> "not_applicable"])
  BY DEF IInv, At, Reported
<1> QED
  BY <1>1, FinishStep DEF Stop

LEMMA SshStep ==
  ASSUME IInv, run_ssh_connectivity
  PROVE  IInv'
<1>1. pc = "ssh" /\ UNCHANGED everything
  BY DEF run_ssh_connectivity, everything
<1>2. At("access")
  BY <1>1 DEF IInv, At, Progress, Prior, Early, Seen, Late, Written, Plugged, Loaded
<1> QED
  BY <1>1, <1>2, MoveStep, StopEarly DEF run_ssh_connectivity, Steps, Prior, Early

LEMMA BaselineStep ==
  ASSUME IInv, HealthCheckBaseline
  PROVE  IInv'
<1>1. pc = "baseline" /\ UNCHANGED everything
  BY DEF HealthCheckBaseline, everything
<1>2. At("backup")
  BY <1>1 DEF IInv, At, Progress, Prior, Early, Seen, Late, Written, Plugged, Loaded
<1> QED
  BY <1>1, <1>2, MoveStep, StopEarly DEF HealthCheckBaseline, Steps, Prior, Early

LEMMA VersionStep ==
  ASSUME IInv, run_version_detection
  PROVE  IInv'
<1>1. pc = "version" /\ UNCHANGED everything
  BY DEF run_version_detection, everything
<1>2. At("apply")
  BY <1>1 DEF IInv, At, Progress, Prior, Early, Seen, Late, Written, Plugged, Loaded
<1> QED
  BY <1>1, <1>2, MoveStep DEF run_version_detection, Steps, Prior

LEMMA ApplyStep ==
  ASSUME IInv, run_apply
  PROVE  IInv'
<1> USE DEF IInv, At, Progress, Prior, Early, Seen, Late, Written, Plugged, Loaded
<1>1. pc = "apply" /\ UNCHANGED everything
  BY DEF run_apply, everything
<1>2. ~managed(claw) \/ args.dry_run => At("health")
  BY <1>1 DEF managed, openclaw
<1>3. At("rollback")
  BY <1>1
<1>4. managed(claw) /\ ~args.dry_run => At("patch")
  BY <1>1
<1> QED
  BY <1>1, <1>2, <1>3, <1>4, MoveStep DEF run_apply, Steps

\* A step that fails after the change, or goes on from w to the next one.
LEMMA RollbackStep ==
  ASSUME IInv, pc \in Late, Continue("rollback"), UNCHANGED everything
  PROVE  IInv'
<1>1. At("rollback")
  BY DEF IInv, At, Progress, Prior, Early, Seen, Late, Written, Plugged, Loaded
<1> QED
  BY <1>1, MoveStep DEF Steps, Late

LEMMA ReadbackStep ==
  ASSUME IInv, readback
  PROVE  IInv'
<1>1. pc = "readback" /\ UNCHANGED everything
  BY DEF readback, everything
<1>2. At("plugin")
  BY <1>1 DEF IInv, At, Progress, Prior, Early, Seen, Late, Written, Plugged, Loaded
<1>3. ~openclaw(claw) => At("health")
  BY <1>1 DEF IInv, At, Progress, Prior, Early, Seen, Late, Written, Plugged, Loaded
<1> QED
  BY <1>1, <1>2, <1>3, MoveStep, RollbackStep
  DEF readback, Steps, Late, Written, Plugged, Loaded

LEMMA PolicyPluginStep ==
  ASSUME IInv, install_remote_openclaw_policy_plugin
  PROVE  IInv'
<1>1. pc = "policy" /\ UNCHANGED everything
  BY DEF install_remote_openclaw_policy_plugin, everything
<1>2. At("proxyenv")
  BY <1>1 DEF IInv, At, Progress, Prior, Early, Seen, Late, Written, Plugged, Loaded
<1> QED
  BY <1>1, <1>2, MoveStep, RollbackStep
  DEF install_remote_openclaw_policy_plugin, Steps, Late, Written, Plugged

LEMMA CaStep ==
  ASSUME IInv, install_ca
  PROVE  IInv'
<1>1. pc = "ca" /\ UNCHANGED everything
  BY DEF install_ca, everything
<1>2. At("reload")
  BY <1>1 DEF IInv, At, Progress, Prior, Early, Seen, Late, Written, Plugged, Loaded
<1> QED
  BY <1>1, <1>2, MoveStep, RollbackStep
  DEF install_ca, Steps, Late, Written, Plugged, Loaded

LEMMA VerifyStep ==
  ASSUME IInv, verify_block_page
  PROVE  IInv'
<1>1. pc = "verify" /\ UNCHANGED everything
  BY DEF verify_block_page, everything
<1>2. At("health")
  BY <1>1 DEF IInv, At, Progress, Prior, Early, Seen, Late, Written, Plugged, Loaded
<1> QED
  BY <1>1, <1>2, MoveStep, RollbackStep
  DEF verify_block_page, Steps, Late, Written, Plugged, Loaded

LEMMA HealthStep ==
  ASSUME IInv, HealthCheckPostApply
  PROVE  IInv'
<1>1. pc = "health" /\ UNCHANGED everything
  BY DEF HealthCheckPostApply, everything
<1>2. Reported([success |-> TRUE, rollback |-> "not_applicable"])
  BY <1>1 DEF IInv, At, Reported
<1> QED
  BY <1>1, <1>2, FinishStep, RollbackStep
  DEF HealthCheckPostApply, Late, Written, Plugged, Loaded

-----------------------------------------------------------------------------
(* Beginning with a claw, and the steps before the change.                 *)

\* The next claw begins: what was known of another one does not matter.
LEMMA BeginStep ==
  ASSUME IInv, NEW m \in 1 .. Len(order), n' = m,
         NEW c, c = order[m], Begin(c),
         UNCHANGED <<args, order, conf, backups, host, helper, result>>
  PROVE  IInv'
<1> USE DEF IInv, host, Begin
<1>0. c \in Claws /\ FileOf[c] \in Files /\ claw' = c /\ file' = FileOf[c]
  <2>1. c \in Claws
    BY DEF InstallerTypeOK
  <2>2. claw' = c
    BY DEF claw
  <2> QED
    BY <2>1, <2>2, InstallerAssumption DEF file
<1>1. conf[FileOf[c]] \in State
  BY <1>0 DEF InstallerTypeOK
<1>2. before' \in [Claws -> State \cup {None}] /\ before'[c] = conf[FileOf[c]]
      /\ \A d \in Claws : d # c => before'[d] = before[d]
  BY <1>0, <1>1 DEF InstallerTypeOK
<1>3. InstallerTypeOK'
  BY <1>2 DEF InstallerTypeOK, Steps, Prior, Early
<1>4. SettingsNeverLost'
  <2>1. ASSUME NEW d \in Claws, Intact(before'[d]), ~args.skip_backup
        PROVE  \E copy \in backups[FileOf[d]] \cup {conf[FileOf[d]]} : Intact(copy)
    <3>1. CASE d = c
      BY <1>2, <2>1, <3>1
    <3>2. CASE d # c
      BY <1>2, <2>1, <3>2 DEF SettingsNeverLost
    <3> QED
      BY <3>1, <3>2
  <2> QED
    BY <2>1 DEF SettingsNeverLost
<1>5. Owners'
  BY DEF Owners
<1>6. At("ssh")'
  BY <1>0, <1>2 DEF At, Progress, Prior, Early, Seen, Late, Written, Plugged, Loaded
<1> QED
  BY <1>3, <1>4, <1>5, <1>6

\* The run ends, or is refused.
LEMMA QuietStep ==
  ASSUME IInv, pc' \in {"refused", "done", "dead"},
         UNCHANGED <<args, order, n, conf, backups, backup, host, helper, result, before>>
  PROVE  IInv'
<1> USE DEF IInv, host
<1>1. InstallerTypeOK'
  BY DEF InstallerTypeOK
<1>2. SettingsNeverLost' /\ Owners'
  BY DEF SettingsNeverLost, Owners
<1>3. At(pc)'
  BY DEF At, Progress, Prior, Early, Seen, Late, Written, Plugged, Loaded
<1> QED
  BY <1>1, <1>2, <1>3

LEMMA DriverStep ==
  ASSUME IInv, parse_install_target \/ run_wizard \/ run_install_with_deps \/ killed
  PROVE  IInv'
<1>1. Len(order) \in Nat /\ n \in 1 .. Len(order) /\ 1 \in 1 .. Len(order)
  BY DEF IInv, InstallerTypeOK
<1>2. CASE parse_install_target \/ run_wizard
  <2>1. pc = "start" /\ n = 1
    BY <1>2 DEF parse_install_target, run_wizard, IInv, At
  <2>2. CASE Begin(order[1])
    BY <1>1, <1>2, <2>1, <2>2, BeginStep DEF parse_install_target, run_wizard
  <2>3. CASE pc' = "refused" /\ UNCHANGED <<backup, before>>
    BY <1>2, <2>3, QuietStep DEF parse_install_target, run_wizard
  <2> QED
    BY <1>2, <2>2, <2>3 DEF parse_install_target, run_wizard
<1>3. CASE run_install_with_deps
  <2>1. CASE n < Len(order)
    <3>1. n + 1 \in 1 .. Len(order)
      BY <1>1, <2>1
    <3> QED
      BY <1>3, <2>1, <3>1, BeginStep DEF run_install_with_deps
  <2>2. CASE ~(n < Len(order))
    BY <1>3, <2>2, QuietStep DEF run_install_with_deps
  <2> QED
    BY <2>1, <2>2
<1>4. CASE killed
  BY <1>4, QuietStep DEF killed
<1> QED
  BY <1>2, <1>3, <1>4

\* The config is looked for, and OpenClaw's is made if it is not there.
LEMMA AccessStep ==
  ASSUME IInv, run_remote_config_access
  PROVE  IInv'
<1> USE DEF IInv
<1>0. pc = "access" /\ UNCHANGED <<args, order, n, backups, backup, host, helper>>
  BY DEF run_remote_config_access
<1>c. claw \in Claws /\ file \in Files /\ FileOf[claw] = file
  BY ClawIsOne
<1>1. CASE ~managed(claw) /\ Continue("helper") /\ UNCHANGED <<conf, before>>
  <2>1. At("helper")
    BY <1>0, <1>1 DEF At, Progress, Prior, Early, Seen, Late, Written, Plugged, Loaded
  <2> QED
    BY <1>0, <1>1, <2>1, MoveStep DEF everything, Steps, Prior, Early
<1>2. CASE managed(claw) /\ Stop /\ UNCHANGED <<conf, before>>
  BY <1>0, <1>2, StopEarly DEF everything, Prior, Early
<1>3. CASE /\ managed(claw)
           /\ conf' = ensure_openclaw_config_file
           /\ before' = [before EXCEPT ![claw] = conf'[file]]
           /\ IF conf'[file] = Missing THEN Stop ELSE Continue("helper") \/ Stop
  <2> DEFINE made == [Original EXCEPT !.legacy = FALSE]
  <2>1. made \in Content /\ made.user
    BY DEF Original, Content
  <2> HIDE DEF made
  <2>2. \/ conf' = conf
        \/ conf[file] = Missing /\ conf' = [conf EXCEPT ![file] = made]
    BY <1>3 DEF ensure_openclaw_config_file, made
  <2>3. /\ conf' \in [Files -> State]
        /\ \A f \in Files : f # file => conf'[f] = conf[f]
        /\ (conf'[file] = conf[file]) \/ (conf[file] = Missing /\ conf'[file] = made)
    <3>1. made \in State /\ conf \in [Files -> State]
      BY <2>1 DEF InstallerTypeOK, State
    <3> QED
      BY <1>c, <2>2, <3>1
  <2>4. /\ before' \in [Claws -> State \cup {None}]
        /\ before'[claw] = conf'[file]
        /\ \A d \in Claws : d # claw => before'[d] = before[d]
    <3>1. conf'[file] \in State
      BY <1>c, <2>3
    <3> QED
      BY <1>3, <1>c, <3>1 DEF InstallerTypeOK
  <2>5. InstallerTypeOK'
    <3>1. pc' \in Steps \cup {"next"}
      BY <1>3 DEF Stop, Finish, Continue, Steps, Prior, Early
    <3>2. result' \in [Claws -> Outcome \cup {None}]
      BY <1>3, ResultType DEF Stop, Continue, InstallerTypeOK
    <3> QED
      BY <1>0, <2>3, <2>4, <3>1, <3>2 DEF InstallerTypeOK, host
  <2>6. SettingsNeverLost'
    <3>1. ASSUME NEW d \in Claws, Intact(before'[d]), ~args.skip_backup
          PROVE  \E copy \in backups[FileOf[d]] \cup {conf'[FileOf[d]]} : Intact(copy)
      <4>1. CASE d = claw
        BY <1>c, <2>4, <3>1, <4>1
      <4>2. CASE d # claw
        <5>1. PICK copy \in backups[FileOf[d]] \cup {conf[FileOf[d]]} : Intact(copy)
          BY <2>4, <3>1, <4>2 DEF SettingsNeverLost
        <5>2. copy # Missing
          BY <5>1 DEF Intact
        <5>3. FileOf[d] \in Files
          BY InstallerAssumption
        <5> QED
          BY <2>3, <5>1, <5>2, <5>3
      <4> QED
        BY <4>1, <4>2
    <3> QED
      BY <1>0, <3>1 DEF SettingsNeverLost
  <2>7. Owners'
    <3>1. \A c \in Claws : FileOf[c] \in Files
      BY InstallerAssumption
    <3> QED
      BY <1>0, <2>1, <2>3, <3>1 DEF Owners
  <2>8. claw' = claw /\ file' = file
    BY <1>0 DEF claw, file
  <2>9. CASE Stop
    <3>1. pc' = "next" /\ result'[claw] = [success |-> FALSE, rollback |-> "not_applicable"]
      BY <2>9, ResultType DEF Stop, Finish
    <3>2. At(pc)'
      BY <3>1 DEF At, Progress, Prior, Early, Seen, Late, Written, Plugged, Loaded
    <3>3. Reported(result[claw])'
      BY <2>4, <2>8, <3>1 DEF Reported
    <3> QED
      BY <2>5, <2>6, <2>7, <3>2, <3>3
  <2>10. CASE conf'[file] # Missing /\ Continue("helper")
    <3>1. At("helper")'
      BY <1>0, <2>4, <2>8, <2>10
      DEF At, Progress, Prior, Early, Seen, Late, Written, Plugged, Loaded
    <3> QED
      BY <2>5, <2>6, <2>7, <2>10, <3>1 DEF Continue
  <2> QED
    BY <1>3, <2>9, <2>10
<1> QED
  BY <1>1, <1>2, <1>3 DEF run_remote_config_access

\* The secrets helper is installed, or not.
LEMMA HelperStep ==
  ASSUME IInv, run_agent_helper_install
  PROVE  IInv'
<1> USE DEF IInv
<1>0. pc = "helper" /\ UNCHANGED <<args, order, n, conf, backups, backup, host, before>>
  BY DEF run_agent_helper_install
<1>c. claw \in Claws /\ file \in Files /\ FileOf[claw] = file
  BY ClawIsOne
<1>1. Continue("baseline") \/ Stop
  BY DEF run_agent_helper_install
<1>2. helper' \in [Files -> Claws \cup {None}]
  BY <1>c DEF run_agent_helper_install, InstallerTypeOK
<1>3. InstallerTypeOK'
  <2>1. pc' \in Steps \cup {"next"}
    BY <1>1 DEF Stop, Finish, Continue, Steps, Prior, Early
  <2>2. result' \in [Claws -> Outcome \cup {None}]
    BY <1>1, ResultType DEF Stop, Continue, InstallerTypeOK
  <2> QED
    BY <1>0, <1>2, <2>1, <2>2 DEF InstallerTypeOK, host
<1>4. SettingsNeverLost' /\ Owners'
  BY <1>0 DEF SettingsNeverLost, Owners
<1>5. claw' = claw /\ file' = file
  BY <1>0 DEF claw, file
<1>6. CASE Stop
  <2>1. pc' = "next" /\ result'[claw] = [success |-> FALSE, rollback |-> "not_applicable"]
    BY <1>6, ResultType DEF Stop, Finish
  <2>2. At(pc)'
    BY <2>1 DEF At, Progress, Prior, Early, Seen, Late, Written, Plugged, Loaded
  <2>3. before[claw] = conf[file]
    BY <1>0 DEF At, Prior, Early
  <2>4. Reported(result[claw])'
    BY <1>0, <1>5, <2>1, <2>3 DEF Reported
  <2> QED
    BY <1>3, <1>4, <2>2, <2>4
<1>7. CASE Continue("baseline")
  <2>1. At("baseline")'
    BY <1>0, <1>5 DEF At, Progress, Prior, Early, Seen, Late, Written, Plugged, Loaded
  <2> QED
    BY <1>3, <1>4, <1>7, <2>1 DEF Continue
<1> QED
  BY <1>1, <1>6, <1>7

\* The backup is made before anything is changed.
LEMMA BackupStep ==
  ASSUME IInv, run_backup
  PROVE  IInv'
<1> USE DEF IInv
<1>0. pc = "backup" /\ UNCHANGED <<args, order, n, conf, host, helper, before>>
  BY DEF run_backup
<1>c. claw \in Claws /\ file \in Files /\ FileOf[claw] = file
  BY ClawIsOne
<1>1. claw' = claw /\ file' = file
  BY <1>0 DEF claw, file
<1>2. before[claw] = conf[file] /\ backup = None /\ (managed(claw) => conf[file] # Missing)
  BY <1>0 DEF At, Prior, Early, Seen
<1>3. CASE Stop /\ UNCHANGED <<backups, backup>>
  BY <1>0, <1>3, StopEarly DEF everything, Prior, Early
<1>4. CASE /\ ~managed(claw) \/ args.skip_backup
           /\ Continue("version") /\ UNCHANGED <<backups, backup>>
  <2>1. At("version")
    BY <1>2, <1>4 DEF At, Progress, Prior, Early, Seen, Late, Written, Plugged, Loaded
  <2> QED
    BY <1>0, <1>4, <2>1, MoveStep DEF everything, Steps, Prior
<1>5. CASE /\ args.dry_run /\ backup' = Planned
           /\ Continue("version") /\ UNCHANGED backups
  <2>1. InstallerTypeOK'
    BY <1>0, <1>5 DEF InstallerTypeOK, Continue, host, Steps, Prior
  <2>2. SettingsNeverLost' /\ Owners'
    BY <1>0, <1>5 DEF SettingsNeverLost, Owners
  <2>3. At("version")'
    BY <1>0, <1>1, <1>2, <1>5
    DEF At, Progress, Prior, Early, Seen, Late, Written, Plugged, Loaded
  <2> QED
    BY <1>5, <2>1, <2>2, <2>3 DEF Continue
<1>6. CASE /\ managed(claw) /\ ~args.dry_run
           /\ backups' = [backups EXCEPT ![file] = @ \cup {conf[file]}]
           /\ backup' = conf[file]
           /\ Continue("version")
  <2>1. conf[file] \in State
    BY <1>c DEF InstallerTypeOK
  <2>2. /\ backups' \in [Files -> SUBSET State]
        /\ backups'[file] = backups[file] \cup {conf[file]}
        /\ \A f \in Files : f # file => backups'[f] = backups[f]
    <3>1. backups[file] \cup {conf[file]} \in SUBSET State
      BY <1>c, <2>1 DEF InstallerTypeOK
    <3> QED
      BY <1>6, <1>c, <3>1 DEF InstallerTypeOK
  <2>3. InstallerTypeOK'
    BY <1>0, <1>6, <2>1, <2>2 DEF InstallerTypeOK, Continue, host, Steps, Prior
  <2>4. \A c \in Claws : FileOf[c] \in Files
    BY InstallerAssumption
  <2>5. \A f \in Files : backups'[f] \cup {conf'[f]} = backups[f] \cup {conf[f]}
    BY <1>0, <2>2
  <2>6. SettingsNeverLost' /\ Owners'
    BY <1>0, <2>4, <2>5 DEF SettingsNeverLost, Owners
  <2>7. backup' \notin {None, Planned}
    BY <1>6, <2>1, InstallerAssumption DEF State
  <2>8. At("version")'
    BY <1>0, <1>1, <1>2, <1>6, <2>2, <2>7
    DEF At, Progress, Prior, Early, Seen, Late, Written, Plugged, Loaded
  <2> QED
    BY <1>6, <2>3, <2>6, <2>8 DEF Continue
<1> QED
  BY <1>3, <1>4, <1>5, <1>6 DEF run_backup, backup_file

-----------------------------------------------------------------------------
(* The change.                                                             *)

\* What OpenClaw's patch makes of a config that can be read.
LEMMA PatchedOpenClaw ==
  ASSUME NEW c \in State, claw \in Claws, patch_openclaw_config(c) # Broken
  PROVE  LET p == patch_openclaw_config(c) IN
         /\ c \in Content /\ p \in Content
         /\ p.user = c.user /\ p.bridge = claw /\ ~p.legacy
<1>1. c \in Content
  BY DEF patch_openclaw_config, State
<1> DEFINE a == [c EXCEPT !.legacy = FALSE]
           b == [a EXCEPT !.bridge = claw]
           d == [b EXCEPT !.policy = @ \/ "policy_endpoint" \in Given[claw]]
           e == [d EXCEPT !.proxy = @ \/ "proxy_endpoint" \in Given[claw]]
<1>2. patch_openclaw_config(c) = e
  BY DEF patch_openclaw_config, remove_legacy_openclaw_hook_entries,
         patch_openclaw_channel_plugin, patch_openclaw_policy_plugin,
         patch_openclaw_proxy_config
<1>3. a \in Content /\ a.user = c.user /\ ~a.legacy
  BY <1>1 DEF Content
<1> HIDE DEF a
<1>4. b \in Content /\ b.user = c.user /\ ~b.legacy /\ b.bridge = claw
  BY <1>3 DEF Content
<1> HIDE DEF b
<1>5. d \in Content /\ d.user = c.user /\ ~d.legacy /\ d.bridge = claw
  BY <1>4 DEF Content
<1> HIDE DEF d
<1>6. e \in Content /\ e.user = c.user /\ ~e.legacy /\ e.bridge = claw
  BY <1>5 DEF Content
<1> HIDE DEF e
<1> QED
  BY <1>1, <1>2, <1>6

\* What the stub makes of a file that is there.
LEMMA PatchedZeroClaw ==
  ASSUME NEW c \in Content \cup {Broken}, claw \in Claws
  PROVE  LET p == patch_zeroclaw_config_stub(c) IN
         p \in Content /\ (p.user => c \in Content /\ c.user)
<1>1. CASE c = Broken
  <2>1. patch_zeroclaw_config_stub(c) = [Original EXCEPT !.user = FALSE, !.bridge = claw]
    BY <1>1 DEF patch_zeroclaw_config_stub
  <2> QED
    BY <2>1 DEF Original, Content
<1>2. CASE c \in Content /\ c # Broken
  <2>1. patch_zeroclaw_config_stub(c) \in {c, [c EXCEPT !.bridge = claw]}
    BY <1>2 DEF patch_zeroclaw_config_stub
  <2>2. [c EXCEPT !.bridge = claw] \in Content /\ [c EXCEPT !.bridge = claw].user = c.user
    BY <1>2 DEF Content
  <2> QED
    BY <1>2, <2>1, <2>2
<1> QED
  BY <1>1, <1>2

\* The config of the claw is overwritten, by something that is only intact if
\* the old one was; a backup of the old one is there, unless none was wanted.
LEMMA OverwriteKeeps ==
  ASSUME IInv, NEW content \in State, conf' = [conf EXCEPT ![file] = content],
         UNCHANGED <<args, backups, before>>,
         managed(claw), openclaw(claw) /\ content \in Content => content.user,
         Intact(conf[file]) /\ ~args.skip_backup =>
           \E copy \in backups[file] : Intact(copy)
  PROVE  /\ conf' \in [Files -> State]
         /\ conf'[file] = content
         /\ SettingsNeverLost' /\ Owners'
<1> USE DEF IInv
<1>1. claw \in Claws /\ file \in Files /\ FileOf[claw] = file
  BY ClawIsOne
<1>2. /\ conf' \in [Files -> State]
      /\ conf'[file] = content
      /\ \A f \in Files : f # file => conf'[f] = conf[f]
  BY <1>1 DEF InstallerTypeOK
<1>3. \A c \in Claws : FileOf[c] \in Files
  BY InstallerAssumption
<1>4. SettingsNeverLost'
  <2>1. ASSUME NEW c \in Claws, Intact(before[c]), ~args.skip_backup
        PROVE  \E copy \in backups[FileOf[c]] \cup {conf'[FileOf[c]]} : Intact(copy)
    <3>1. PICK copy \in backups[FileOf[c]] \cup {conf[FileOf[c]]} : Intact(copy)
      BY <2>1 DEF SettingsNeverLost
    <3>2. CASE FileOf[c] # file
      BY <1>2, <1>3, <3>1, <3>2
    <3>3. CASE FileOf[c] = file
      BY <2>1, <3>1, <3>3
    <3> QED
      BY <3>2, <3>3
  <2> QED
    BY <2>1 DEF SettingsNeverLost
<1>5. Owners'
  <2>1. ASSUME NEW c \in Claws, openclaw(c), FileOf[c] = file
        PROVE  openclaw(claw)
    BY <1>1, <2>1, InstallerAssumption DEF openclaw, managed
  <2> QED
    BY <1>2, <1>3, <2>1 DEF Owners
<1> QED
  BY <1>2, <1>4, <1>5

\* The claw's config is patched: written, half written, or not at all.
LEMMA PatchStep ==
  ASSUME IInv, apply_remote_config
  PROVE  IInv'
<1> USE DEF IInv
<1>0. pc = "patch" /\ UNCHANGED <<args, order, n, backups, backup, host, helper, before>>
  BY DEF apply_remote_config
<1>c. claw \in Claws /\ file \in Files /\ FileOf[claw] = file
  BY ClawIsOne
<1>1. claw' = claw /\ file' = file
  BY <1>0 DEF claw, file
<1>2. /\ managed(claw) /\ ~args.dry_run /\ conf[file] # Missing
      /\ before[claw] = conf[file] /\ conf[file] \in State
      /\ backup \notin {None, Planned} =>
           /\ backup = conf[file] /\ backup \in backups[file]
           /\ backup = before[claw]
      /\ ~args.skip_backup => backup \notin {None, Planned}
  BY <1>0, <1>c DEF At, Prior, Early, Seen, Late, InstallerTypeOK
<1>3. PICK current \in {conf[file], Broken} :
        LET patched == IF openclaw(claw) THEN patch_openclaw_config(current)
                       ELSE patch_zeroclaw_config_stub(current)
        IN  IF patched = Broken THEN Continue("rollback") /\ UNCHANGED conf
            ELSE write_file(patched)
  BY DEF apply_remote_config, read_file
<1> DEFINE patched == IF openclaw(claw) THEN patch_openclaw_config(current)
                      ELSE patch_zeroclaw_config_stub(current)
<1>4. CASE patched = Broken
  <2>1. Continue("rollback") /\ UNCHANGED conf
    BY <1>3, <1>4
  <2> QED
    BY <1>0, <2>1, RollbackStep DEF everything, Late
<1>5. CASE patched # Broken
  <2>1. write_file(patched)
    BY <1>3, <1>5
  <2>2. current \in Content \cup {Broken} /\ current \in State
    BY <1>2 DEF State
  <2>3. /\ patched \in Content
        /\ patched.user => conf[file] \in Content /\ conf[file].user
    <3>1. CASE openclaw(claw)
      BY <1>5, <1>c, <2>2, <3>1, PatchedOpenClaw, InstallerAssumption
    <3>2. CASE ~openclaw(claw)
      BY <1>c, <2>2, <3>2, PatchedZeroClaw, InstallerAssumption
    <3> QED
      BY <3>1, <3>2
  <2>4. openclaw(claw) => patched.user /\ patched.bridge = claw /\ ~patched.legacy
    <3> SUFFICES ASSUME openclaw(claw)
                 PROVE  patched.user /\ patched.bridge = claw /\ ~patched.legacy
      OBVIOUS
    <3>1. /\ current \in Content /\ patched.user = current.user
          /\ patched.bridge = claw /\ ~patched.legacy
      BY <1>5, <1>c, <2>2, PatchedOpenClaw
    <3>2. current = conf[file]
      BY <3>1, InstallerAssumption
    <3> QED
      BY <1>c, <3>1, <3>2 DEF Owners
  <2> HIDE DEF patched
  <2>5. patched \in State /\ Broken \in State /\ Broken \notin Content
    BY <2>3, InstallerAssumption DEF State
  <2>6. Intact(conf[file]) /\ ~args.skip_backup =>
          \E copy \in backups[file] : Intact(copy)
    BY <1>2
  <2>7. Intact(patched) => Intact(conf[file])
    BY <2>3, InstallerAssumption DEF Intact
  <2>8. ASSUME NEW content \in {patched, Broken}, conf' = [conf EXCEPT ![file] = content]
        PROVE  /\ conf' \in [Files -> State] /\ conf'[file] = content
               /\ SettingsNeverLost' /\ Owners'
    BY <1>0, <1>2, <2>4, <2>5, <2>6, <2>8, OverwriteKeeps
  <2>9. CASE conf' = [conf EXCEPT ![file] = patched] /\ Continue("readback")
    <3>1. InstallerTypeOK'
      BY <1>0, <2>8, <2>9 DEF InstallerTypeOK, Continue, host, Steps, Late, Written
    <3>2. openclaw(claw) => Patched(claw)'
      <4>1. patched \notin {None, Missing, Broken}
        BY <2>3, InstallerAssumption
      <4> QED
        BY <1>c, <1>1, <2>4, <2>8, <2>9, <4>1 DEF Patched, Intact
    <3>3. At("readback")'
      BY <1>0, <1>1, <1>2, <2>7, <2>8, <2>9, <3>2
      DEF At, Progress, Prior, Early, Seen, Late, Written, Plugged, Loaded, Intact
    <3> QED
      BY <2>8, <2>9, <3>1, <3>3 DEF Continue
  <2>10. CASE /\ conf' \in {[conf EXCEPT ![file] = patched], [conf EXCEPT ![file] = Broken]}
              /\ Continue("rollback")
    <3>1. PICK content \in {patched, Broken} : conf' = [conf EXCEPT ![file] = content]
      BY <2>10
    <3>2. InstallerTypeOK'
      BY <1>0, <2>8, <2>10, <3>1 DEF InstallerTypeOK, Continue, host, Steps, Late
    <3>3. Intact(conf'[file]) => Intact(conf[file])
      BY <2>7, <2>8, <3>1 DEF Intact
    <3>4. At("rollback")'
      BY <1>0, <1>1, <1>2, <3>3
      DEF At, Progress, Prior, Early, Seen, Late, Written, Plugged, Loaded, Intact
    <3> QED
      BY <2>8, <2>10, <3>1, <3>2, <3>4 DEF Continue
  <2>11. CASE conf' = conf /\ Continue("rollback")
    BY <1>0, <2>11, RollbackStep DEF everything, Late
  <2> QED
    BY <2>1, <2>9, <2>10, <2>11 DEF write_file
<1> QED
  BY <1>4, <1>5

-----------------------------------------------------------------------------
(* The host: plugin, drop-ins, services.                                   *)

LEMMA HostStep ==
  ASSUME IInv, pc \in Written, NEW w \in Written \cup {"rollback"}, Continue(w),
         UNCHANGED <<args, order, n, conf, backups, backup, helper, before>>,
         plugin' \subseteq Files,
         dropins' \in [Files -> SUBSET (Units \cup {gateway})],
         loaded' \in [Files -> State],
         proxied' \in [Files -> SUBSET (Units \cup {gateway})],
         queue' \subseteq Units,
         openclaw(claw) /\ ~args.dry_run => Progress(w)'
  PROVE  IInv'
<1> USE DEF IInv
<1>1. InstallerTypeOK'
  BY DEF InstallerTypeOK, Continue, Steps, Late
<1>2. SettingsNeverLost' /\ Owners'
  BY DEF SettingsNeverLost, Owners
<1>3. claw' = claw /\ file' = file
  BY DEF claw, file
<1>4. At(w)'
  BY <1>3 DEF At, Prior, Early, Seen, Late, Written, Plugged, Loaded
<1>5. w # "next"
  BY DEF Written, Plugged, Loaded
<1> QED
  BY <1>1, <1>2, <1>4, <1>5 DEF Continue

\* Nothing is known of the host once a step has failed.
LEMMA FailureKnowsNothing == Progress("rollback")'
BY DEF Progress, Written, Plugged, Loaded

LEMMA PluginStep ==
  ASSUME IInv, install_remote_openclaw_channel_plugin
  PROVE  IInv'
<1>0. /\ pc = "plugin"
      /\ UNCHANGED <<args, order, n, conf, backups, backup, dropins, loaded, proxied,
                     queue, helper, before>>
  BY DEF install_remote_openclaw_channel_plugin
<1>1. claw' = claw /\ file' = file /\ file \in Files
  BY <1>0, ClawIsOne DEF claw, file
<1>2. /\ dropins \in [Files -> SUBSET (Units \cup {gateway})] /\ plugin \subseteq Files
      /\ proxied \in [Files -> SUBSET (Units \cup {gateway})]
      /\ loaded \in [Files -> State] /\ queue \subseteq Units
  BY DEF IInv, InstallerTypeOK
<1>3. CASE plugin' = plugin \cup {file} /\ Continue("policy")
  <2>1. openclaw(claw) /\ ~args.dry_run => Progress("policy")'
    BY <1>0, <1>1, <1>3 DEF IInv, At, Progress, Patched, Written, Plugged, Loaded
  <2> QED
    BY <1>0, <1>1, <1>2, <1>3, <2>1, HostStep DEF Written, Plugged
<1>4. CASE plugin' = plugin \ {file} /\ Continue("rollback")
  BY <1>0, <1>2, <1>4, HostStep, FailureKnowsNothing DEF Written
<1> QED
  BY <1>3, <1>4 DEF install_remote_openclaw_channel_plugin

\* The gateway is restarted.
LEMMA GatewayRestarted ==
  ASSUME IInv, NEW drop, RestartGateway(drop)
  PROVE  /\ loaded' \in [Files -> State] /\ loaded'[file] = conf[file]
         /\ proxied' \in [Files -> SUBSET (Units \cup {gateway})]
<1>1. file \in Files /\ conf[file] \in State
  BY ClawIsOne DEF IInv, InstallerTypeOK
<1> QED
  BY <1>1 DEF RestartGateway, IInv, InstallerTypeOK

LEMMA ProxyEnvStep ==
  ASSUME IInv, configure_remote_openclaw_proxy_env
  PROVE  IInv'
<1>0. /\ pc = "proxyenv"
      /\ UNCHANGED <<args, order, n, conf, backups, backup, plugin, queue, helper, before>>
  BY DEF configure_remote_openclaw_proxy_env
<1>1. claw' = claw /\ file' = file /\ file \in Files
  BY <1>0, ClawIsOne DEF claw, file
<1>2. /\ dropins \in [Files -> SUBSET (Units \cup {gateway})] /\ plugin \subseteq Files
      /\ proxied \in [Files -> SUBSET (Units \cup {gateway})]
      /\ loaded \in [Files -> State] /\ queue \subseteq Units
  BY DEF IInv, InstallerTypeOK
<1>3. CASE /\ "proxy_endpoint" \notin Given[claw] /\ Continue("restart")
           /\ UNCHANGED <<dropins, loaded, proxied>>
  <2>1. openclaw(claw) /\ ~args.dry_run => Progress("restart")'
    BY <1>0, <1>1, <1>3 DEF IInv, At, Progress, Patched, Written, Plugged, Loaded
  <2> QED
    BY <1>0, <1>2, <1>3, <2>1, HostStep DEF Written, Plugged
<1>4. CASE Continue("rollback") /\ UNCHANGED <<dropins, loaded, proxied>>
  BY <1>0, <1>2, <1>4, HostStep, FailureKnowsNothing DEF Written, Plugged
<1>5. CASE dropins' = [dropins EXCEPT ![file] = @ \cup {gateway}]
  <2>1. dropins' \in [Files -> SUBSET (Units \cup {gateway})]
    BY <1>1, <1>2, <1>5
  <2>2. CASE Continue("rollback") /\ UNCHANGED <<loaded, proxied>>
    BY <1>0, <1>2, <2>1, <2>2, HostStep, FailureKnowsNothing DEF Written, Plugged
  <2>3. ASSUME RestartGateway(dropins'[file]),
               NEW w \in {"discover", "health"}, Continue(w),
               w = "health" => ~("hardening" \in Given[claw] /\ Mode[file] # "launchd")
        PROVE  IInv'
    <3>1. /\ loaded' \in [Files -> State] /\ loaded'[file] = conf[file]
          /\ proxied' \in [Files -> SUBSET (Units \cup {gateway})]
      BY <2>3, GatewayRestarted
    <3>2. w = "health" => ~Hard(claw)'
      BY <1>1, <2>3 DEF Hard, file
    <3>3. openclaw(claw) /\ ~args.dry_run => Progress(w)'
      BY <1>0, <1>1, <2>3, <3>1, <3>2
      DEF IInv, At, Progress, Patched, Written, Plugged, Loaded
    <3> QED
      BY <1>0, <1>2, <2>1, <2>3, <3>1, <3>3, HostStep DEF Written, Plugged, Loaded
  <2> QED
    BY <1>5, <2>2, <2>3, <1>3, <1>4 DEF configure_remote_openclaw_proxy_env
<1> QED
  BY <1>3, <1>4, <1>5 DEF configure_remote_openclaw_proxy_env

LEMMA RestartStep ==
  ASSUME IInv, restart_remote_openclaw_service
  PROVE  IInv'
<1>0. /\ pc = "restart"
      /\ UNCHANGED <<args, order, n, conf, backups, backup, plugin, dropins, queue, helper,
                     before>>
  BY DEF restart_remote_openclaw_service
<1>1. claw' = claw /\ file' = file /\ file \in Files
  BY <1>0, ClawIsOne DEF claw, file
<1>2. /\ dropins \in [Files -> SUBSET (Units \cup {gateway})] /\ plugin \subseteq Files
      /\ proxied \in [Files -> SUBSET (Units \cup {gateway})]
      /\ loaded \in [Files -> State] /\ queue \subseteq Units
  BY DEF IInv, InstallerTypeOK
<1>3. CASE RestartGateway(dropins[file]) /\ Continue("health")
  <2>1. /\ loaded' \in [Files -> State] /\ loaded'[file] = conf[file]
        /\ proxied' \in [Files -> SUBSET (Units \cup {gateway})]
    BY <1>3, GatewayRestarted
  <2>2. openclaw(claw) /\ ~args.dry_run => Progress("health")'
    BY <1>0, <1>1, <2>1
    DEF IInv, At, Progress, Patched, Hard, Written, Plugged, Loaded
  <2> QED
    BY <1>0, <1>2, <1>3, <2>1, <2>2, HostStep DEF Written, Plugged, Loaded
<1>4. CASE Continue("rollback") /\ UNCHANGED <<loaded, proxied>>
  BY <1>0, <1>2, <1>4, HostStep, FailureKnowsNothing DEF Written, Plugged
<1> QED
  BY <1>3, <1>4 DEF restart_remote_openclaw_service

\* The hardening pass finds the services and gives them their drop-ins.
LEMMA DiscoverStep ==
  ASSUME IInv, discover
  PROVE  IInv'
<1>0. /\ pc = "discover"
      /\ UNCHANGED <<args, order, n, conf, backups, backup, plugin, loaded, proxied, helper,
                     before>>
  BY DEF discover
<1>1. claw' = claw /\ file' = file /\ file \in Files /\ FileOf[claw] = file
  BY <1>0, ClawIsOne DEF claw, file
<1>2. /\ dropins \in [Files -> SUBSET (Units \cup {gateway})] /\ plugin \subseteq Files
      /\ proxied \in [Files -> SUBSET (Units \cup {gateway})]
      /\ loaded \in [Files -> State] /\ queue \subseteq Units
  BY DEF IInv, InstallerTypeOK
<1> DEFINE there == {u \in found : Lands(u)}
<1>3. there \subseteq Units /\ found \subseteq Units
  BY DEF found
<1>4. CASE /\ dropins' = [dropins EXCEPT ![file] = @ \cup there]
           /\ queue' = found
           /\ Continue("ca")
  <2>1. /\ dropins' \in [Files -> SUBSET (Units \cup {gateway})]
        /\ there \subseteq dropins'[file]
    <3> HIDE DEF there
    <3> QED
      BY <1>1, <1>2, <1>3, <1>4
  <2>2. Hard(claw) => found \subseteq dropins'[file]
    BY <1>1, <2>1 DEF Hard, Lands
  <2>3. Hard(claw)' => Hard(claw)
    BY <1>1 DEF Hard
  <2> HIDE DEF there
  <2>4. openclaw(claw) /\ ~args.dry_run => Progress("ca")'
    BY <1>0, <1>1, <1>4, <2>2, <2>3
    DEF IInv, At, Progress, Patched, Written, Plugged, Loaded
  <2> QED
    BY <1>0, <1>2, <1>3, <1>4, <2>1, <2>4, HostStep DEF Written, Plugged, Loaded
<1>5. ASSUME NEW some \in SUBSET there, dropins' = [dropins EXCEPT ![file] = @ \cup some],
             UNCHANGED queue, Continue("rollback")
      PROVE  IInv'
  <2>1. dropins' \in [Files -> SUBSET (Units \cup {gateway})]
    <3>1. some \subseteq Units
      BY <1>3
    <3> QED
      BY <1>1, <1>2, <1>5, <3>1
  <2> QED
    BY <1>0, <1>2, <1>5, <2>1, HostStep, FailureKnowsNothing DEF Written, Plugged, Loaded
<1> QED
  BY <1>4, <1>5 DEF discover, found

\* As long as a service is left there is one whose turn it is.
LEMMA OrderIsTotal == restart_order = {} => queue = {}
<1> SUFFICES ASSUME NEW u \in queue PROVE restart_order # {}
  OBVIOUS
<1>1. \A v : Rank(v) \in {1, 2, 3}
  BY DEF Rank
<1>2. CASE \E v \in queue : Rank(v) = 1
  BY <1>1, <1>2 DEF restart_order
<1>3. CASE (\A v \in queue : Rank(v) # 1) /\ \E v \in queue : Rank(v) = 2
  BY <1>1, <1>3 DEF restart_order
<1>4. CASE \A v \in queue : Rank(v) = 3
  BY <1>4 DEF restart_order
<1> QED
  BY <1>1, <1>2, <1>3, <1>4

LEMMA UnitsStep ==
  ASSUME IInv, restart_units
  PROVE  IInv'
<1>0. /\ pc = "reload"
      /\ UNCHANGED <<args, order, n, conf, backups, backup, plugin, dropins, helper, before>>
  BY DEF restart_units
<1>1. claw' = claw /\ file' = file /\ file \in Files /\ FileOf[claw] = file
  BY <1>0, ClawIsOne DEF claw, file
<1>2. /\ dropins \in [Files -> SUBSET (Units \cup {gateway})] /\ plugin \subseteq Files
      /\ proxied \in [Files -> SUBSET (Units \cup {gateway})]
      /\ loaded \in [Files -> State] /\ queue \subseteq Units
      /\ conf[file] \in State
  BY <1>1 DEF IInv, InstallerTypeOK
<1>3. Hard(claw)' => Hard(claw)
  BY <1>1 DEF Hard
<1>4. CASE restart_order = {} /\ Continue("verify") /\ UNCHANGED <<queue, loaded, proxied>>
  <2>1. queue = {}
    BY <1>4, OrderIsTotal
  <2>2. openclaw(claw) /\ ~args.dry_run => Progress("verify")'
    BY <1>0, <1>1, <1>3, <1>4, <2>1
    DEF IInv, At, Progress, Patched, Written, Plugged, Loaded
  <2> QED
    BY <1>0, <1>2, <1>4, <2>2, HostStep DEF Written, Plugged, Loaded
<1>5. ASSUME NEW u \in restart_order,
             proxied' = [proxied EXCEPT ![file] = @ \cup ({u} \cap dropins[file])],
             loaded' = IF u = gateway THEN [loaded EXCEPT ![file] = conf[file]] ELSE loaded,
             queue' = queue \ {u}, Continue("reload")
      PROVE  IInv'
  <2>1. u \in Units
    BY <1>2, <1>5 DEF restart_order
  <2>2. /\ proxied' \in [Files -> SUBSET (Units \cup {gateway})]
        /\ proxied'[file] = proxied[file] \cup ({u} \cap dropins[file])
    BY <1>1, <1>2, <1>5, <2>1
  <2>3. /\ loaded' \in [Files -> State]
        /\ loaded[file] = conf[file] => loaded'[file] = conf[file]
    BY <1>1, <1>2, <1>5
  <2>4. /\ found \subseteq dropins[file] /\ found \ queue \subseteq proxied[file]
        => found \ queue' \subseteq proxied'[file]
    BY <1>5, <2>2
  <2>5. openclaw(claw) /\ ~args.dry_run => Progress("reload")'
    BY <1>0, <1>1, <1>3, <2>3, <2>4
    DEF IInv, At, Progress, Patched, Written, Plugged, Loaded
  <2> QED
    BY <1>0, <1>2, <1>5, <2>2, <2>3, <2>5, HostStep DEF Written, Plugged, Loaded
<1>6. CASE queue' = {} /\ Continue("rollback") /\ UNCHANGED <<loaded, proxied>>
  BY <1>0, <1>2, <1>6, HostStep, FailureKnowsNothing DEF Written, Plugged, Loaded
<1> QED
  BY <1>4, <1>5, <1>6 DEF restart_units

-----------------------------------------------------------------------------
(* The change is withdrawn.                                                *)

LEMMA WithdrawStep ==
  ASSUME IInv, attempt_rollback
  PROVE  IInv'
<1> USE DEF IInv
<1>0. pc = "rollback" /\ UNCHANGED <<args, order, n, backups, backup, host, helper, before>>
  BY DEF attempt_rollback
<1>c. claw \in Claws /\ file \in Files /\ FileOf[claw] = file
  BY ClawIsOne
<1>1. claw' = claw /\ file' = file
  BY <1>0 DEF claw, file
<1>2. /\ backup \notin {None, Planned} =>
           /\ backup = before[claw] /\ backup \in backups[file] /\ ~args.dry_run
           /\ Intact(conf[file]) => Intact(backup)
      /\ managed(claw) /\ ~args.skip_backup /\ ~args.dry_run => backup \notin {None, Planned}
  BY <1>0 DEF At, Late
<1>3. CASE (backup = None \/ ~managed(claw)) /\ Stop /\ UNCHANGED conf
  <2>1. Reported([success |-> FALSE, rollback |-> "not_applicable"])
    BY <1>2, <1>3 DEF Reported, managed, openclaw
  <2> QED
    BY <1>0, <1>3, <2>1, FinishStep DEF Stop, everything
<1>4. CASE UNCHANGED conf /\ Finish(FALSE, "failed")
  <2>1. Reported([success |-> FALSE, rollback |-> "failed"])
    BY DEF Reported
  <2> QED
    BY <1>0, <1>4, <2>1, FinishStep DEF everything
<1>5. ASSUME NEW content \in {backup, Broken}, backup \notin {None, Planned}, managed(claw),
             conf' = [conf EXCEPT ![file] = content],
             NEW rollback \in {"restored", "failed"}, Finish(FALSE, rollback),
             rollback = "restored" => content = backup
      PROVE  IInv'
  <2>1. content \in State
    BY <1>5 DEF InstallerTypeOK, State
  <2>2. openclaw(claw) /\ content \in Content => content.user
    BY <1>2, <1>5, <1>c, InstallerAssumption DEF Owners
  <2>3. Intact(conf[file]) /\ ~args.skip_backup => \E copy \in backups[file] : Intact(copy)
    BY <1>2, <1>5
  <2>4. /\ conf' \in [Files -> State] /\ conf'[file] = content
        /\ SettingsNeverLost' /\ Owners'
    BY <1>0, <1>5, <2>1, <2>2, <2>3, OverwriteKeeps
  <2>5. /\ result' \in [Claws -> Outcome \cup {None}]
        /\ result'[claw] = [success |-> FALSE, rollback |-> rollback]
    BY <1>5, ResultType
  <2>6. pc' = "next"
    BY <1>5 DEF Finish
  <2>7. InstallerTypeOK'
    BY <1>0, <2>4, <2>5, <2>6 DEF InstallerTypeOK, host
  <2>8. At(pc)'
    BY <2>6 DEF At, Progress, Prior, Early, Seen, Late, Written, Plugged, Loaded
  <2>9. Reported(result[claw])'
    BY <1>0, <1>1, <1>2, <1>5, <2>4, <2>5 DEF Reported
  <2> QED
    BY <2>4, <2>7, <2>8, <2>9
<1>6. CASE backup # None /\ managed(claw) /\ restore_backup
  <2>1. CASE backup = Planned
    BY <1>4, <1>6, <2>1 DEF restore_backup
  <2>2. CASE backup # Planned
    BY <1>4, <1>5, <1>6, <2>2 DEF restore_backup
  <2> QED
    BY <2>1, <2>2
<1> QED
  BY <1>3, <1>6 DEF attempt_rollback

-----------------------------------------------------------------------------

LEMMA NextIInv == IInv /\ [Next]_vars => IInv'
<1> SUFFICES ASSUME IInv, [Next]_vars PROVE IInv'
  OBVIOUS
<1>1. CASE parse_install_target \/ run_wizard \/ run_install_with_deps \/ killed
  BY <1>1, DriverStep
<1>2. CASE PrepareClaw
  BY <1>2, SshStep, AccessStep, HelperStep, BaselineStep, BackupStep DEF PrepareClaw
<1>3. CASE ChangeClaw
  BY <1>3, VersionStep, ApplyStep, PatchStep, ReadbackStep, PluginStep, PolicyPluginStep,
     ProxyEnvStep, RestartStep, DiscoverStep, CaStep, UnitsStep, VerifyStep, HealthStep,
     WithdrawStep DEF ChangeClaw
<1>4. CASE UNCHANGED vars
  <2>1. UNCHANGED <<args, order, n, pc, conf, backups, backup, plugin, dropins, loaded,
                    proxied, queue, helper, result, before>>
    BY <1>4 DEF vars
  <2>2. InstallerTypeOK' /\ SettingsNeverLost' /\ UNCHANGED <<claw, file>>
    BY <2>1 DEF IInv, InstallerTypeOK, SettingsNeverLost, Owners, At, claw, file
  <2>3. Owners'
    BY <2>1 DEF IInv, Owners
  <2>4. At(pc)'
    BY <2>1, <2>2 DEF IInv, At, Progress, Patched
  <2>5. (pc = "next" => Reported(result[claw]))'
    BY <2>1, <2>2 DEF IInv, Reported, Progress, Patched
  <2> QED
    BY <2>2, <2>3, <2>4, <2>5 DEF IInv
<1> QED
  BY <1>1, <1>2, <1>3, <1>4 DEF Next

\* In every step of install_claw the installer knows what At says of it, and
\* what it reports is true when it is recorded.
THEOREM InstallerInvariant == Spec => []IInv
BY InitIInv, NextIInv, PTL DEF Spec

\* Whatever remote command fails and whenever the installer is killed, the
\* settings of the operator of every host are in the config or in a backup
\* next to it, for any order of claws, also several on one host (run_backup
\* before apply_remote_config, attempt_rollback).
THEOREM SettingsAreKept == Spec => []SettingsNeverLost
<1>1. IInv => SettingsNeverLost
  BY DEF IInv
<1> QED
  BY <1>1, InstallerInvariant, PTL

\* What the installer reports of a claw is true: of an OpenClaw claw, that
\* it is installed, or was left as it was; of any, that it was rolled back
\* (install_claw, attempt_rollback).
THEOREM ReportsAreTrue == Spec => []InstalledIsComplete
<1>1. IInv => InstalledIsComplete
  <2> SUFFICES ASSUME IInv, pc = "next" PROVE InstalledIsComplete
    BY DEF InstalledIsComplete, Just
  <2>1. Reported(result[claw]) /\ FileOf[claw] = file
    BY ClawIsOne DEF IInv
  <2>2. "health" \in Written /\ "health" \in Plugged /\ "health" \in Loaded
    BY DEF Written, Plugged, Loaded
  <2>3. Progress("health") => /\ Patched(claw) /\ file \in plugin
                              /\ loaded[file] = conf[file]
    BY <2>2 DEF Progress
  <2> QED
    BY <2>1, <2>3 DEF InstalledIsComplete, Just, Reported, Patched
<1> QED
  BY <1>1, InstallerInvariant, PTL

\* The hosts that are hardened run their services as the system's.
SystemHosts ==
  \A c \in Claws : openclaw(c) /\ "hardening" \in Given[c] => Mode[FileOf[c]] # "user"

\* On hosts whose services are the system's, a hardening pass that is
\* reported as passed has every service found running with its drop-in.  It
\* takes the hypothesis: a user service's drop-in is written to a path that
\* is quoted together with its $HOME (run_linux_hardening_pass).
THEOREM HardeningIsComplete ==
  ASSUME SystemHosts
  PROVE  Spec => []HardenedServicesProxied
<1>1. IInv => HardenedServicesProxied
  <2> SUFFICES ASSUME IInv, NEW c \in Claws, Just(c), result[c].success,
                      ~args.dry_run, openclaw(c),
                      {"hardening", "proxy_endpoint"} \subseteq Given[c],
                      Mode[FileOf[c]] # "launchd"
               PROVE  {u \in Units : classify_service(u)} \subseteq proxied[FileOf[c]]
    BY DEF HardenedServicesProxied
  <2>1. Mode[FileOf[c]] = "system"
    BY InstallerAssumption DEF SystemHosts
  <2>2. Progress("health") /\ Hard(claw) /\ claw = c /\ file = FileOf[c]
    BY <2>1, ClawIsOne DEF IInv, Just, Reported, Hard
  <2> QED
    BY <2>2 DEF Progress, found
<1> QED
  BY <1>1, InstallerInvariant, PTL

-----------------------------------------------------------------------------
(* Configuration                                                           *)

\* The tasks of a start, --proxy-only or not.
AnyTask == Wanted(FALSE)

\* No agent fails the strict check where the profile asks for it.
EgressClean ==
  security_requires_agent_egress_proxy =>
    check_agent_proxy_coverage_with_strict(TRUE, TRUE) = {}

\* What the doctor has found in order when its report is empty, with the
\* files as they are now.
DoctorClean ==
  /\ validate_config_file
  /\ check_secret_files = {}
  /\ check_model_gateway_config = {}
  /\ EgressClean

\* The inductive invariant of Configuration: files change at most once, and
\* not after the process has stopped, so that "the files as the doctor saw
\* them" means that they have not changed since.
ConfigInv ==
  /\ config \in Configs
  /\ phase \in {"written", "starting", "up", "stopped"}
  /\ phase = "written" =>
       cause = NotYet /\ \A a \in DOMAIN built : built[a] = NotYet
  /\ phase \in {"starting", "up"} =>
       /\ validate_config_file /\ cause = NotYet
       /\ DOMAIN tasks \subseteq AnyTask
  /\ report = {} => (disk = Contents => seen = Contents)
  /\ report = {} => EgressClean
  /\ Clean => DoctorClean
  /\ \A a \in DOMAIN built :
       /\ built[a] \notin {"unknown agent", "unknown kind", "no endpoint"}
       /\ Clean => built[a] \notin {"unreadable token", "unreadable reply token"}
  /\ ForetoldFailures

\* A finite set of positions has a first one.
LEMMA HasFirst ==
  ASSUME NEW S \in SUBSET Nat, IsFiniteSet(S), S # {}
  PROVE  \E j \in S : \A i \in S : j <= i
<1> DEFINE upto(j) == {i \in S : i <= j}
           T == {upto(j) : j \in S}
<1>1. IsWellFoundedOn(StrictSubsetOrdering(S), SUBSET S)
  BY FS_StrictSubsetOrderingWellFounded, FS_FiniteSubsetsOfFinite
<1>2. T \subseteq SUBSET S /\ T # {}
  OBVIOUS
<1>3. \E x \in T : \A y \in T : ~ (<<y, x>> \in StrictSubsetOrdering(S))
  <2> HIDE DEF T
  <2> QED BY <1>1, <1>2, WFMin
<1>4. PICK j \in S : \A y \in T : ~ (<<y, upto(j)>> \in StrictSubsetOrdering(S))
  BY <1>3
<1>5. ASSUME NEW i \in S, i < j PROVE FALSE
  <2>1. upto(i) \subseteq upto(j)
    <3>1. ASSUME NEW x \in S, x <= i PROVE x <= j
      <4>1. x \in Nat /\ i \in Nat /\ j \in Nat
        OBVIOUS
      <4> QED BY <3>1, <4>1, <1>5
    <3> QED BY <3>1
  <2>2. j \in upto(j) /\ j \notin upto(i)
    BY <1>5
  <2>3. upto(i) \in T
    OBVIOUS
  <2>4. <<upto(i), upto(j)>> \in StrictSubsetOrdering(S)
    BY <2>1, <2>2 DEF StrictSubsetOrdering
  <2> QED BY <1>4, <2>3, <2>4
<1> QED BY <1>5

\* The channel that a listener runs with is one of its kind and enabled.
LEMMA FirstIsEnabled ==
  ASSUME config \in Configs, NEW k \in Enabled
  PROVE  /\ ChannelOf(k) \in Elems(config.channels)
         /\ ChannelOf(k).kind = k /\ ChannelOf(k).enabled
<1> DEFINE hits == {j \in DOMAIN config.channels :
                      config.channels[j].kind = k /\ config.channels[j].enabled}
<1>1. hits \in SUBSET Nat /\ IsFiniteSet(hits)
  <2>1. hits \subseteq DOMAIN config.channels
    OBVIOUS
  <2>2. DOMAIN config.channels \subseteq Nat /\ IsFiniteSet(DOMAIN config.channels)
    BY ConfigurationAssumption DEF ConfigurationAssumption, IsConfig
  <2> QED BY <2>1, <2>2, FS_Subset
<1>2. hits # {}
  BY DEF Enabled, Elems
<1>3. \E j \in hits : \A i \in hits : j <= i
  <2> HIDE DEF hits
  <2> QED BY <1>1, <1>2, HasFirst
<1> DEFINE first == CHOOSE j \in hits : \A i \in hits : j <= i
<1>4. first \in hits
  <2> HIDE DEF hits
  <2> QED BY <1>3
<1>5. ChannelOf(k) = config.channels[first]
  BY DEF ChannelOf
<1> HIDE DEF first
<1> QED BY <1>4, <1>5 DEF Elems

\* What the doctor says of no key file is that each can be read.
LEMMA FilesAreThere ==
  ASSUME check_secret_files = {}
  PROVE  /\ \A a \in Elems(config.agents) :
              /\ check_readable_file("agent api_key_file", a.api_key_file) = {}
              /\ check_readable_file("agent reply_auth_token_file",
                                     a.reply_auth_token_file) = {}
         /\ \A c \in Elems(config.channels) :
              c.enabled /\ c.kind = "telegram" =>
                check_readable_file("channel bot_token_file", c.token_file) = {}
         /\ \A f \in {"api_key_file", "backend_api_key_file"} :
              check_readable_file("proxy", config.proxy.files[f]) = {}
<1> DEFINE OfAgent(a) ==
             check_readable_file("agent api_key_file", a.api_key_file) \cup
             check_readable_file("agent reply_auth_token_file", a.reply_auth_token_file)
           OfChannel(c) == check_readable_file("channel bot_token_file", c.token_file)
           Telegram == {d \in Elems(config.channels) : d.enabled /\ d.kind = "telegram"}
           OfProxy(f) == check_readable_file("proxy", config.proxy.files[f])
<1>1. /\ UNION {OfAgent(a) : a \in Elems(config.agents)} = {}
      /\ UNION {OfChannel(c) : c \in Telegram} = {}
      /\ UNION {OfProxy(f) : f \in {"api_key_file", "backend_api_key_file"}} = {}
  BY DEF check_secret_files
<1>2. ASSUME NEW a \in Elems(config.agents) PROVE OfAgent(a) = {}
  <2> HIDE DEF OfAgent
  <2> QED BY <1>1
<1>3. ASSUME NEW c \in Telegram PROVE OfChannel(c) = {}
  <2> HIDE DEF OfChannel, Telegram
  <2> QED BY <1>1
<1>4. ASSUME NEW f \in {"api_key_file", "backend_api_key_file"} PROVE OfProxy(f) = {}
  <2> HIDE DEF OfProxy
  <2> QED BY <1>1
<1> QED BY <1>2, <1>3, <1>4

\* What the start may fail with of its own, the doctor does not look at,
\* unless it is a provider's configuration.
LEMMA LeftToTheStart ==
  /\ <<"missing", "bot_token_file">> \in StartOnly /\ <<"missing", "bot_token_file">> \in NotLookedAt
  /\ <<"missing", "sms_from_phone">> \in StartOnly /\ <<"missing", "sms_from_phone">> \in NotLookedAt
  /\ <<"blank", "sms token">> \in StartOnly /\ <<"blank", "sms token">> \in NotLookedAt
  /\ <<"blank", "allowed_users">> \in StartOnly /\ <<"blank", "allowed_users">> \in NotLookedAt
  /\ <<"context", "persistent">> \in StartOnly /\ <<"context", "persistent">> \in NotLookedAt
  /\ <<"main", "nothing to do">> \in StartOnly /\ <<"main", "nothing to do">> \in NotLookedAt
  /\ Network \in StartOnly /\ Network \in NotLookedAt
  /\ \A w \in {"reserved field", "provider key", "unknown provider"} :
       <<"provider config", w>> \in StartOnly
<1>1. /\ <<"missing", "bot_token_file">>[1] # "provider config"
      /\ <<"missing", "sms_from_phone">>[1] # "provider config"
      /\ <<"blank", "sms token">>[1] # "provider config"
      /\ <<"blank", "allowed_users">>[1] # "provider config"
      /\ <<"context", "persistent">>[1] # "provider config"
      /\ <<"main", "nothing to do">>[1] # "provider config"
      /\ Network[1] # "provider config"
  BY DEF Network
<1>2. /\ <<"missing", "bot_token_file">> \in StartOnly
      /\ <<"missing", "sms_from_phone">> \in StartOnly
      /\ <<"blank", "sms token">> \in StartOnly
      /\ <<"blank", "allowed_users">> \in StartOnly
      /\ <<"context", "persistent">> \in StartOnly
      /\ <<"main", "nothing to do">> \in StartOnly
      /\ Network \in StartOnly
      /\ \A w \in {"reserved field", "provider key", "unknown provider"} :
           <<"provider config", w>> \in StartOnly
  BY DEF StartOnly
<1>3. \A x \in StartOnly : x[1] # "provider config" => x \in NotLookedAt
  BY DEF NotLookedAt
<1> HIDE DEF StartOnly, NotLookedAt
<1> QED BY <1>1, <1>2, <1>3

\* Files that only the listeners and the control API read.
LEMMA FilesNotLookedAt ==
  ASSUME NEW f \in {"access_token_file", "sms_linq_api_token_file",
                    "sms_linq_signing_secret_file", "secret_discovery_api_key_file",
                    "secret_control_api_key_file", "agent"}
  PROVE  <<"unreadable", f>> \in NotLookedAt
BY DEF NotLookedAt

\* A listener of a validated configuration fails only for what the rules
\* leave to it or for a file, ...
LEMMA ListenerFailures ==
  ASSUME config \in Configs, validate_config_file,
         NEW t \in Enabled, NEW e \in Failures(t)
  PROVE  /\ e \in StartOnly \/ e[1] = "unreadable"
         /\ check_secret_files = {} => e \in NotLookedAt
<1> DEFINE c == ChannelOf(t)
<1>1. c \in Elems(config.channels) /\ c.kind = t /\ c.enabled
  BY FirstIsEnabled
<1>2. validate_channels(c)
  BY <1>1 DEF validate_config_file, validate_config
<1>3. check_secret_files = {} /\ t = "telegram" =>
        check_readable_file("channel bot_token_file", c.token_file) = {}
  BY <1>1, FilesAreThere
<1>4. t \in {"telegram", "matrix", "whatsapp", "signal", "sms", "mock"}
  BY DEF Enabled, ChannelKinds
<1> HIDE DEF c
<1>5. CASE t = "telegram"
  <2>1. e \in run_telegram(c)
    BY <1>5 DEF Failures, c
  <2>2. \/ e = <<"missing", "bot_token_file">>
        \/ e = <<"unreadable", "bot_token_file">> /\ ~ Unset(c.token_file)
           /\ read_expanded(c.token_file) = "gone"
    BY <2>1 DEF run_telegram, Lacks, Unreadable
  <2>3. /\ <<"missing", "bot_token_file">> \in StartOnly
        /\ <<"missing", "bot_token_file">> \in NotLookedAt
    BY LeftToTheStart
  <2>4. CASE e = <<"missing", "bot_token_file">>
    BY <2>3, <2>4
  <2>5. CASE /\ e = <<"unreadable", "bot_token_file">> /\ ~ Unset(c.token_file)
             /\ read_expanded(c.token_file) = "gone"
    <3>1. check_secret_files # {}
      BY <1>3, <1>5, <2>5 DEF check_readable_file
    <3> QED BY <2>5, <3>1
  <2> QED BY <2>2, <2>4, <2>5
<1>6. CASE t = "matrix"
  <2>1. e \in run_matrix(c)
    BY <1>6 DEF Failures, c
  <2>2. \/ e = <<"blank", "allowed_users">>
        \/ e = <<"unreadable", "access_token_file">>
    BY <1>1, <1>2, <1>6, <2>1
    DEF run_matrix, Lacks, Unreadable, matrix_e2ee_startup_error, validate_channels
  <2>3. /\ <<"blank", "allowed_users">> \in StartOnly
        /\ <<"blank", "allowed_users">> \in NotLookedAt
    BY LeftToTheStart
  <2>4. <<"unreadable", "access_token_file">> \in NotLookedAt
    BY FilesNotLookedAt
  <2> QED BY <2>2, <2>3, <2>4
<1>7. CASE t \in {"whatsapp", "signal"}
  <2>1. e \in run_whatsapp(c) \cup run_signal(c)
    BY <1>7 DEF Failures, c
  <2>2. ~ c.legacy /\ ~ Unset(c.address) /\ (t = "signal" => ~ Unset(c.account))
    BY <1>1, <1>2, <1>7 DEF validate_channels
  <2>3. run_whatsapp(c) = {}
    BY <2>2 DEF run_whatsapp, Lacks, Legacy
  <2>4. t = "signal" => run_signal(c) = {}
    BY <2>2 DEF run_signal, Lacks, Legacy
  <2>5. t = "whatsapp" => e \in run_whatsapp(c)
    BY DEF Failures, c
  <2> QED BY <1>7, <2>1, <2>3, <2>4, <2>5
<1>8. CASE t = "sms"
  <2>1. e \in run_sms(c)
    BY <1>8 DEF Failures, c
  <2>2. \/ e = <<"unreadable", "sms_linq_api_token_file">>
        \/ e = <<"unreadable", "sms_linq_signing_secret_file">>
        \/ e = <<"blank", "sms token">>
        \/ e = <<"missing", "sms_from_phone">>
    BY <2>1 DEF run_sms, Lacks, Unreadable
  <2>3. /\ <<"blank", "sms token">> \in StartOnly
        /\ <<"blank", "sms token">> \in NotLookedAt
        /\ <<"missing", "sms_from_phone">> \in StartOnly
        /\ <<"missing", "sms_from_phone">> \in NotLookedAt
    BY LeftToTheStart
  <2>4. /\ <<"unreadable", "sms_linq_api_token_file">> \in NotLookedAt
        /\ <<"unreadable", "sms_linq_signing_secret_file">> \in NotLookedAt
    BY FilesNotLookedAt
  <2>5. CASE e = <<"blank", "sms token">> \/ e = <<"missing", "sms_from_phone">>
    BY <2>3, <2>5
  <2>6. CASE \/ e = <<"unreadable", "sms_linq_api_token_file">>
             \/ e = <<"unreadable", "sms_linq_signing_secret_file">>
    BY <2>4, <2>6
  <2> QED BY <2>2, <2>5, <2>6
<1>9. CASE t = "mock"
  BY <1>9 DEF Failures
<1> QED BY <1>4, <1>5, <1>6, <1>7, <1>8, <1>9

\* ... and so does the proxy; it reads a path with a tilde as it is written.
LEMMA ProxyFailures ==
  ASSUME validate_config_file, config.proxy.enabled, NEW e \in Failures("proxy")
  PROVE  /\ e \in StartOnly \/ e[1] = "unreadable"
         /\ check_secret_files = {} /\ check_model_gateway_config = {} =>
              e \in NotLookedAt \/ TildeOnly(e)
<1> DEFINE p == config.proxy
<1>1. validate_proxy_config(p)
  BY DEF validate_config_file, validate_config
<1>2. e \in start_proxy_server
  BY DEF Failures
<1>3. validate_explicit_provider_selection = {}
  BY <1>1 DEF validate_explicit_provider_selection, validate_proxy_config, HttpTypes
<1>4. from_config = {}
  BY <1>1 DEF from_config, validate_proxy_config, validate_proxy_observability_config, Elems
<1>5. p.bind = "good"
  BY <1>1 DEF validate_proxy_config
<1>6. \/ \E f \in KeyFields : e \in resolve_api_key(f)
      \/ \E w \in build_provider_entries : e = <<"provider config", w>>
  BY <1>2, <1>3, <1>4, <1>5 DEF start_proxy_server
<1>7. ASSUME NEW w \in build_provider_entries, e = <<"provider config", w>>
      PROVE  e \in StartOnly /\ check_model_gateway_config # {}
  <2>1. w \in {"reserved field", "provider key", "unknown provider"}
    <3>1. ASSUME NEW q \in Elems(p.providers)
          PROVE  q.backend_type \in HttpTypes /\ ~ Blank(q.url)
      BY <1>1, <3>1 DEF validate_proxy_config, ValidProvider, Elems
    <3> QED BY <3>1 DEF build_provider_entries
  <2>2. check_model_gateway_config # {}
    BY DEF check_model_gateway_config
  <2> QED BY <1>7, <2>1, <2>2, LeftToTheStart
<1>8. ASSUME NEW f \in KeyFields, e \in resolve_api_key(f)
      PROVE  /\ e[1] = "unreadable"
             /\ check_secret_files = {} => e \in NotLookedAt \/ TildeOnly(e)
  <2>1. /\ e = <<"unreadable", f>>
        /\ ~ Unset(p.files[f]) /\ read_literal(p.files[f]) = "gone"
    BY <1>8 DEF resolve_api_key
  <2>2. CASE f \in {"api_key_file", "backend_api_key_file"}
    <3>1. check_secret_files = {} => check_readable_file("proxy", p.files[f]) = {}
      BY <2>2, FilesAreThere
    <3>2. check_secret_files = {} => p.files[f] \in UnderHome
      BY <2>1, <3>1 DEF check_readable_file, read_literal, read_expanded
    <3> QED BY <2>1, <2>2, <3>2 DEF TildeOnly
  <2>3. CASE f \notin {"api_key_file", "backend_api_key_file"}
    BY <2>1, <2>3, FilesNotLookedAt DEF KeyFields
  <2> QED BY <2>1, <2>2, <2>3
<1> QED BY <1>6, <1>7, <1>8

\* A started task of a validated configuration.
LEMMA StartFailures ==
  ASSUME config \in Configs, validate_config_file,
         NEW t \in AnyTask, NEW e \in Failures(t)
  PROVE  /\ e \in StartOnly \/ e[1] = "unreadable"
         /\ DoctorClean => e \in NotLookedAt \/ TildeOnly(e)
<1>1. CASE t \in Enabled
  BY <1>1, ListenerFailures DEF DoctorClean
<1>2. CASE t = "proxy" /\ config.proxy.enabled
  BY <1>2, ProxyFailures DEF DoctorClean
<1> QED BY <1>1, <1>2 DEF AnyTask, Wanted

\* The adapter of an agent that a rule of a validated configuration names.
LEMMA AdapterFailures ==
  ASSUME config \in Configs, validate_config_file,
         NEW r \in Elems(config.routing),
         NEW id \in {r.default_agent, r.btw_agent} \ {"none"}
  PROVE  /\ AdapterOf(id) \notin {"unknown agent", "unknown kind", "no endpoint"}
         /\ check_secret_files = {} =>
              AdapterOf(id) \notin {"unreadable token", "unreadable reply token"}
<1>1. id \in AgentIds
  BY DEF validate_config_file, validate_config, validate_routing_rules
<1> DEFINE a == CHOOSE x \in Elems(config.agents) : x.id = id
<1>2. a \in Elems(config.agents)
  BY <1>1 DEF AgentIds
<1>3. AdapterOf(id) = build_adapter(a)
  BY <1>1 DEF AdapterOf
<1> HIDE DEF a
<1>4. /\ parse_agent_kind(a.kind)
      /\ is_http_agent(a) => a.endpoint # "empty"
  BY <1>2 DEF validate_config_file, validate_config, validate_agents
<1>5. a.api_key \in Text /\ a.auth_token \in Text
  BY <1>2, ConfigurationAssumption
  DEF ConfigurationAssumption, IsConfig, IsAgentConfig, Elems
<1>6. check_secret_files = {} =>
        /\ ~ Unset(a.api_key_file) => read_expanded(a.api_key_file) # "gone"
        /\ ~ Unset(a.reply_auth_token_file) =>
             read_expanded(a.reply_auth_token_file) # "gone"
  BY <1>2, FilesAreThere DEF check_readable_file
<1>7. check_secret_files = {} => resolve_agent_token(a) # "gone"
  BY <1>5, <1>6 DEF resolve_agent_token, Text
<1>8. resolve_optional_agent_token_file(a)
        \in {"ok", "blank reply token", "unreadable reply token"}
  BY DEF resolve_optional_agent_token_file
<1>9. check_secret_files = {} =>
        resolve_optional_agent_token_file(a) # "unreadable reply token"
  BY <1>6 DEF resolve_optional_agent_token_file
<1> QED BY <1>3, <1>4, <1>7, <1>8, <1>9 DEF build_adapter

\* What depends on the configuration alone does not change, ...
LEMMA RulesAreFixed ==
  ASSUME config' = config
  PROVE  /\ validate_config_file' = validate_config_file
         /\ AnyTask' = AnyTask
         /\ EgressClean' = EgressClean
<1>1. validate_config_file' = validate_config_file
  BY DEF validate_config_file, validate_config, validate_no_duplicate_ids,
         Distinct, Ids, Elems, selectors_of, validate_agents, parse_agent_kind,
         is_http_agent, HasKey, Unset, Blank, validate_routing_rules, AgentIds,
         validate_channels, EncryptedOnly, validate_proxy_config,
         validate_proxy_observability_config, validate_gateway_retry_config,
         ValidProvider, HasModelAuth, HasProviderAuth, validate_security_config
<1>2. AnyTask' = AnyTask
  BY DEF AnyTask, Wanted, Enabled, Elems
<1>3. EgressClean' = EgressClean
  BY DEF EgressClean, security_requires_agent_egress_proxy,
         check_agent_proxy_coverage_with_strict, Subprocesses, Elems,
         is_external_agent_daemon
<1> QED BY <1>1, <1>2, <1>3

\* ... nor what depends on it and the files, as long as these do not.
LEMMA ChecksAreFixed ==
  ASSUME config' = config, disk' = disk
  PROVE  DoctorClean' = DoctorClean
<1>1. check_secret_files' = check_secret_files
  BY DEF check_secret_files, check_readable_file, read_expanded, Elems
<1>2. check_model_gateway_config' = check_model_gateway_config
  BY DEF check_model_gateway_config, build_provider_entries, Elems, ProviderIds,
         resolve_provider_api_key, read_literal
<1> QED BY <1>1, <1>2, RulesAreFixed DEF DoctorClean

\* A report without errors means that every check passed.
LEMMA EmptyReport ==
  ASSUME run_with_options, report' = {}
  PROVE  DoctorClean
<1>1. PICK no_network \in BOOLEAN, override \in BOOLEAN, s \in Statuses,
           down \in SUBSET {a.id : a \in {b \in Elems(config.agents) : is_http_agent(b)}} :
        LET strict == security_requires_agent_egress_proxy
        IN  report' =
              IF ~ validate_config_file THEN {<<"config", "validation">>}
              ELSE check_secret_files \cup check_model_gateway_config
                   \cup check_scanner_config
                   \cup check_agent_proxy_coverage_with_strict(strict \/ override, strict)
                   \cup check_agent_wiring_with_strict(strict, no_network, down, s)
                   \cup check_persisted_state
  BY DEF run_with_options
<1>2. validate_config_file
  BY <1>1
<1>3. /\ check_secret_files = {} /\ check_model_gateway_config = {}
      /\ check_agent_proxy_coverage_with_strict
           (security_requires_agent_egress_proxy \/ override,
            security_requires_agent_egress_proxy) = {}
  BY <1>1, <1>2
<1>4. EgressClean
  BY <1>3 DEF EgressClean, check_agent_proxy_coverage_with_strict
<1> QED BY <1>2, <1>3, <1>4 DEF DoctorClean

\* Every reachable state of Configuration satisfies ConfigInv.
THEOREM ConfigInductive == ConfigSpec => []ConfigInv
<1>1. ConfigInit => ConfigInv
  BY ConfigurationAssumption
  DEF ConfigurationAssumption, ConfigInit, ConfigInv, Clean, ForetoldFailures
<1>2. ASSUME ConfigInv, [ConfigNext]_cvars
      PROVE  ConfigInv'
  <2>1. CASE run_with_options
    <3>1. /\ phase = "written" /\ cause = NotYet
          /\ \A a \in DOMAIN built : built[a] = NotYet
          /\ UNCHANGED <<config, disk, phase, tasks, cause, built>> /\ seen' = disk
      BY <1>2, <2>1 DEF run_with_options, ConfigInv
    <3>2. report' = {} => DoctorClean'
      BY <2>1, <3>1, EmptyReport, ChecksAreFixed
    <3> QED BY <1>2, <3>1, <3>2, RulesAreFixed, ConfigurationAssumption
            DEF ConfigInv, Clean, ForetoldFailures, DoctorClean,
                ConfigurationAssumption
  <2>2. CASE load_config_from
    <3>1. /\ phase = "written" /\ cause = NotYet
          /\ \A a \in DOMAIN built : built[a] = NotYet
          /\ UNCHANGED <<config, disk, report, seen, built>>
      BY <1>2, <2>2 DEF load_config_from, ConfigInv
    <3>2. /\ Clean' = Clean
          /\ Clean => DoctorClean
          /\ DoctorClean' = DoctorClean
      BY <1>2, <3>1, ChecksAreFixed DEF ConfigInv, Clean
    <3>3. \/ /\ phase' = "stopped"
             /\ \/ ~ validate_config_file
                \/ cause' \in {<<"context", "persistent">>, <<"main", "nothing to do">>}
                \/ cause' = NotYet
          \/ /\ phase' = "starting" /\ cause' = NotYet /\ validate_config_file
             /\ DOMAIN tasks' \subseteq AnyTask
      BY <2>2, <3>1 DEF load_config_from, Halt, Wanted, AnyTask
    <3>4. ForetoldFailures'
      <4>1. cause' \in {<<"context", "persistent">>, <<"main", "nothing to do">>} =>
              cause' \in StartOnly /\ cause' \in NotLookedAt
        BY LeftToTheStart
      <4>2. validate_config_file' = validate_config_file
        BY <3>1, RulesAreFixed
      <4>3. \A a \in DOMAIN built' :
              built'[a] \notin {"unknown agent", "unknown kind", "no endpoint",
                                "unreadable token", "unreadable reply token"}
        BY <3>1, ConfigurationAssumption DEF ConfigurationAssumption
      <4> QED BY <3>2, <3>3, <4>1, <4>2, <4>3 DEF ForetoldFailures, DoctorClean
    <3> QED BY <1>2, <3>1, <3>2, <3>3, <3>4, RulesAreFixed
            DEF ConfigInv
  <2>3. ASSUME NEW t \in DOMAIN tasks, RunTask(t)
        PROVE  ConfigInv'
    <3>1. /\ phase = "starting" /\ cause = NotYet /\ validate_config_file
          /\ t \in AnyTask /\ config \in Configs
          /\ UNCHANGED <<config, disk, report, seen, built>>
      BY <1>2, <2>3 DEF RunTask, ConfigInv
    <3>2. /\ Clean' = Clean
          /\ Clean => DoctorClean
          /\ DoctorClean' = DoctorClean
      BY <1>2, <3>1, ChecksAreFixed DEF ConfigInv, Clean
    <3>3. \/ phase' \in {"starting", "up"} /\ cause' = NotYet /\ DOMAIN tasks' = DOMAIN tasks
          \/ phase' = "stopped" /\ (cause' \in Failures(t) \/ cause' = Network)
      BY <2>3, <3>1 DEF RunTask, Halt
    <3>4. ForetoldFailures'
      <4>1. cause' # NotYet =>
              /\ cause' \in StartOnly \/ cause'[1] = "unreadable"
              /\ DoctorClean => cause' \in NotLookedAt \/ TildeOnly(cause')
        BY <3>1, <3>3, StartFailures, LeftToTheStart
      <4>2. TildeOnly(cause') => TildeOnly(cause)'
        BY <3>1 DEF TildeOnly
      <4>3. \A a \in DOMAIN built' :
              /\ built'[a] \notin {"unknown agent", "unknown kind", "no endpoint"}
              /\ Clean' => built'[a] \notin {"unreadable token", "unreadable reply token"}
        BY <1>2, <3>1, <3>2 DEF ConfigInv
      <4> QED BY <3>2, <4>1, <4>2, <4>3 DEF ForetoldFailures
    <3> QED BY <1>2, <3>1, <3>2, <3>3, <3>4, RulesAreFixed DEF ConfigInv
  <2>4. ASSUME NEW t \in DOMAIN tasks, EndTask(t)
        PROVE  ConfigInv'
    <3>1. /\ phase \in {"starting", "up"} /\ cause = NotYet /\ validate_config_file
          /\ UNCHANGED <<config, disk, report, seen, built>>
      BY <1>2, <2>4 DEF EndTask, ConfigInv
    <3>2. /\ Clean' = Clean
          /\ Clean => DoctorClean
          /\ DoctorClean' = DoctorClean
      BY <1>2, <3>1, ChecksAreFixed DEF ConfigInv, Clean
    <3>3. /\ phase' \in {"starting", "up", "stopped"}
          /\ cause' \in {NotYet, Network}
          /\ phase' # "stopped" => cause' = NotYet /\ DOMAIN tasks' = DOMAIN tasks
      BY <2>4, <3>1 DEF EndTask, Halt
    <3>4. ForetoldFailures'
      <4>1. cause' # NotYet => cause' \in StartOnly /\ cause' \in NotLookedAt
        BY <3>3, LeftToTheStart
      <4>2. \A a \in DOMAIN built' :
              /\ built'[a] \notin {"unknown agent", "unknown kind", "no endpoint"}
              /\ Clean' => built'[a] \notin {"unreadable token", "unreadable reply token"}
        BY <1>2, <3>1, <3>2 DEF ConfigInv
      <4> QED BY <4>1, <4>2 DEF ForetoldFailures
    <3> QED BY <1>2, <3>1, <3>2, <3>3, <3>4, RulesAreFixed DEF ConfigInv
  <2>5. CASE dispatch
    <3>1. /\ phase = "up" /\ cause = NotYet /\ validate_config_file /\ config \in Configs
          /\ UNCHANGED <<config, disk, phase, tasks, cause, report, seen>>
      BY <1>2, <2>5 DEF dispatch, ConfigInv
    <3>2. /\ Clean' = Clean
          /\ Clean => DoctorClean
          /\ DoctorClean' = DoctorClean
      BY <1>2, <3>1, ChecksAreFixed DEF ConfigInv, Clean
    <3>3. PICK r \in Elems(config.routing) :
            \E id \in {r.default_agent, r.btw_agent} \ {"none"} :
              built' = [b \in DOMAIN built \cup {id} |->
                          IF b = id THEN AdapterOf(id) ELSE built[b]]
      BY <2>5 DEF dispatch
    <3>4. PICK id \in {r.default_agent, r.btw_agent} \ {"none"} :
            built' = [b \in DOMAIN built \cup {id} |->
                        IF b = id THEN AdapterOf(id) ELSE built[b]]
      BY <3>3
    <3>5. /\ AdapterOf(id) \notin {"unknown agent", "unknown kind", "no endpoint"}
          /\ Clean => AdapterOf(id) \notin {"unreadable token", "unreadable reply token"}
      BY <3>1, <3>2, AdapterFailures DEF DoctorClean
    <3>6. \A a \in DOMAIN built' :
            /\ built'[a] \notin {"unknown agent", "unknown kind", "no endpoint"}
            /\ Clean' => built'[a] \notin {"unreadable token", "unreadable reply token"}
      BY <1>2, <3>2, <3>4, <3>5 DEF ConfigInv
    <3>7. ForetoldFailures'
      BY <3>1, <3>6 DEF ForetoldFailures
    <3> QED BY <1>2, <3>1, <3>2, <3>6, <3>7, RulesAreFixed DEF ConfigInv
  <2>6. CASE FileLost
    <3>1. /\ disk = Contents /\ phase # "stopped" /\ disk' # Contents
          /\ UNCHANGED <<config, phase, tasks, cause, report, seen, built>>
      <4>1. PICK p \in Paths, to \in {"blank", "gone"} :
              disk[p] = "key" /\ disk' = [disk EXCEPT ![p] = to]
        BY <2>6 DEF FileLost
      <4>2. disk = Contents /\ Contents \in [Paths -> {"key", "blank", "gone"}]
        BY <2>6, ConfigurationAssumption DEF FileLost, ConfigurationAssumption
      <4>3. disk'[p] # Contents[p]
        BY <4>1, <4>2
      <4> QED BY <2>6, <4>3 DEF FileLost
    <3>2. ~ Clean' /\ cause = NotYet
      BY <1>2, <3>1 DEF ConfigInv, Clean
    <3>3. ForetoldFailures'
      BY <1>2, <3>1, <3>2 DEF ConfigInv, ForetoldFailures
    <3> QED BY <1>2, <3>1, <3>2, <3>3, RulesAreFixed DEF ConfigInv
  <2>7. CASE UNCHANGED cvars
    <3>1. /\ config' = config /\ disk' = disk /\ phase' = phase /\ tasks' = tasks
          /\ cause' = cause /\ report' = report /\ seen' = seen /\ built' = built
      BY <2>7 DEF cvars
    <3>2. Clean' = Clean /\ DoctorClean' = DoctorClean
      BY <3>1, ChecksAreFixed DEF Clean
    <3>3. ForetoldFailures' = ForetoldFailures
      BY <3>1, <3>2, RulesAreFixed DEF ForetoldFailures, TildeOnly
    <3> QED BY <1>2, <3>1, <3>2, <3>3, RulesAreFixed DEF ConfigInv
  <2> QED BY <1>2, <2>1, <2>2, <2>3, <2>4, <2>5, <2>6, <2>7 DEF ConfigNext
<1> QED BY <1>1, <1>2, PTL DEF ConfigSpec

\* A configuration that passed its checks fails later only for what they do
\* not look at, for any configuration, files and answers of the plugins.
THEOREM FailuresAreForetold == ConfigSpec => []ForetoldFailures
<1>1. ConfigInv => ForetoldFailures
  BY DEF ConfigInv
<1> QED BY <1>1, ConfigInductive, PTL

\* An agent whose environment the doctor finds complete and not cleared is
\* covered.
LEMMA CompleteIsCovered ==
  ASSUME NEW a, has_complete_agent_proxy_env(a), ~ clears_agent_proxy_env(a)
  PROVE  Covered(a.env)
<1> DEFINE env == a.env
<1>1. \A k \in DOMAIN env : ~ Blank(env[k])
  BY DEF clears_agent_proxy_env
<1>2. \A u, l : ~ Blank(Value(env, u, l)) => u \in DOMAIN env \/ l \in DOMAIN env
  BY DEF Value, Blank
<1>3. /\ "HTTP_PROXY" \in DOMAIN env \/ "http_proxy" \in DOMAIN env
      /\ "HTTPS_PROXY" \in DOMAIN env \/ "https_proxy" \in DOMAIN env
      /\ "ALL_PROXY" \in DOMAIN env \/ "all_proxy" \in DOMAIN env
      /\ "SSL_CERT_FILE" \in DOMAIN env \/ "CURL_CA_BUNDLE" \in DOMAIN env
  BY <1>2 DEF has_complete_agent_proxy_env
<1>4. "loopback" \in {env[k] : k \in DOMAIN env \cap {"NO_PROXY", "no_proxy"}}
  BY DEF has_complete_agent_proxy_env, Value
<1> HIDE DEF env
<1> QED BY <1>1, <1>3, <1>4 DEF Covered, env

\* A clean report under strict egress is true of every agent.
THEOREM EgressIsStrict == ConfigSpec => []StrictEgressHolds
<1>1. ConfigInv => StrictEgressHolds
  <2> SUFFICES ASSUME ConfigInv, report = {}, security_requires_agent_egress_proxy,
                      NEW a \in Elems(config.agents)
               PROVE  /\ is_subprocess_agent(a) => Covered(a.env)
                      /\ ~ is_external_agent_daemon(a)
    BY DEF StrictEgressHolds
  <2>1. check_agent_proxy_coverage_with_strict(TRUE, TRUE) = {}
    BY DEF ConfigInv, EgressClean
  <2>2. ~ is_external_agent_daemon(a)
    BY <2>1 DEF check_agent_proxy_coverage_with_strict
  <2>3. ASSUME is_subprocess_agent(a) PROVE Covered(a.env)
    <3>1. /\ ~ clears_agent_proxy_env(a)
          /\ ~ has_incomplete_agent_proxy_env(a)
          /\ ~ has_no_agent_proxy_env(a)
      BY <2>1, <2>3 DEF check_agent_proxy_coverage_with_strict, Subprocesses
    <3>2. has_complete_agent_proxy_env(a)
      BY <3>1 DEF has_no_agent_proxy_env
    <3> QED BY <3>1, <3>2, CompleteIsCovered
  <2> QED BY <2>2, <2>3
<1> QED BY <1>1, ConfigInductive, PTL

-----------------------------------------------------------------------------
(* ModelPlans                                                              *)

\* What a name stands for is a matter of the configuration.
LEMMA NamesAreFixed ==
  ASSUME pconfig' = pconfig, NEW m
  PROVE  Plans!Stands(m)' = Plans!Stands(m)
BY DEF Plans!Stands, Plans!resolve_model_alias_chain

\* An answer that is not an error is a plan all of whose models the agent
\* may call.
LEMMA OutcomeIsAllowed ==
  ASSUME NEW r, NEW flip, Plans!Outcome(r, flip).ok,
         NEW k \in DOMAIN Plans!Outcome(r, flip).models
  PROVE  LET m == Plans!Outcome(r, flip).models[k]
             asked == {r.model, Plans!Stands(r.model)}
         IN  /\ m \notin r.agent.blocked
             /\ asked \cap r.agent.blocked = {}
             /\ r.agent.allowed = {} \/ (asked \cup {m}) \cap r.agent.allowed # {}
<1> DEFINE root == Plans!resolve_model_alias_chain(r.model)
           plan == Plans!plan_for_model(root.model, r.size, next_rr_index, flip)
           out == Plans!Outcome(r, flip)
<1>1. \A e, rr : ~ Plans!Err(e, rr).ok
  BY DEF Plans!Err
<1>2. /\ out = plan
      /\ Plans!check_model_access_for_names(r.agent, r.model, root.model)
      /\ ~ \E m \in Plans!Range(plan.models) :
             ~ Plans!check_model_access_for_names(r.agent, root.model, m)
  <2> HIDE DEF plan, root
  <2>1. out = IF ~ root.ok THEN Plans!Err("alias", next_rr_index)
              ELSE IF ~ Plans!check_model_access_for_names(r.agent, r.model, root.model)
                   THEN Plans!Err("access", next_rr_index)
              ELSE IF ~ Plans!is_valid_model(root.model)
                   THEN Plans!Err("invalid", next_rr_index)
              ELSE IF plan.ok /\ \E m \in Plans!Range(plan.models) :
                        ~ Plans!check_model_access_for_names(r.agent, root.model, m)
                   THEN Plans!Err("access", plan.rr)
              ELSE plan
    BY DEF Plans!Outcome, Plans!Checked, root, plan
  <2> HIDE DEF out
  <2>2. out.ok
    BY DEF out
  <2> QED BY <1>1, <2>1, <2>2
<1>3. Plans!Stands(r.model) = root.model
  BY DEF Plans!Stands
<1>4. out.models[k] \in Plans!Range(plan.models)
  BY <1>2 DEF Plans!Range
<1> HIDE DEF root, plan, out
<1>5. Plans!check_model_access_for_names(r.agent, root.model, out.models[k])
  BY <1>2, <1>4
<1> QED BY <1>2, <1>3, <1>5 DEF Plans!check_model_access_for_names, out

\* Whatever name a request came in by, no model it is sent to is blocked.
THEOREM BlockedIsNeverCalled == Plans!PlansSpec => []BlockedNeverCalled
<1>1. Plans!PlansInit => BlockedNeverCalled
  BY DEF Plans!PlansInit, BlockedNeverCalled, Plans!BlockedNeverCalled
<1>2. ASSUME BlockedNeverCalled, [Plans!PlansNext]_(Plans!plansVars)
      PROVE  BlockedNeverCalled'
  <2>1. CASE Plans!validate_config
    BY <2>1 DEF Plans!validate_config, BlockedNeverCalled, Plans!BlockedNeverCalled
  <2>2. CASE Plans!start_proxy_server
    BY <2>2 DEF Plans!start_proxy_server, BlockedNeverCalled, Plans!BlockedNeverCalled
  <2>3. CASE Plans!chat_completions
    <3>1. PICK m \in Requested, size \in Sizes, agent \in PlanAgents, flip \in Plans!Draws :
            LET r == [model |-> m, size |-> size, agent |-> agent]
            IN  Plans!Answers(r, Plans!Outcome(r, flip))
      BY <2>3 DEF Plans!chat_completions
    <3> DEFINE r == [model |-> m, size |-> size, agent |-> agent]
               out == Plans!Outcome(r, flip)
    <3> HIDE DEF out
    <3>0. /\ request' = r
          /\ answer' = IF ~ out.ok THEN [ok |-> FALSE, error |-> out.error]
                       ELSE [ok |-> TRUE, calls |-> [k \in DOMAIN out.models |->
                                                      Plans!Call(out.models[k])]]
      BY <3>1 DEF Plans!Answers, out
    <3>2. pconfig' = pconfig
      BY <2>3 DEF Plans!chat_completions
    <3>3. Plans!Stands(request.model)' = Plans!Stands(r.model)
      BY <3>0, <3>2, NamesAreFixed
    <3> SUFFICES ASSUME answer'.ok, NEW k \in DOMAIN answer'.calls
                 PROVE  /\ answer'.calls[k].model \notin r.agent.blocked
                        /\ {r.model, Plans!Stands(r.model)} \cap r.agent.blocked = {}
                        /\ \/ r.agent.allowed = {}
                           \/ ({r.model, Plans!Stands(r.model)}
                               \cup {answer'.calls[k].model}) \cap r.agent.allowed # {}
      BY <3>0, <3>3 DEF BlockedNeverCalled, Plans!BlockedNeverCalled
    <3>4. /\ out.ok /\ DOMAIN answer'.calls = DOMAIN out.models
          /\ answer'.calls[k] = Plans!Call(out.models[k])
      BY <3>0
    <3>5. answer'.calls[k].model = out.models[k]
      BY <3>4 DEF Plans!Call
    <3> HIDE DEF r
    <3> QED BY <3>4, <3>5, OutcomeIsAllowed DEF out
  <2>4. CASE UNCHANGED Plans!plansVars
    <3>1. pconfig' = pconfig /\ pphase' = pphase /\ request' = request /\ answer' = answer
      BY <2>4 DEF Plans!plansVars
    <3>2. Plans!Stands(request.model)' = Plans!Stands(request.model)
      BY <3>1, NamesAreFixed
    <3> QED BY <1>2, <3>1, <3>2 DEF BlockedNeverCalled, Plans!BlockedNeverCalled
  <2> QED BY <1>2, <2>1, <2>2, <2>3, <2>4 DEF Plans!PlansNext
<1> QED BY <1>1, <1>2, PTL DEF Plans!PlansSpec
=============================================================================
