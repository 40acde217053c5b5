------------------------------ MODULE Installer ------------------------------
(***************************************************************************)
(* calciforge install: the pipeline that configures remote agents one      *)
(* after the other (install/executor.rs) over ssh (install/ssh.rs), begun  *)
(* from command-line specs (install/cli.rs) or by the wizard               *)
(* (install/wizard.rs).  Any remote command may fail before, in the middle *)
(* of or after its effect, and the installer may be killed between two.    *)
(*                                                                         *)
(* A remote config file is Missing, Broken (truncated, not parseable) or a *)
(* record: whether the operator's own settings are still in it, whether    *)
(* obsolete entries are, and the claw Calciforge's entries name.           *)
(***************************************************************************)
EXTENDS Naturals, Sequences

CONSTANTS
  Claws, Files, Units,
  Orders,    \* the lists of claws considered
  Adapter,   \* claw -> "openclaw", "zeroclaw", "endpoint" or "cli"
  Given,     \* claw -> the keys its spec gives
  FileOf,    \* claw -> its config file, which stands for its host too
  ArgSets,   \* the command lines considered: [dry_run, skip_backup, wizard, helper]
  Mode,      \* file -> how its host runs services: "system", "user", "launchd"
  Shape,     \* agent services: "env", "exec" or "gateway"; "skip" if no ExecStart
  None, Missing, Broken, Planned

VARIABLES
  args, order,
  n,        \* the claw that is being installed
  pc,
  conf,     \* config files
  backups,  \* what the backup files next to each config file hold
  backup,   \* backup_path: None, Planned in a dry run, or what it holds
  plugin,   \* files of hosts whose plugin directory is complete
  dropins,  \* file -> services with a drop-in on the host
  loaded,   \* file -> what the gateway read when it was last started
  proxied,  \* file -> services that run with their drop-in
  queue,    \* services the hardening pass still has to restart
  helper,   \* file -> claw whose name the secrets helper uses
  result,   \* claw -> None or [success, rollback]
  before    \* history: the file before the claw's installation

vars == <<args, order, n, pc, conf, backups, backup, plugin, dropins, loaded, proxied,
          queue, helper, result, before>>
host == <<plugin, dropins, loaded, proxied, queue>>

claw == order[n]
file == FileOf[claw]
managed(c) == Adapter[c] \in {"openclaw", "zeroclaw"}
openclaw(c) == Adapter[c] = "openclaw"

(* What a config file that can be read holds, as far as it matters here.    *)
Content ==
  [user : BOOLEAN, legacy : BOOLEAN, bridge : Claws \cup {None}, policy : BOOLEAN,
   proxy : BOOLEAN]

(* OpenClaw and ZeroClaw have config files of their own.                    *)
ASSUME InstallerAssumption ==
  /\ FileOf \in [Claws -> Files]
  /\ Orders \subseteq Seq(Claws) \ {<<>>}
  /\ ArgSets \subseteq [dry_run : BOOLEAN, skip_backup : BOOLEAN, wizard : BOOLEAN,
                       helper : {"none", "trusted", "untrusted"}]
  /\ Mode \in [Files -> {"system", "user", "launchd"}]
  /\ None \notin {Missing, Broken, Planned} /\ Missing \notin {Broken, Planned}
  /\ Broken # Planned
  /\ {None, Missing, Broken, Planned} \cap Content = {}
  /\ \A c, d \in Claws :
       managed(c) /\ managed(d) /\ FileOf[c] = FileOf[d] => Adapter[c] = Adapter[d]

Original == [user |-> TRUE, legacy |-> TRUE, bridge |-> None, policy |-> FALSE,
             proxy |-> FALSE]
Intact(f) == f \notin {None, Missing, Broken} /\ f.user

Init ==
  /\ args \in ArgSets
  /\ order \in Orders
  /\ n = 1
  /\ pc = "start"
  /\ conf \in [Files -> {Original, Missing, Broken}]
  /\ backups = [f \in Files |-> {}]
  /\ backup = None
  /\ plugin = {}
  /\ dropins = [f \in Files |-> {}]
  /\ loaded = conf
  /\ proxied = [f \in Files |-> {}]
  /\ queue = {}
  /\ helper = [f \in Files |-> None]
  /\ result = [c \in Claws |-> None]
  /\ before = [c \in Claws |-> None]

-----------------------------------------------------------------------------
(* How an installation begins                                              *)

(* What a spec must give; values that are missing in the wizard are found   *)
(* by the patch.                                                            *)
Tokens == {"auth_token", "reply_webhook", "reply_auth_token"}

parse_adapter(c) ==
  CASE Adapter[c] = "endpoint" -> "endpoint" \in Given[c]
    [] Adapter[c] = "cli" -> "command" \in Given[c]
    [] OTHER -> TRUE

parse_claw_spec(c) ==
  /\ parse_adapter(c)
  /\ managed(c) => {"host", "endpoint"} \subseteq Given[c]
  /\ openclaw(c) => Tokens \subseteq Given[c]

Begin(c) ==
  /\ pc' = "ssh"
  /\ backup' = None
  /\ before' = [before EXCEPT ![c] = conf[FileOf[c]]]

(* One spec that does not parse refuses the whole command line.            *)
parse_install_target ==
  /\ pc = "start"
  /\ ~args.wizard
  /\ \/ /\ \A i \in DOMAIN order : parse_claw_spec(order[i])
        /\ Begin(order[1])
     \/ /\ \E i \in DOMAIN order : ~parse_claw_spec(order[i])
        /\ pc' = "refused"
        /\ UNCHANGED <<backup, before>>
  /\ UNCHANGED <<args, order, n, conf, backups, host, helper, result>>

(* The wizard asks for the same claws, tests the connections, and goes on   *)
(* if the operator says so twice.                                           *)
run_wizard ==
  /\ pc = "start"
  /\ args.wizard
  /\ \/ Begin(order[1])
     \/ pc' = "refused" /\ UNCHANGED <<backup, before>>
  /\ UNCHANGED <<args, order, n, conf, backups, host, helper, result>>

-----------------------------------------------------------------------------
(* Ends of a claw's installation                                           *)

Finish(success, rollback) ==
  /\ result' = [result EXCEPT ![claw] = [success |-> success, rollback |-> rollback]]
  /\ pc' = "next"

Stop == Finish(FALSE, "not_applicable")

Continue(step) == pc' = step /\ UNCHANGED result

(* run_install_with_deps: a claw that failed does not stop the others.     *)
run_install_with_deps ==
  /\ pc = "next"
  /\ IF n < Len(order)
     THEN n' = n + 1 /\ Begin(order[n + 1])
     ELSE pc' = "done" /\ UNCHANGED <<n, backup, before>>
  /\ UNCHANGED <<args, order, conf, backups, host, helper, result>>

killed ==
  /\ pc \notin {"start", "refused", "done", "dead"}
  /\ pc' = "dead"
  /\ UNCHANGED <<args, order, n, conf, backups, backup, host, helper, result, before>>

-----------------------------------------------------------------------------
(* Steps before the change                                                 *)

run_ssh_connectivity ==
  /\ pc = "ssh"
  /\ \/ Continue("access")
     \/ managed(claw) /\ Stop
  /\ UNCHANGED <<args, order, n, conf, backups, backup, host, helper, before>>

(* ensure_openclaw_config_file creates a config that is not there, in a    *)
(* dry run too.                                                            *)
ensure_openclaw_config_file ==
  IF openclaw(claw) /\ conf[file] = Missing
  THEN [conf EXCEPT ![file] = [Original EXCEPT !.legacy = FALSE]]
  ELSE conf

run_remote_config_access ==
  /\ pc = "access"
  /\ \/ ~managed(claw) /\ Continue("helper") /\ UNCHANGED <<conf, before>>
     \/ managed(claw) /\ Stop /\ UNCHANGED <<conf, before>>
     \/ /\ managed(claw)
        /\ conf' = ensure_openclaw_config_file
        /\ before' = [before EXCEPT ![claw] = conf'[file]]
        /\ IF conf'[file] = Missing THEN Stop ELSE Continue("helper") \/ Stop
  /\ UNCHANGED <<args, order, n, backups, backup, host, helper>>

(* The helper is left out of a dry run and without a URL or a local binary, *)
(* and refused with a URL that is not trusted; its commands may fail before *)
(* or after the wrapper was written.                                        *)
run_agent_helper_install ==
  /\ pc = "helper"
  /\ \/ /\ ~managed(claw) \/ args.dry_run \/ args.helper = "none"
        /\ Continue("baseline") /\ UNCHANGED helper
     \/ /\ managed(claw) /\ ~args.dry_run /\ args.helper # "none"
        /\ \/ Stop /\ UNCHANGED helper
           \/ /\ args.helper = "trusted"
              /\ helper' = [helper EXCEPT ![file] = claw]
              /\ Continue("baseline") \/ Stop
  /\ UNCHANGED <<args, order, n, conf, backups, backup, host, before>>

(* health_check_claw: a cli has no endpoint; OpenClaw need not run yet.     *)
HealthCheckBaseline ==
  /\ pc = "baseline"
  /\ \/ Continue("backup")
     \/ Adapter[claw] \notin {"cli", "openclaw"} /\ Stop
  /\ UNCHANGED <<args, order, n, conf, backups, backup, host, helper, before>>

(* Mutant: the copy is not verified.                                       *)
AssumesBackup ==
  /\ \/ backups' = [backups EXCEPT ![file] = @ \cup {conf[file]}]
     \/ UNCHANGED backups
  /\ backup' = conf[file]
  /\ Continue("version")

(* A backup that was made: cp and verify_file_exists, which also wants the  *)
(* copy not to be empty.                                                    *)
backup_file ==
  \/ /\ backups' = [backups EXCEPT ![file] = @ \cup {conf[file]}]
     /\ backup' = conf[file]
     /\ Continue("version")
  \/ Stop /\ UNCHANGED <<backups, backup>>

run_backup ==
  /\ pc = "backup"
  /\ \/ /\ ~managed(claw) \/ args.skip_backup
        /\ Continue("version") /\ UNCHANGED <<backups, backup>>
     \/ /\ managed(claw) /\ ~args.skip_backup /\ args.dry_run
        /\ backup' = Planned
        /\ Continue("version") /\ UNCHANGED backups
     \/ /\ managed(claw) /\ ~args.skip_backup /\ ~args.dry_run
        /\ backup_file
  /\ UNCHANGED <<args, order, n, conf, host, helper, before>>

(* A version that is not known is a warning; none is incompatible yet.      *)
run_version_detection ==
  /\ pc = "version"
  /\ Continue("apply")
  /\ UNCHANGED <<args, order, n, conf, backups, backup, host, helper, before>>

-----------------------------------------------------------------------------
(* The change                                                              *)

run_apply ==
  /\ pc = "apply"
  /\ IF ~managed(claw) THEN Continue("health")
     ELSE IF backup = None /\ ~args.skip_backup THEN Continue("rollback")
     ELSE IF args.dry_run THEN Continue("health")
     ELSE Continue("patch")
  /\ UNCHANGED <<args, order, n, conf, backups, backup, host, helper, before>>

(* read_file does not look at the exit status: a connection that is lost    *)
(* reads as an empty file, like one that was truncated.                     *)
read_file == {conf[file], Broken}

remove_legacy_openclaw_hook_entries(c) == [c EXCEPT !.legacy = FALSE]

patch_openclaw_channel_plugin(c) == [c EXCEPT !.bridge = claw]

patch_openclaw_policy_plugin(c) ==
  [c EXCEPT !.policy = @ \/ "policy_endpoint" \in Given[claw]]

patch_openclaw_proxy_config(c) ==
  [c EXCEPT !.proxy = @ \/ "proxy_endpoint" \in Given[claw]]

(* Broken if there is nothing to write: an unreadable config or a missing   *)
(* token is an error.                                                       *)
patch_openclaw_config(c) ==
  IF c \in {Missing, Broken} \/ ~(Tokens \subseteq Given[claw]) THEN Broken
  ELSE patch_openclaw_proxy_config(patch_openclaw_policy_plugin(
         patch_openclaw_channel_plugin(remove_legacy_openclaw_hook_entries(c))))

(* The stub appends a section to whatever it was given.                     *)
patch_zeroclaw_config_stub(c) ==
  IF c = Broken THEN [Original EXCEPT !.user = FALSE, !.bridge = claw]
  ELSE IF c.bridge # None THEN c
  ELSE [c EXCEPT !.bridge = claw]

(* Mutant: the exit status of the write is not looked at.                   *)
WriteUnchecked(content) ==
  /\ conf' \in {conf, [conf EXCEPT ![file] = content]}
  /\ Continue("readback")

(* write_file: done; failed before or after the content was there; or the   *)
(* file was truncated and the content did not arrive.                       *)
write_file(content) ==
  \/ conf' = [conf EXCEPT ![file] = content] /\ Continue("readback")
  \/ conf' \in {conf, [conf EXCEPT ![file] = content], [conf EXCEPT ![file] = Broken]}
     /\ Continue("rollback")

apply_remote_config ==
  /\ pc = "patch"
  /\ \E current \in read_file :
       LET patched == IF openclaw(claw) THEN patch_openclaw_config(current)
                      ELSE patch_zeroclaw_config_stub(current)
       IN  IF patched = Broken THEN Continue("rollback") /\ UNCHANGED conf
           ELSE write_file(patched)
  /\ UNCHANGED <<args, order, n, backups, backup, host, helper, before>>

(* Only OpenClaw's config is parsed again, and only it has more to install. *)
readback ==
  /\ pc = "readback"
  /\ \E written \in read_file :
       IF ~openclaw(claw) THEN Continue("health")
       ELSE IF written = Broken THEN Continue("rollback")
       ELSE Continue("plugin")
  /\ UNCHANGED <<args, order, n, conf, backups, backup, host, helper, before>>

(* Three files, each read back (verify_remote_file_matches).                *)
install_remote_openclaw_channel_plugin ==
  /\ pc = "plugin"
  /\ \/ /\ plugin' = plugin \cup {file}
        /\ Continue("policy")
     \/ /\ plugin' = plugin \ {file}
        /\ Continue("rollback")
  /\ UNCHANGED <<args, order, n, conf, backups, backup, dropins, loaded, proxied, queue,
                 helper, before>>

install_remote_openclaw_policy_plugin ==
  /\ pc = "policy"
  /\ \/ Continue("proxyenv")
     \/ "policy_endpoint" \in Given[claw] /\ Continue("rollback")
  /\ UNCHANGED <<args, order, n, conf, backups, backup, host, helper, before>>

gateway == CHOOSE u \in Units : Shape[u] = "gateway"

(* The gateway is started again and reads its config.                       *)
RestartGateway(drop) ==
  /\ loaded' = [loaded EXCEPT ![file] = conf[file]]
  /\ proxied' = [proxied EXCEPT ![file] = IF gateway \in drop THEN @ \cup {gateway} ELSE @]

(* The proxy must answer from the agent's host; then the gateway gets its   *)
(* drop-in (systemd) or wrapper (launchd) and is restarted.                 *)
configure_remote_openclaw_proxy_env ==
  /\ pc = "proxyenv"
  /\ \/ /\ "proxy_endpoint" \notin Given[claw]
        /\ Continue("restart")
        /\ UNCHANGED <<dropins, loaded, proxied>>
     \/ /\ "proxy_endpoint" \in Given[claw]
        /\ \/ Continue("rollback") /\ UNCHANGED <<dropins, loaded, proxied>>
           \/ /\ dropins' = [dropins EXCEPT ![file] = @ \cup {gateway}]
              /\ \/ Continue("rollback") /\ UNCHANGED <<loaded, proxied>>
                 \/ /\ RestartGateway(dropins'[file])
                    /\ Continue(IF "hardening" \in Given[claw] /\ Mode[file] # "launchd"
                                THEN "discover" ELSE "health")
  /\ UNCHANGED <<args, order, n, conf, backups, backup, plugin, queue, helper, before>>

restart_remote_openclaw_service ==
  /\ pc = "restart"
  /\ \/ RestartGateway(dropins[file]) /\ Continue("health")
     \/ Continue("rollback") /\ UNCHANGED <<loaded, proxied>>
  /\ UNCHANGED <<args, order, n, conf, backups, backup, plugin, dropins, queue, helper,
                 before>>

-----------------------------------------------------------------------------
(* run_linux_hardening_pass                                                *)

(* classify_service: services that get a drop-in; a browser whose ExecStart *)
(* is not found is skipped with a warning.                                  *)
classify_service(u) == Shape[u] # "skip"

(* The path of a user service's drop-in is quoted with its $HOME, so the    *)
(* file does not land where systemd looks; the gateway has its own already. *)
Lands(u) == Mode[file] = "system" \/ u = gateway

discover ==
  /\ pc = "discover"
  /\ LET found == {u \in Units : classify_service(u)}
         there == {u \in found : Lands(u)} IN
     \/ /\ dropins' = [dropins EXCEPT ![file] = @ \cup there]
        /\ queue' = found
        /\ Continue("ca")
     \/ /\ \E some \in SUBSET there : dropins' = [dropins EXCEPT ![file] = @ \cup some]
        /\ UNCHANGED queue
        /\ Continue("rollback")
  /\ UNCHANGED <<args, order, n, conf, backups, backup, plugin, loaded, proxied, helper,
                 before>>

(* A CA that is not there stops the pass; one that could not be installed   *)
(* in a trust store is a warning.                                           *)
install_ca ==
  /\ pc = "ca"
  /\ Continue("reload") \/ Continue("rollback")
  /\ UNCHANGED <<args, order, n, conf, backups, backup, host, helper, before>>

Rank(u) == CASE Shape[u] = "exec" -> 1 [] Shape[u] = "env" -> 2 [] OTHER -> 3

(* Mutant: browsers have their drop-in and are not restarted.               *)
LeavesBrowsers == {u \in queue : Shape[u] # "exec" /\ \A v \in queue : Rank(u) <= Rank(v) \/ Shape[v] = "exec"}

(* restart_order: browsers, then orchestrators, then the gateway.           *)
restart_order == {u \in queue : \A v \in queue : Rank(u) <= Rank(v)}

(* A service that does not come back active ends the installation.          *)
restart_units ==
  /\ pc = "reload"
  /\ \/ /\ restart_order = {}
        /\ Continue("verify")
        /\ UNCHANGED <<queue, loaded, proxied>>
     \/ \E u \in restart_order :
          /\ \/ /\ proxied' = [proxied EXCEPT ![file] = @ \cup ({u} \cap dropins[file])]
                /\ loaded' = IF u = gateway THEN [loaded EXCEPT ![file] = conf[file]]
                             ELSE loaded
                /\ queue' = queue \ {u}
                /\ Continue("reload")
             \/ /\ queue' = {}
                /\ Continue("rollback")
                /\ UNCHANGED <<loaded, proxied>>
  /\ UNCHANGED <<args, order, n, conf, backups, backup, plugin, dropins, helper, before>>

(* check_block_response: the page that must be blocked is.                  *)
verify_block_page ==
  /\ pc = "verify"
  /\ Continue("health") \/ Continue("rollback")
  /\ UNCHANGED <<args, order, n, conf, backups, backup, host, helper, before>>

-----------------------------------------------------------------------------
(* After the change                                                        *)

(* Up to six attempts; a dry run is checked too.                            *)
HealthCheckPostApply ==
  /\ pc = "health"
  /\ \/ Finish(TRUE, "not_applicable")
     \/ Adapter[claw] # "cli" /\ Continue("rollback")
  /\ UNCHANGED <<args, order, n, conf, backups, backup, host, helper, before>>

(* cp of the backup over the config; nothing is restarted.  The copy of a   *)
(* dry run does not exist, so that cp fails.                                *)
restore_backup ==
  \/ /\ backup # Planned
     /\ conf' = [conf EXCEPT ![file] = backup]
     /\ Finish(FALSE, "restored")
  \/ /\ conf' \in {conf} \cup (IF backup = Planned THEN {}
                              ELSE {[conf EXCEPT ![file] = Broken]})
     /\ Finish(FALSE, "failed")

attempt_rollback ==
  /\ pc = "rollback"
  /\ IF backup = None \/ ~managed(claw) THEN Stop /\ UNCHANGED conf
     ELSE restore_backup
  /\ UNCHANGED <<args, order, n, backups, backup, host, helper, before>>

(* install_claw: the steps that leave the agent's config as it is, ...      *)
PrepareClaw ==
  \/ run_ssh_connectivity \/ run_remote_config_access \/ run_agent_helper_install
  \/ HealthCheckBaseline \/ run_backup

(* ... and the change, its check and its withdrawal.                        *)
ChangeClaw ==
  \/ run_version_detection \/ run_apply
  \/ apply_remote_config \/ readback
  \/ install_remote_openclaw_channel_plugin \/ install_remote_openclaw_policy_plugin
  \/ configure_remote_openclaw_proxy_env \/ restart_remote_openclaw_service
  \/ discover \/ install_ca \/ restart_units \/ verify_block_page
  \/ HealthCheckPostApply \/ attempt_rollback

Next ==
  \/ parse_install_target \/ run_wizard \/ run_install_with_deps \/ killed
  \/ PrepareClaw \/ ChangeClaw

Spec == Init /\ [][Next]_vars

-----------------------------------------------------------------------------
(* Whatever fails and whenever the installer is killed, the settings of the *)
(* operator are in the remote config or in a backup next to it, unless the  *)
(* command line said --skip-backup                                          *)
(* (run_backup, run_apply, write_file, restore_backup).                     *)
SettingsNeverLost ==
  \A c \in Claws : Intact(before[c]) /\ ~args.skip_backup =>
    \E copy \in backups[FileOf[c]] \cup {conf[FileOf[c]]} : Intact(copy)

Just(c) == pc = "next" /\ claw = c

(* An OpenClaw claw that is reported as installed has its entries in a      *)
(* config that lost nothing, its plugin complete, and a gateway that was    *)
(* started after the last change of the config; a claw that failed without  *)
(* a failed rollback left its config as it was, unless there was no backup; *)
(* and of any claw, a rollback that is reported as done has put back        *)
(* exactly what the file held before it, whatever part of the apply had     *)
(* been reached (install_claw, attempt_rollback).                           *)
InstalledIsComplete ==
  /\ \A c \in Claws :
       Just(c) /\ result[c].rollback = "restored" => conf[FileOf[c]] = before[c]
  /\ \A c \in Claws : Just(c) /\ openclaw(c) /\ ~args.dry_run =>
    LET f == FileOf[c] IN
    /\ result[c].success =>
         /\ Intact(conf[f]) /\ conf[f].bridge = c /\ ~conf[f].legacy
         /\ f \in plugin /\ loaded[f] = conf[f]
    /\ ~result[c].success /\ ~args.skip_backup /\ result[c].rollback # "failed" =>
         conf[f] = before[c]

(* After a hardening pass that is reported as passed, every agent service   *)
(* that was found runs with its drop-in (run_linux_hardening_pass).         *)
HardenedServicesProxied ==
  \A c \in Claws :
    /\ Just(c) /\ result[c].success /\ ~args.dry_run
    /\ openclaw(c) /\ {"hardening", "proxy_endpoint"} \subseteq Given[c]
    /\ Mode[FileOf[c]] # "launchd"
    => {u \in Units : classify_service(u)} \subseteq proxied[FileOf[c]]
=============================================================================
