---------------------------- MODULE Configuration ----------------------------
(***************************************************************************)
(* A configuration file on its way into service (calciforge: config.rs,    *)
(* config/validator.rs, doctor.rs, main.rs, the run functions of channels/ *)
(* and proxy/mod.rs, and build_adapter).  It is validated; `calciforge     *)
(* doctor` may look at it and at the files it names; the process starts    *)
(* its tasks, which read those files again, each in its own way; and an    *)
(* agent's adapter is built, with more reads, when a message is dispatched *)
(* to it.  Files may get lost or emptied at any time in between.           *)
(*                                                                         *)
(* Of a text only what the checks tell apart is kept: "none" (not set),    *)
(* "empty", "spaces", and what makes a good one.  Reports keep the errors, *)
(* which decide the doctor's exit status; warnings change nothing.         *)
(***************************************************************************)
EXTENDS Naturals, Sequences, FiniteSets

CONSTANTS
  Configs,    \* the configuration files considered
  Paths,      \* paths of key files
  UnderHome,  \* the paths that are written with a tilde
  Contents,   \* path -> what the file holds at first: "key", "blank", "gone"
  OnPath,     \* the executables that are found
  Features,   \* cargo features of the build
  Statuses,   \* what the plugin of an OpenClaw agent may answer to the doctor
  Ambient,    \* the doctor's process has proxy variables of its own
  NotYet      \* no report, cause or adapter so far

VARIABLES
  config, disk,
  phase,      \* "written", "starting", "up" or "stopped"
  tasks,      \* task -> "waiting", "running", "ended"
  cause,      \* why the process stopped
  report,     \* the doctor's errors, or NotYet
  seen,       \* the files when the doctor looked, or NotYet
  built       \* agent id -> why its adapter was not built; "ok"; or NotYet

cvars == <<config, disk, phase, tasks, cause, report, seen, built>>

Elems(s) == {s[k] : k \in DOMAIN s}
Unset(x) == x = "none"
Blank(x) == x \in {"none", "empty", "spaces"}

\* Every path is expanded, or taken as it is written.
read_expanded(p) == disk[p]
read_literal(p) == IF p \in UnderHome THEN "gone" ELSE disk[p]

-----------------------------------------------------------------------------
(* The parts of a configuration (config.rs).                               *)

Text == {"none", "empty", "spaces", "good"}
File == {"none"} \cup Paths

RemoteKinds == {"openclaw-channel", "openai-compat", "zeroclaw-http",
                "zeroclaw-native", "zeroclaw", "ironclaw", "hermes"}
CommandKinds == {"exec", "cli", "artifact-cli", "acp", "acpx"}
CliKinds == {"codex-cli", "claude-cli", "dirac-cli", "kimi-cli"}

\* AgentKind::parse: any other kind is unknown.
parse_agent_kind(k) == k \in RemoteKinds \cup CommandKinds \cup CliKinds
is_subprocess_agent(a) == a.kind \in CommandKinds \cup CliKinds
is_http_agent(a) == a.kind \in RemoteKinds

ProxyKeys == {"HTTP_PROXY", "http_proxy", "HTTPS_PROXY", "https_proxy",
              "ALL_PROXY", "all_proxy", "NO_PROXY", "no_proxy",
              "SSL_CERT_FILE", "CURL_CA_BUNDLE"}

\* A self endpoint is one at the proxy's own address.
IsAgentConfig(a) ==
  /\ a.endpoint \in {"empty", "good", "self"}
  /\ a.model \in {"none", "openclaw", "other"} /\ a.allow_model_override \in BOOLEAN
  /\ {a.api_key, a.auth_token, a.reply_auth_token} \subseteq Text
  /\ {a.api_key_file, a.reply_auth_token_file} \subseteq File
  /\ DOMAIN a.env \subseteq ProxyKeys

IsChannelConfig(c) ==
  /\ c.enabled \in BOOLEAN /\ c.legacy \in BOOLEAN
  /\ {c.address, c.account, c.room, c.store, c.users, c.token} \subseteq Text
  /\ {c.token_file, c.secret_file} \subseteq File
  /\ c.e2ee \in {"off", "warn", "require", "experimental-sdk"}

IsProxyProviderConfig(p) ==
  /\ p.owner \in {"calciforge", "provider"} /\ p.reserved \in BOOLEAN
  /\ {p.url, p.strip_model_prefix, p.api_key, p.model_api_key} \subseteq Text
  /\ {p.api_key_file, p.model_api_key_file} \subseteq File

KeyFields == {"api_key_file", "secret_discovery_api_key_file",
              "secret_control_api_key_file", "backend_api_key_file", "agent"}

IsProxyConfig(p) ==
  /\ p.enabled \in BOOLEAN /\ p.backend_url \in {"empty", "bad", "good"}
  /\ p.files \in [KeyFields -> File]
  /\ \A k \in DOMAIN p.providers : IsProxyProviderConfig(p.providers[k])

IsConfig(c) ==
  /\ \A k \in DOMAIN c.agents : IsAgentConfig(c.agents[k])
  /\ DOMAIN c.channels \subseteq Nat /\ IsFiniteSet(DOMAIN c.channels)
  /\ \A k \in DOMAIN c.channels : IsChannelConfig(c.channels[k])
  /\ IsProxyConfig(c.proxy)
  /\ c.persistent \in BOOLEAN /\ c.selectors \in {"good", "refused"}

ASSUME ConfigurationAssumption ==
  /\ UnderHome \subseteq Paths
  /\ Contents \in [Paths -> {"key", "blank", "gone"}]
  /\ \A c \in Configs : IsConfig(c)
  /\ NotYet # {}
  /\ NotYet \notin {"unknown agent", "unknown kind", "no endpoint",
                    "unreadable token", "unreadable reply token"}

Ids(s) == [k \in DOMAIN s |-> s[k].id]
AgentIds == {a.id : a \in Elems(config.agents)}
Distinct(s) == \A j, k \in DOMAIN s : s[j] = s[k] => j = k

ConfigInit ==
  /\ config \in Configs
  /\ disk = Contents
  /\ phase = "written"
  /\ tasks = [t \in {} |-> "waiting"]
  /\ cause = NotYet /\ report = NotYet /\ seen = NotYet
  /\ built = [a \in AgentIds |-> NotYet]

-----------------------------------------------------------------------------
(* validator.rs.  Names of models are checked in ModelPlans.               *)

selectors_of(a) == {a.id} \cup a.aliases

\* No identity or agent twice, no selector of two agents, and none that is
\* also the name of a model.
validate_no_duplicate_ids ==
  /\ Distinct(config.identities)
  /\ Distinct(Ids(config.agents))
  /\ \A a, b \in Elems(config.agents) :
       a.id # b.id => selectors_of(a) \cap selectors_of(b) = {}
  /\ \A a \in Elems(config.agents) : selectors_of(a) \cap config.models = {}

HasKey(a) == ~ Unset(a.api_key) \/ ~ Unset(a.api_key_file)

\* Whether a token is there is looked at, not whether it is blank.
validate_agents(a) ==
  /\ parse_agent_kind(a.kind)
  /\ is_http_agent(a) => a.endpoint # "empty"
  /\ a.kind = "openai-compat" =>
       /\ a.model # "openclaw"
       /\ ~ Unset(a.model) \/ a.allow_model_override
  /\ a.kind = "zeroclaw" => HasKey(a)
  /\ a.kind \in {"ironclaw", "hermes"} => HasKey(a) \/ ~ Unset(a.auth_token)
  /\ a.kind \in CommandKinds => ~ Blank(a.command)

\* Mutant: the agent of !btw need not exist.
BtwUnchecked(r) ==
  /\ r.default_agent \in AgentIds
  /\ r.allowed_agents \subseteq AgentIds

validate_routing_rules(r) ==
  /\ r.default_agent \in AgentIds
  /\ r.allowed_agents \subseteq AgentIds
  /\ r.btw_agent # "none" =>
       /\ r.btw_agent \in AgentIds
       /\ r.allowed_agents = {} \/ r.btw_agent \in r.allowed_agents

EncryptedOnly(c) == c.e2ee \in {"require", "experimental-sdk"}

\* Disabled channels are not looked at; Telegram, SMS and mock never are.
validate_channels(c) ==
  c.enabled =>
    /\ c.kind \in {"whatsapp", "signal"} => ~ c.legacy /\ ~ Unset(c.address)
    /\ c.kind = "signal" => ~ Unset(c.account)
    /\ c.kind = "matrix" =>
         /\ ~ Unset(c.address) /\ ~ Unset(c.token_file)
         /\ ~ Unset(c.users)
         /\ EncryptedOnly(c) => /\ ~ Unset(c.room) /\ ~ Unset(c.store)
                                /\ "channel-matrix-e2ee" \in Features

\* A sink that is switched off is checked too.
validate_proxy_observability_config(s) == s.timeout /\ s.kind_known /\ s.endpoint_ok

validate_gateway_retry_config(r) ==
  r.min > 0 /\ r.max >= r.min /\ r.factor > 0

HttpTypes == {"http", "helicone", "openrouter"}
HasProviderAuth(p) == ~ Blank(p.api_key) \/ ~ Unset(p.api_key_file)
HasModelAuth(p) == ~ Blank(p.model_api_key) \/ ~ Unset(p.model_api_key_file)

\* One bearer credential is sent: exactly one owner may supply it.
ValidProvider(p) ==
  /\ p.backend_type \in HttpTypes
  /\ ~ Blank(p.url)
  /\ p.strip_model_prefix \notin {"empty", "spaces"}
  /\ validate_gateway_retry_config(p.retry)
  /\ IF p.owner = "provider" THEN ~ HasModelAuth(p)
     ELSE HasModelAuth(p) # HasProviderAuth(p)

validate_proxy_config(p) ==
  /\ p.gateway_ui_url \in {"none", "good"}
  /\ \A k \in DOMAIN p.sinks : validate_proxy_observability_config(p.sinks[k])
  /\ p.enabled =>
       /\ validate_gateway_retry_config(p.retry)
       /\ p.bind = "good" /\ p.timeout_seconds > 0
       /\ p.backend_type \in HttpTypes \cup {"mock"}
       /\ p.backend_type = "mock" => p.providers # << >>
       /\ p.backend_type \in HttpTypes => p.backend_url = "good"
       /\ \A k \in DOMAIN p.providers : ValidProvider(p.providers[k])

Profiles == {"open", "balanced", "hardened", "maximum", "paranoid"}
validate_security_config(s) == s.profile \in Profiles

validate_config ==
  /\ validate_no_duplicate_ids
  /\ \A a \in Elems(config.agents) : validate_agents(a)
  /\ \A r \in Elems(config.routing) : validate_routing_rules(r)
  /\ \A c \in Elems(config.channels) : validate_channels(c)
  /\ validate_proxy_config(config.proxy)
  /\ validate_security_config(config.security)

\* Syntax, then the structure, then the rules.
validate_config_file == config.syntax /\ validate_config

-----------------------------------------------------------------------------
(* The environment of subprocess agents.  A later spelling counts only if   *)
(* the first is not there.                                                  *)

Value(env, upper, lower) ==
  IF upper \in DOMAIN env THEN env[upper]
  ELSE IF lower \in DOMAIN env THEN env[lower] ELSE "none"

has_complete_agent_proxy_env(a) ==
  /\ ~ Blank(Value(a.env, "HTTP_PROXY", "http_proxy"))
  /\ ~ Blank(Value(a.env, "HTTPS_PROXY", "https_proxy"))
  /\ ~ Blank(Value(a.env, "ALL_PROXY", "all_proxy"))
  /\ \E k \in {"SSL_CERT_FILE", "CURL_CA_BUNDLE"} : ~ Blank(Value(a.env, k, k))
  /\ Value(a.env, "NO_PROXY", "no_proxy") = "loopback"

clears_agent_proxy_env(a) == \E k \in DOMAIN a.env : Blank(a.env[k])

has_incomplete_agent_proxy_env(a) ==
  /\ DOMAIN a.env # {}
  /\ ~ has_complete_agent_proxy_env(a) /\ ~ clears_agent_proxy_env(a)

has_no_agent_proxy_env(a) ==
  /\ ~ has_complete_agent_proxy_env(a) /\ ~ has_incomplete_agent_proxy_env(a)
  /\ ~ clears_agent_proxy_env(a)

-----------------------------------------------------------------------------
(* doctor.rs: the errors of each check, as <<check, subject>>.             *)

check_readable_file(what, p) ==
  IF ~ Unset(p) /\ read_expanded(p) = "gone" THEN {<<what, p>>} ELSE {}

\* Key files of the proxy count although it is disabled.
check_secret_files ==
  (UNION {check_readable_file("agent api_key_file", a.api_key_file) \cup
          check_readable_file("agent reply_auth_token_file", a.reply_auth_token_file) :
            a \in Elems(config.agents)})
  \cup (UNION {check_readable_file("channel bot_token_file", c.token_file) :
            c \in {d \in Elems(config.channels) : d.enabled /\ d.kind = "telegram"}})
  \cup (UNION {check_readable_file("proxy", config.proxy.files[f]) :
            f \in {"api_key_file", "backend_api_key_file"}})
  \cup (UNION {check_readable_file("provider", p.api_key_file) :
            p \in Elems(config.proxy.providers)})

ProviderIds == {p.id : p \in Elems(config.proxy.providers)}

\* resolve_provider_key: the files as they are written; a blank one is no
\* key.
resolve_provider_api_key(p) ==
  \A f \in {p.api_key_file, p.model_api_key_file} \ {"none"} :
    read_literal(f) # "gone"

\* What the proxy's routing finds wrong, at its start and for the doctor.
build_provider_entries ==
  (UNION {(IF p.reserved THEN {"reserved field"} ELSE {})
          \cup (IF p.backend_type \in HttpTypes THEN {} ELSE {"backend_type"})
          \cup (IF Blank(p.url) THEN {"url"} ELSE {})
          \cup (IF resolve_provider_api_key(p) THEN {} ELSE {"provider key"}) :
            p \in Elems(config.proxy.providers)})
  \cup (IF config.routes \subseteq ProviderIds THEN {} ELSE {"unknown provider"})

check_model_gateway_config ==
  IF ~ config.proxy.enabled THEN {}
  ELSE IF build_provider_entries # {}
       THEN {<<"provider config", e>> : e \in build_provider_entries}
  ELSE IF config.selectors = "refused" THEN {<<"route graph", "selectors">>}
  ELSE {}

check_scanner_config ==
  {<<"scanner", p>> : p \in {q \in config.security.policies :
                               read_expanded(q) = "gone"}}

\* The profile asks for it unless scan_outbound says otherwise.
security_requires_agent_egress_proxy ==
  LET s == config.security
      default == s.profile \in {"hardened", "maximum", "paranoid"}
      scans == IF s.scan_outbound = "none" THEN default ELSE s.scan_outbound = "yes"
  IN  s.require_agent_egress_proxy \/ scans

Subprocesses == {a \in Elems(config.agents) : is_subprocess_agent(a)}

is_external_agent_daemon(a) ==
  is_http_agent(a) /\ ~ (config.proxy.enabled /\ a.endpoint = "self")

\* Mutant: agents with a part of the variables are not counted.
IncompletePasses(strict_subprocess, strict_external) ==
  (IF strict_subprocess
   THEN (IF Ambient /\ Subprocesses # {} THEN {<<"egress", "ambient">>} ELSE {})
        \cup {<<"egress", a.id>> : a \in {b \in Subprocesses :
                clears_agent_proxy_env(b) \/ has_no_agent_proxy_env(b)}}
   ELSE {})
  \cup (IF strict_external
        THEN {<<"external", a.id>> : a \in {b \in Elems(config.agents) :
                                             is_external_agent_daemon(b)}}
        ELSE {})

check_agent_proxy_coverage_with_strict(strict_subprocess, strict_external) ==
  (IF strict_subprocess
   THEN (IF Ambient /\ Subprocesses # {} THEN {<<"egress", "ambient">>} ELSE {})
        \cup {<<"egress", a.id>> : a \in {b \in Subprocesses :
                \/ clears_agent_proxy_env(b)
                \/ has_incomplete_agent_proxy_env(b)
                \/ has_no_agent_proxy_env(b)}}
   ELSE {})
  \cup (IF strict_external
        THEN {<<"external", a.id>> : a \in {b \in Elems(config.agents) :
                                             is_external_agent_daemon(b)}}
        ELSE {})

\* The commands without which an agent cannot run; the four CLIs have names
\* of their own.
subprocess_command_for_agent(a) ==
  IF a.kind \in CliKinds /\ Unset(a.command) THEN a.kind ELSE a.command

check_agent_runtime_dependencies(a) ==
  IF ~ is_subprocess_agent(a) THEN {}
  ELSE {<<"runtime", c>> : c \in ({subprocess_command_for_agent(a)}
                                  \cup (IF a.kind = "acpx" THEN {"acpx"} ELSE {}))
                                 \ OnPath}

\* Whether the doctor finds a token to send: a file that is blank is passed
\* over here.
resolve_agent_inbound_token(a) ==
  CASE Unset(a.api_key_file) -> ~ Unset(a.api_key) \/ ~ Unset(a.auth_token)
    [] read_expanded(a.api_key_file) = "gone" -> FALSE
    [] read_expanded(a.api_key_file) = "key" -> TRUE
    [] OTHER -> ~ Unset(a.api_key) \/ ~ Unset(a.auth_token)

\* The plugin has the same reply token and port, its own egress is proxied
\* if that is asked for, and it can run its model.
check_openclaw_channel_status(a, s, strict) ==
  /\ s.hash # "none" =>
       /\ s.hash = "same"
       /\ Unset(a.reply_auth_token_file) \/ read_expanded(a.reply_auth_token_file) = "key"
  /\ s.port /\ s.runtime
  /\ strict => s.egress

check_openclaw_channel_route(a, s, strict) ==
  IF \/ s.route \in {"absent", "down"}
     \/ s.route = "rejects" /\ resolve_agent_inbound_token(a)
     \/ s.route = "present" /\ ~ check_openclaw_channel_status(a, s, strict)
  THEN {<<"plugin", a.id>>} ELSE {}

\* A network check looks at every endpoint.
check_agent_wiring_with_strict(strict, no_network, down, s) ==
  UNION {check_agent_runtime_dependencies(a)
         \cup (IF no_network \/ ~ is_http_agent(a) THEN {}
               ELSE (IF a.kind = "openclaw-channel"
                     THEN check_openclaw_channel_route(a, s, strict) ELSE {})
                    \cup (IF a.id \in down THEN {<<"endpoint", a.id>>} ELSE {})) :
           a \in Elems(config.agents)}

\* The selections of before must still name something.
check_persisted_state ==
  {<<"active agent", a>> : a \in config.active_agents \ AgentIds}

\* calciforge doctor: the rules first, then the rest only of a valid file.
run_with_options ==
  /\ phase = "written" /\ report = NotYet
  /\ \E no_network \in BOOLEAN, override \in BOOLEAN, s \in Statuses,
        down \in SUBSET {a.id : a \in {b \in Elems(config.agents) : is_http_agent(b)}} :
       LET strict == security_requires_agent_egress_proxy
       IN  report' =
             IF ~ validate_config_file THEN {<<"config", "validation">>}
             ELSE check_secret_files \cup check_model_gateway_config
                  \cup check_scanner_config
                  \cup check_agent_proxy_coverage_with_strict(strict \/ override, strict)
                  \cup check_agent_wiring_with_strict(strict, no_network, down, s)
                  \cup check_persisted_state
  /\ seen' = disk
  /\ UNCHANGED <<config, disk, phase, tasks, cause, built>>

-----------------------------------------------------------------------------
(* main.rs: the start.                                                     *)

Halt(why) == phase' = "stopped" /\ cause' = why /\ UNCHANGED tasks

ChannelKinds == {"telegram", "matrix", "whatsapp", "signal", "sms", "mock"}
Enabled == {k \in ChannelKinds : \E c \in Elems(config.channels) : c.kind = k /\ c.enabled}

\* --proxy-only leaves the channels out, and the proxy too if it is disabled:
\* such a process ends at once, and well.
Wanted(proxy_only) ==
  (IF proxy_only THEN {} ELSE Enabled)
  \cup (IF config.proxy.enabled THEN {"proxy"} ELSE {})

\* The file is validated again; a persistent context is refused by a build
\* that has it, and ignored by one that has not; nothing to run is an error
\* unless only the proxy was asked for.
load_config_from ==
  /\ phase = "written"
  /\ \E proxy_only \in BOOLEAN :
     IF ~ validate_config_file THEN Halt(<<"config", "validation">>)
     ELSE IF config.persistent /\ "persistent-context" \in Features
          THEN Halt(<<"context", "persistent">>)
     ELSE IF Wanted(proxy_only) = {} /\ ~ proxy_only
          THEN Halt(<<"main", "nothing to do">>)
     ELSE /\ phase' = IF Wanted(proxy_only) = {} THEN "stopped" ELSE "starting"
          /\ tasks' = [t \in Wanted(proxy_only) |-> "waiting"]
          /\ UNCHANGED cause
  /\ UNCHANGED <<config, disk, report, seen, built>>

\* The first enabled channel of a kind is the one that runs.
ChannelOf(k) ==
  LET hits == {j \in DOMAIN config.channels :
                 config.channels[j].kind = k /\ config.channels[j].enabled}
  IN  config.channels[CHOOSE j \in hits : \A i \in hits : j <= i]

Lacks(field, x) == IF Unset(x) THEN {<<"missing", field>>} ELSE {}
Unreadable(field, p) ==
  IF ~ Unset(p) /\ read_expanded(p) = "gone" THEN {<<"unreadable", field>>} ELSE {}
Network == <<"outside", "network">>

run_telegram(c) == Lacks("bot_token_file", c.token_file)
                   \cup Unreadable("bot_token_file", c.token_file)

\* matrix_e2ee_startup_error: what require and experimental-sdk want of the
\* build and the room; whether the room is encrypted only the server knows.
matrix_e2ee_startup_error(c) ==
  IF ~ EncryptedOnly(c) THEN {}
  ELSE Lacks("room_id", c.room) \cup Lacks("store_path", c.store)
       \cup (IF "channel-matrix-e2ee" \in Features THEN {} ELSE {<<"build", "e2ee">>})

\* Users are trimmed here.
run_matrix(c) ==
  Lacks("homeserver", c.address) \cup Lacks("access_token_file", c.token_file)
  \cup (IF Blank(c.users) THEN {<<"blank", "allowed_users">>} ELSE {})
  \cup Unreadable("access_token_file", c.token_file)
  \cup matrix_e2ee_startup_error(c)

Legacy(c) == IF c.legacy THEN {<<"legacy", c.kind>>} ELSE {}
run_whatsapp(c) == Legacy(c) \cup Lacks("session_path", c.address)
run_signal(c) == Legacy(c) \cup Lacks("signal_cli_url", c.address)
                 \cup Lacks("signal_account", c.account)

\* A token file goes before the inline token, and a blank one is no token.
run_sms(c) ==
  Unreadable("sms_linq_api_token_file", c.token_file)
  \cup Unreadable("sms_linq_signing_secret_file", c.secret_file)
  \cup (IF IF Unset(c.token_file) THEN Blank(c.token)
           ELSE read_expanded(c.token_file) = "blank"
        THEN {<<"blank", "sms token">>} ELSE {})
  \cup Lacks("sms_from_phone", c.account)

\* resolve_api_key, resolve_proxy_agent_api_keys: no tilde is expanded.
resolve_api_key(f) ==
  LET p == config.proxy.files[f]
  IN  IF ~ Unset(p) /\ read_literal(p) = "gone" THEN {<<"unreadable", f>>} ELSE {}

validate_explicit_provider_selection ==
  IF \/ config.proxy.providers = << >> /\ config.proxy.backend_type = "mock"
     \/ config.proxy.backend_type \in HttpTypes /\ config.proxy.backend_url = "empty"
  THEN {<<"proxy", "no provider">>} ELSE {}

\* TelemetryFanout::from_config builds the sinks that are switched on.
from_config ==
  IF \E s \in Elems(config.proxy.sinks) :
       s.enabled /\ ~ (s.kind_known /\ s.endpoint_ok)
  THEN {<<"proxy", "sink">>} ELSE {}

start_proxy_server ==
  validate_explicit_provider_selection
  \cup (IF config.proxy.bind = "good" THEN {} ELSE {<<"proxy", "bind">>})
  \cup (UNION {resolve_api_key(f) : f \in KeyFields})
  \cup {<<"provider config", e>> : e \in build_provider_entries}
  \cup from_config

\* The futures of main, one per task: what each may fail with.
Failures(t) ==
  CASE t = "telegram" -> run_telegram(ChannelOf(t))
    [] t = "matrix" -> run_matrix(ChannelOf(t))
    [] t = "whatsapp" -> run_whatsapp(ChannelOf(t))
    [] t = "signal" -> run_signal(ChannelOf(t))
    [] t = "sms" -> run_sms(ChannelOf(t))
    [] t = "mock" -> {}
    [] t = "proxy" -> start_proxy_server

\* try_join: the first error ends every task, one that runs too.  A server
\* that is not there, a room that is not encrypted or a port that is taken
\* may always stop a task.
RunTask(t) ==
  /\ phase = "starting" /\ tasks[t] = "waiting"
  /\ \/ /\ Failures(t) = {}
        /\ tasks' = [tasks EXCEPT ![t] = "running"]
        /\ phase' = IF \A u \in DOMAIN tasks : tasks'[u] # "waiting" THEN "up" ELSE phase
        /\ UNCHANGED cause
     \/ \E e \in Failures(t) : Halt(e)
     \/ Failures(t) = {} /\ Halt(Network)
  /\ UNCHANGED <<config, disk, report, seen, built>>

\* Telegram's dispatcher ends well on ctrl-c, and the others go on; the end
\* of another listener is an error.
EndTask(t) ==
  /\ phase \in {"starting", "up"} /\ tasks[t] = "running"
  /\ \/ /\ t = "telegram"
        /\ tasks' = [tasks EXCEPT ![t] = "ended"]
        /\ phase' = IF \A u \in DOMAIN tasks : tasks'[u] = "ended" THEN "stopped" ELSE phase
        /\ UNCHANGED cause
     \/ t # "telegram" /\ Halt(Network)
  /\ UNCHANGED <<config, disk, report, seen, built>>

-----------------------------------------------------------------------------
(* build_adapter, for every message.                                       *)

\* The file, then the keys of the configuration; "gone" if there is a file
\* and it cannot be read.
resolve_agent_token(a) ==
  IF ~ Unset(a.api_key_file)
  THEN CASE read_expanded(a.api_key_file) = "gone" -> "gone"
         [] read_expanded(a.api_key_file) = "blank" -> "empty"
         [] OTHER -> "good"
  ELSE IF ~ Unset(a.api_key) THEN a.api_key
  ELSE IF ~ Unset(a.auth_token) THEN a.auth_token
  ELSE "empty"

resolve_optional_agent_token_file(a) ==
  IF ~ Unset(a.reply_auth_token_file)
  THEN CASE read_expanded(a.reply_auth_token_file) = "gone" -> "unreadable reply token"
         [] read_expanded(a.reply_auth_token_file) = "blank" -> "blank reply token"
         [] OTHER -> "ok"
  ELSE IF a.reply_auth_token \in {"empty", "spaces"} THEN "blank reply token" ELSE "ok"

\* Subprocess adapters are built without a look at anything.
build_adapter(a) ==
  IF ~ parse_agent_kind(a.kind) THEN "unknown kind"
  ELSE IF ~ is_http_agent(a) THEN "ok"
  ELSE IF a.kind \in {"openai-compat", "ironclaw", "hermes"} /\ a.endpoint = "empty"
       THEN "no endpoint"
  ELSE IF resolve_agent_token(a) = "gone" THEN "unreadable token"
  ELSE IF a.kind \in {"ironclaw", "hermes", "zeroclaw"} /\ resolve_agent_token(a) = "empty"
       THEN "blank token"
  ELSE IF a.kind = "openclaw-channel" THEN resolve_optional_agent_token_file(a)
  ELSE "ok"

\* A message of a channel goes to the agent that a rule names.
AdapterOf(id) ==
  IF id \notin AgentIds THEN "unknown agent"
  ELSE build_adapter(CHOOSE a \in Elems(config.agents) : a.id = id)

dispatch ==
  /\ phase = "up" /\ \E t \in DOMAIN tasks \ {"proxy"} : tasks[t] = "running"
  /\ \E r \in Elems(config.routing) :
       \E id \in {r.default_agent, r.btw_agent} \ {"none"} :
         built' = [b \in DOMAIN built \cup {id} |->
                     IF b = id THEN AdapterOf(id) ELSE built[b]]
  /\ UNCHANGED <<config, disk, phase, tasks, cause, report, seen>>

\* A key file is removed, or emptied; once, so that each is seen.
FileLost ==
  /\ disk = Contents /\ phase # "stopped"
  /\ \E p \in Paths, to \in {"blank", "gone"} :
       disk[p] = "key" /\ disk' = [disk EXCEPT ![p] = to]
  /\ UNCHANGED <<config, phase, tasks, cause, report, seen, built>>

ConfigNext ==
  \/ run_with_options \/ load_config_from
  \/ \E t \in DOMAIN tasks : RunTask(t) \/ EndTask(t)
  \/ dispatch \/ FileLost

ConfigSpec == ConfigInit /\ [][ConfigNext]_cvars

-----------------------------------------------------------------------------
(* What the checks promise                                                 *)

\* What the rules leave to the start: fields of Telegram and SMS, users of
\* spaces, routes and request fields of the proxy, and files.
StartOnly ==
  {<<"missing", "bot_token_file">>, <<"missing", "sms_from_phone">>,
   <<"blank", "sms token">>, <<"blank", "allowed_users">>,
   <<"provider config", "unknown provider">>, <<"provider config", "reserved field">>,
   <<"provider config", "provider key">>,
   <<"context", "persistent">>, <<"main", "nothing to do">>, Network}

\* Of those and the files, what the doctor does not look at.
NotLookedAt ==
  (StartOnly \ {e \in StartOnly : e[1] = "provider config"})
  \cup {<<"unreadable", f>> : f \in
          {"access_token_file", "sms_linq_api_token_file",
           "sms_linq_signing_secret_file", "secret_discovery_api_key_file",
           "secret_control_api_key_file", "agent"}}

Clean == report = {} /\ disk = seen

\* The proxy's own key file with a tilde: found by the doctor, not by the
\* proxy.
TildeOnly(e) ==
  /\ e \in {<<"unreadable", "api_key_file">>, <<"unreadable", "backend_api_key_file">>}
  /\ config.proxy.files[e[2]] \in UnderHome

\* A configuration that was accepted fails at the start only for what the
\* rules cannot see or are known to leave out, and a message never meets an
\* agent that does not exist, has an unknown kind or no endpoint.  After a
\* clean doctor, with the files as it saw them, only for what it does not
\* look at; agents fail only for a blank token
\* (validate_config, run_with_options, start_proxy_server, build_adapter).
ForetoldFailures ==
  /\ cause # NotYet /\ validate_config_file =>
       cause \in StartOnly \/ cause[1] = "unreadable"
  /\ cause # NotYet /\ Clean => cause \in NotLookedAt \/ TildeOnly(cause)
  /\ \A a \in DOMAIN built :
       /\ built[a] \notin {"unknown agent", "unknown kind", "no endpoint"}
       /\ phase = "up" /\ Clean =>
            built[a] \notin {"unreadable token", "unreadable reply token"}

\* The variables of a subprocess leave no way around the proxy by a spelling
\* that is empty or missing.
Covered(env) ==
  /\ \A pair \in {<<"HTTP_PROXY", "http_proxy">>, <<"HTTPS_PROXY", "https_proxy">>,
                  <<"ALL_PROXY", "all_proxy">>, <<"SSL_CERT_FILE", "CURL_CA_BUNDLE">>} :
       /\ \E j \in 1..2 : pair[j] \in DOMAIN env
       /\ \A j \in 1..2 : pair[j] \in DOMAIN env => ~ Blank(env[pair[j]])
  /\ "loopback" \in {env[k] : k \in DOMAIN env \cap {"NO_PROXY", "no_proxy"}}

\* Where the profile asks for proxied egress, a clean doctor means that every
\* agent that runs as a child is covered and that no agent runs out of the
\* doctor's sight (check_agent_proxy_coverage_with_strict).
StrictEgressHolds ==
  report = {} /\ security_requires_agent_egress_proxy =>
    \A a \in Elems(config.agents) :
      /\ is_subprocess_agent(a) => Covered(a.env)
      /\ ~ is_external_agent_daemon(a)
=============================================================================
