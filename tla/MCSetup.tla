------------------------------- MODULE MCSetup -------------------------------
(* How an installation comes to be, for TLC: calciforge install (Installer), *)
(* a configuration file from its validation to the built adapter             *)
(* (Configuration), and the model names in it up to the models a request is  *)
(* sent to (ModelPlans).  They share no state; a behaviour moves one.        *)
EXTENDS Installer, Configuration, SetupPlans, FiniteSets, SequencesExt, TLC

CONSTANTS o1, o2, o3, z1, e1, c1, f1, f2, browser, worker, gw, odd

(* Two OpenClaw claws of one host, the second with policy, proxy and         *)
(* hardening; a ZeroClaw, an endpoint and a cli claw; and a spec without its *)
(* tokens.                                                                   *)
Basic == {"host", "endpoint"} \cup Tokens
MCOrders == {<<o1, o2>>, <<z1, e1>>, <<c1, o3>>}
MCAdapter == o1 :> "openclaw" @@ o2 :> "openclaw" @@ o3 :> "openclaw"
             @@ z1 :> "zeroclaw" @@ e1 :> "endpoint" @@ c1 :> "cli"
MCGiven == o1 :> Basic @@ o3 :> {"host", "endpoint"}
           @@ o2 :> Basic \cup {"policy_endpoint", "proxy_endpoint", "hardening"}
           @@ z1 :> {"host", "endpoint"} @@ e1 :> {"endpoint"} @@ c1 :> {"command"}
MCFileOf == o1 :> f1 @@ o2 :> f1 @@ o3 :> f1 @@ z1 :> f2 @@ e1 :> f2 @@ c1 :> f1
MCArgSets ==
  [dry_run : BOOLEAN, skip_backup : BOOLEAN, wizard : {FALSE},
   helper : {"none", "trusted", "untrusted"}]
  \cup {[dry_run |-> FALSE, skip_backup |-> FALSE, wizard |-> TRUE, helper |-> "none"]}
MCShape == browser :> "exec" @@ worker :> "env" @@ gw :> "gateway" @@ odd :> "skip"
SystemMode == f1 :> "system" @@ f2 :> "user"

-----------------------------------------------------------------------------
(* Names of models: two selectors over two models and an alias.             *)

T(m, w) == [model |-> m, window |-> w, weight |-> 1]
Sel(id, k, ts) == [id |-> id, kind |-> k, targets |-> ts, min |-> 0]
Targets == {T(m, w) : m \in {"x", "s2", "m1"}, w \in {1, 2}}
Firsts ==
  {Sel("s1", k, ts) : k \in {"round_robin", "cascade", "dispatcher"},
     ts \in {<<a>> : a \in Targets} \cup
            {<<a, b>> : a \in Targets, b \in {T("m1", 2), T("m2", 1)}}}
  \cup {Sel("s1", "cascade", <<T("s1", 2)>>)}
Seconds ==
  {Sel("s2", k, ts) : k \in {"weighted", "round_robin", "cascade", "dispatcher"},
     ts \in {<<T("m1", 1), T("m2", 2)>>, <<T("x", 2), T("m2", 1)>>,
             <<T("s1", 1), T("m1", 2)>>}}
  \cup {[Sel("s2", "weighted", <<T("m1", 1), T("m2", 2)>>) EXCEPT !.min = 2],
        Sel("s2", "weighted", <<[T("m1", 1) EXCEPT !.weight = 0], T("m2", 2)>>),
        Sel("s2", "cascade", <<T("m1", 0)>>), Sel("s1", "cascade", <<T("m1", 1)>>)}
Short(a, m) == [alias |-> a, model |-> m]
Shortcuts == {<<Short("x", "s1")>>, <<Short("x", "s2")>>, <<Short("x", "m1")>>,
              <<Short("x", "y"), Short("y", "x")>>, <<Short("x", "y"), Short("y", "s1")>>}
Provider(id, S) == [id |-> id, exact |-> SetToSeq(S), matches |-> S]
Plain == [shortcuts |-> << >>, selectors |-> << >>, local_models |-> << >>,
          providers |-> <<Provider("p", {"m1"}), Provider("q", {"m2"})>>,
          routes |-> << >>, accepts_unlisted |-> TRUE, known |-> {}]
Routed(p) == <<[exact |-> << >>, matches |-> {"m1", "m2"}, provider |-> p]>>
MCPlanConfigs ==
  {[Plain EXCEPT !.shortcuts = sh, !.selectors = ss] :
     sh \in Shortcuts,
     ss \in {<<a>> : a \in Firsts} \cup {<<a, b>> : a \in Firsts, b \in Seconds}}
  \cup {Plain, [Plain EXCEPT !.routes = Routed("q")], [Plain EXCEPT !.routes = Routed("none")],
        [Plain EXCEPT !.providers = <<Provider("p", {"m1"}), Provider("p", {"m2"})>>],
        [Plain EXCEPT !.accepts_unlisted = FALSE, !.known = {"s1"}],
        [Plain EXCEPT !.accepts_unlisted = FALSE],
        [Plain EXCEPT !.local_models = <<"x">>, !.shortcuts = <<Short("x", "m1")>>]}
MCNames == {"x", "y", "s1", "s2", "m1", "m2"}
MCNameOrder == [m \in MCNames |-> CASE m = "m1" -> 1 [] m = "m2" -> 2 [] m = "s1" -> 3
                               [] m = "s2" -> 4 [] m = "x" -> 5 [] m = "y" -> 6]
MCAgents == {[allowed |-> {}, blocked |-> {"m1"}], [allowed |-> {"s1"}, blocked |-> {}]}

-----------------------------------------------------------------------------
(* Configurations: a good one with one part changed at a time.              *)

Files4 == {"here", "home", "blank", "gone"}
NoEnv == [k \in {} |-> "set"]
Agent == [id |-> "a", kind |-> "cli", endpoint |-> "empty", model |-> "none",
          allow_model_override |-> FALSE, api_key |-> "none", auth_token |-> "none",
          api_key_file |-> "none", reply_auth_token |-> "none",
          reply_auth_token_file |-> "none", command |-> "tool", env |-> NoEnv,
          aliases |-> {}]
Channel == [kind |-> "mock", enabled |-> TRUE, legacy |-> FALSE, address |-> "good",
            account |-> "good", room |-> "none", store |-> "none", users |-> "good",
            token |-> "none", token_file |-> "here", secret_file |-> "none",
            e2ee |-> "off"]
Retry == [min |-> 1, max |-> 2, factor |-> 1]
Upstream == [id |-> "p", backend_type |-> "http", url |-> "good",
             strip_model_prefix |-> "none", retry |-> Retry, owner |-> "calciforge",
             api_key |-> "none", api_key_file |-> "here", model_api_key |-> "none",
             model_api_key_file |-> "none", reserved |-> FALSE]
Off == [enabled |-> FALSE, gateway_ui_url |-> "none", sinks |-> << >>, retry |-> Retry,
        bind |-> "good", timeout_seconds |-> 1, backend_type |-> "mock",
        backend_url |-> "good", providers |-> <<Upstream>>,
        files |-> [f \in {"api_key_file", "secret_discovery_api_key_file",
                          "secret_control_api_key_file", "backend_api_key_file",
                          "agent"} |-> "none"]]
On == [Off EXCEPT !.enabled = TRUE]
Secure == [profile |-> "balanced", scan_outbound |-> "none",
           require_agent_egress_proxy |-> FALSE, policies |-> {}]
Rule == [default_agent |-> "a", btw_agent |-> "none", allowed_agents |-> {}]
Good == [syntax |-> TRUE, identities |-> <<"i">>, agents |-> <<Agent>>,
         routing |-> <<Rule>>, channels |-> <<Channel>>, proxy |-> Off,
         security |-> Secure, persistent |-> FALSE, selectors |-> "good",
         routes |-> {}, models |-> {}, active_agents |-> {}]

Remote ==
  {[Agent EXCEPT !.kind = k, !.endpoint = "good", !.api_key = t, !.api_key_file = f] :
     k \in {"openclaw-channel", "hermes", "zeroclaw", "openai-compat"},
     t \in {"none", "empty", "good"}, f \in {"none"} \cup Files4}
  \cup {[Agent EXCEPT !.kind = "openclaw-channel", !.endpoint = "good",
                      !.reply_auth_token = t, !.reply_auth_token_file = f] :
          t \in {"none", "spaces"}, f \in {"none"} \cup Files4}
  \cup {[Agent EXCEPT !.kind = k, !.endpoint = e, !.auth_token = "good"] :
          k \in {"ironclaw", "zeroclaw", "zeroclaw-http", "openclaw-http"},
          e \in {"empty", "good"}}
  \cup {[Agent EXCEPT !.kind = "openai-compat", !.endpoint = "self", !.model = m,
                      !.allow_model_override = o] :
          m \in {"none", "openclaw", "other"}, o \in BOOLEAN}
Complete == [k \in {"HTTP_PROXY", "HTTPS_PROXY", "ALL_PROXY", "SSL_CERT_FILE",
                    "NO_PROXY"} |-> IF k = "NO_PROXY" THEN "loopback" ELSE "set"]
Envs == {NoEnv, Complete} \cup {[Complete EXCEPT ![k] = "empty"] : k \in DOMAIN Complete}
        \cup {[k \in DOMAIN Complete \ {l} |-> Complete[k]] : l \in DOMAIN Complete}
        \cup {Complete @@ ("http_proxy" :> v) : v \in {"spaces", "set"}}
        \cup {Complete @@ ("no_proxy" :> "other"), [Complete EXCEPT !["NO_PROXY"] = "other"]}
Local == {[Agent EXCEPT !.kind = k, !.command = c, !.env = e] :
            k \in {"cli", "codex-cli", "acpx"}, c \in {"none", "spaces", "tool", "ghost"},
            e \in {NoEnv, Complete}}
         \cup {[Agent EXCEPT !.env = e] : e \in Envs}
Securities ==
  {[Secure EXCEPT !.profile = p, !.scan_outbound = s, !.require_agent_egress_proxy = r] :
     p \in {"balanced", "hardened", "other"}, s \in {"none", "yes", "no"}, r \in BOOLEAN}
AgentConfigs ==
  {[Good EXCEPT !.agents = <<a>>] : a \in Remote}
  \cup {[Good EXCEPT !.agents = <<a>>, !.security = s] : a \in Local, s \in Securities}
  \cup {[Good EXCEPT !.agents = <<a, [Agent EXCEPT !.id = "b", !.aliases = l]>>,
                     !.routing = <<r>>, !.models = m] :
          a \in {Agent}, l \in {{}, {"a"}, {"x"}}, m \in {{}, {"x"}},
          r \in {[Rule EXCEPT !.default_agent = d, !.btw_agent = w, !.allowed_agents = s] :
                   d \in {"a", "c"}, w \in {"none", "b", "c"}, s \in {{}, {"a"}, {"a", "b"}}}}
  \cup {[Good EXCEPT !.agents = <<Agent, Agent>>], [Good EXCEPT !.identities = <<"i", "i">>],
        [Good EXCEPT !.active_agents = {"z"}], [Good EXCEPT !.syntax = FALSE],
        [Good EXCEPT !.persistent = TRUE], [Good EXCEPT !.channels = << >>],
        [Good EXCEPT !.security.policies = {"gone"}]}

ChannelChanges ==
  {[Channel EXCEPT !.enabled = e, !.kind = k, !.legacy = l, !.address = a, !.account = b,
                   !.token_file = f] :
     e \in BOOLEAN, k \in {"telegram", "whatsapp", "signal", "sms"}, l \in BOOLEAN,
     a \in {"none", "good"}, b \in {"none", "good"}, f \in {"none", "home", "blank", "gone"}}
  \cup {[Channel EXCEPT !.kind = "sms", !.token_file = f, !.token = t, !.secret_file = s] :
          f \in {"none", "here"}, t \in {"none", "spaces", "good"}, s \in {"none", "blank", "gone"}}
  \cup {[Channel EXCEPT !.kind = "matrix", !.users = u, !.token_file = f, !.room = r,
                        !.store = s, !.e2ee = m] :
          u \in {"none", "spaces", "good"}, f \in {"none", "home", "gone"},
          r \in {"none", "good"}, s \in {"none", "good"}, m \in {"off", "warn", "require"}}
ChannelConfigs == {[Good EXCEPT !.channels = <<c, Channel>>] : c \in ChannelChanges}

KeyFieldNames == DOMAIN Off.files
Sinks == {[enabled |-> e, timeout |-> t, kind_known |-> k, endpoint_ok |-> o] :
            e \in BOOLEAN, t \in BOOLEAN, k \in BOOLEAN, o \in BOOLEAN}
Upstreams ==
  {[Upstream EXCEPT !.owner = o, !.api_key = k, !.api_key_file = f, !.model_api_key_file = g] :
     o \in {"calciforge", "provider"}, k \in {"none", "spaces", "good"},
     f \in {"none", "home", "gone"}, g \in {"none", "blank", "gone", "here"}}
  \cup {[Upstream EXCEPT !.reserved = TRUE], [Upstream EXCEPT !.url = "spaces"],
        [Upstream EXCEPT !.backend_type = "exec"], [Upstream EXCEPT !.retry.min = 3],
        [Upstream EXCEPT !.strip_model_prefix = "empty"]}
ProxyChanges ==
  {[p EXCEPT !.files[f] = x] : p \in {On, Off}, f \in KeyFieldNames, x \in Files4}
  \cup {[p EXCEPT !.sinks = <<s>>] : p \in {On, Off}, s \in Sinks}
  \cup {[p EXCEPT !.providers = <<u>>] : p \in {On, Off}, u \in Upstreams}
  \cup {[On EXCEPT !.backend_type = t, !.backend_url = u, !.providers = ps] :
          t \in {"mock", "http", "grpc"}, u \in {"empty", "bad", "good"},
          ps \in {<< >>, <<Upstream>>}}
  \cup {[On EXCEPT !.bind = "bad"], [On EXCEPT !.timeout_seconds = 0],
        [On EXCEPT !.retry.factor = 0], [On EXCEPT !.gateway_ui_url = "bad"]}
ProxyConfigs ==
  {[Good EXCEPT !.proxy = p, !.channels = c] :
     p \in ProxyChanges, c \in {<< >>, <<[Channel EXCEPT !.kind = "telegram"]>>}}
  \cup {[Good EXCEPT !.proxy = On, !.selectors = s, !.routes = r] :
          s \in {"good", "refused"}, r \in {{}, {"p"}, {"q"}}}

MCConfigs == AgentConfigs \cup ChannelConfigs \cup ProxyConfigs
MCContents == "here" :> "key" @@ "home" :> "key" @@ "blank" :> "blank" @@ "gone" :> "gone"
Answered == [route |-> "present", hash |-> "same", port |-> TRUE, egress |-> TRUE,
             runtime |-> TRUE]
MCStatuses == {Answered, [Answered EXCEPT !.hash = "other"], [Answered EXCEPT !.port = FALSE],
               [Answered EXCEPT !.route = "rejects"], [Answered EXCEPT !.hash = "none"],
               [Answered EXCEPT !.route = "absent"], [Answered EXCEPT !.egress = FALSE]}

-----------------------------------------------------------------------------
VARIABLE part

\* The parts that do not move start in one state only.
InstallAtRest ==
  /\ order = <<o1, o2>>
  /\ conf = [f \in Files |-> Original]
  /\ args = [dry_run |-> TRUE, skip_backup |-> TRUE, wizard |-> FALSE, helper |-> "none"]

MCInit ==
  /\ ConfigInit
  /\ \/ part = "install" /\ config = Good /\ Init /\ pconfig = Plain
     \/ part = "plans" /\ config = Good /\ Init /\ InstallAtRest /\ pconfig \in MCPlanConfigs
     \/ part = "config" /\ Init /\ InstallAtRest /\ pconfig = Plain
  /\ Plans!PlansInit

MCNext ==
  /\ \/ part = "install" /\ Next /\ UNCHANGED <<planVars, cvars>>
     \/ part = "plans" /\ Plans!PlansNext /\ UNCHANGED <<vars, cvars>>
     \/ part = "config" /\ ConfigNext /\ UNCHANGED <<vars, planVars>>
  /\ UNCHANGED part

MCSpec == MCInit /\ [][MCNext]_<<vars, planVars, cvars, part>>
=============================================================================
