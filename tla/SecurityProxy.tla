---------------------------- MODULE SecurityProxy ----------------------------
(***************************************************************************)
(* crates/security-proxy: a request of an agent on its way through the     *)
(* proxy.  References {{secret:NAME}} in its URL, headers and body are      *)
(* checked against the identity's access rules and the secret's            *)
(* destinations, then resolved, one await each; the outgoing body is        *)
(* inspected and scanned; credentials are injected; the answer is scanned.  *)
(* Meanwhile destinations and values of secrets are being rewritten.        *)
(* Two handlers take the same steps in a different order: the MITM handler  *)
(* of mitm.rs and `intercept` of proxy.rs.                                  *)
(***************************************************************************)
EXTENDS Scanner, FiniteSets

CONSTANTS
  Reqs, Hosts, Secrets, Agents,
  NoHost,           \* a URL whose host cannot be parsed
  NoAgent,          \* no identity header
  NoSnap,           \* the destination policies were not loaded yet
  Shapes,           \* the requests that agents send
  Rules,            \* secret access rules: [agents, secrets]
  StaticAllow,      \* secret_destination_allowlist: some secrets -> hosts
  SearchHosts, LlmHosts, BypassHosts,
  Mappings,         \* credential mappings: some hosts -> secret
  ForbidSearch, Preflight, ScanOutbound, ScanInbound, ScanResponseSecrets,
  InjectCredentials, CacheExpires, OverrideNeedsToken, VaultEnabled,
  BrowsingStrategy, SearchStrategy, \* "off", "strip" or "block"
  MaxWrites         \* bound: how often destinations are rewritten

VARIABLES
  pc,      \* where the handler of each request is
  shape,   \* what the request looks like
  snap,    \* the destination policies it loaded
  todo,    \* references of the current part still to be resolved
  held,    \* <<part, secret, value>> that were substituted
  got,     \* the credential it is about to cache and inject
  meta,    \* secret-metadata.json: destinations of each secret, {} for any
  store,   \* fnox: version of each secret's value, 0 if there is none
  writer,  \* writer[s]: "idle", or "policy" once the new policy is written
  writes,  \* how many policies were written
  cache,   \* credential cache: [value, fresh] by secret
  remote,  \* <<part, secret, value>> that a remote scanner was shown
  sent,    \* <<request, secret, host>> substituted and sent upstream
  window   \* history: pairs allowed at some moment since a request arrived

vars == <<pc, shape, snap, todo, held, got, meta, store, writer, writes, cache,
          remote, sent, window>>

Parts == {"url", "header", "body"}

Over == {"blocked", "answered", "failed"}

(* Values where a credential goes, by header or query parameter ("own": the *)
(* headers for the proxy itself); "scheme" is a reference after Bearer or   *)
(* the like, "mixed" has text of its own around one.                        *)
CredentialSet ==
  [where : {"header", "query", "own"}, value : {"reference", "scheme", "mixed", "plain"}]

ShapeSet ==
  [path : {"mitm", "intercept", "vault"}, agent : Agents \cup {NoAgent},
   host : Hosts \cup {NoHost},
   url : SUBSET Secrets, header : SUBSET Secrets, body : SUBSET Secrets,
   kind : {"none", "text", "json", "raw"},
   credentials : SUBSET CredentialSet,
   token : {"none", "wrong", "bare", "bad", "good"}, \* override or bearer token
   browse : {"none", "tool", "model"}, denied : BOOLEAN]

(* A rule's patterns stand for the names they match.                        *)
RuleSet == [agents : SUBSET Agents, secrets : SUBSET Secrets]

ASSUME ProxyAssumption ==
  /\ Shapes \subseteq ShapeSet
  /\ Rules \subseteq RuleSet
  /\ DOMAIN StaticAllow \subseteq Secrets
  /\ \A s \in DOMAIN StaticAllow : StaticAllow[s] \in SUBSET Hosts
  /\ DOMAIN Mappings \subseteq Hosts
  /\ \A h \in DOMAIN Mappings : Mappings[h] \in Secrets
  /\ NoHost \notin Hosts /\ NoAgent \notin Agents
  /\ NoSnap \notin [Secrets -> SUBSET Hosts]
  /\ MaxWrites \in Nat

-----------------------------------------------------------------------------
(* Policy                                                                  *)

(* Identities match a rule by agent; users and channels are matched the    *)
(* same way.  An unknown identity is served only where there are no rules. *)
allows(agent, s) ==
  IF agent = NoAgent THEN Rules = {}
  ELSE \E rule \in Rules :
         /\ rule.agents = {} \/ agent \in rule.agents
         /\ s \in rule.secrets

(* An administrator's list and the stored one must both agree.             *)
is_destination_allowed(s, h, m) ==
  /\ s \in DOMAIN StaticAllow => h \in StaticAllow[s]
  /\ m[s] = {} \/ h \in m[s]

(* Mutant: the gate looks at the identity only.                            *)
GateForgetsHost(q, s, m) == allows(q.agent, s)

ensure_secret_allowed_for_substitution(q, s, m) ==
  /\ allows(q.agent, s)
  /\ q.host # NoHost => is_destination_allowed(s, q.host, m)

AllowedPairs(m) ==
  {p \in Secrets \X Hosts : is_destination_allowed(p[1], p[2], m)}

manual_credential_override_status(token) ==
  /\ token \notin {"none", "wrong"}
  /\ OverrideNeedsToken => token = "good"

inspect_browsing_body(browse) ==
  IF BrowsingStrategy = "off" THEN "allow"
  ELSE IF browse = "model" THEN "block"
  ELSE IF browse = "tool" THEN BrowsingStrategy
  ELSE "allow"

(* A search answer that names a denied host in the link of a result, or    *)
(* only elsewhere in its text.  What is left of it, or "block".            *)
scan_search_response(found) ==
  IF SearchStrategy = "off" THEN found
  ELSE IF found = {} THEN {}
  ELSE IF SearchStrategy = "strip" /\ "link" \in found THEN found \ {"link"}
  ELSE {"block"}

-----------------------------------------------------------------------------
Init ==
  /\ pc = [r \in Reqs |-> "idle"]
  /\ shape \in [Reqs -> Shapes]
  /\ snap = [r \in Reqs |-> NoSnap]
  /\ todo = [r \in Reqs |-> {}]
  /\ held = [r \in Reqs |-> {}]
  /\ got = [r \in Reqs |-> 0]
  /\ meta = [s \in Secrets |-> {}]
  /\ store = [s \in Secrets |-> 0]
  /\ writer = [s \in Secrets |-> "idle"]
  /\ writes = 0
  /\ cache = [s \in Secrets |-> [value |-> 0, fresh |-> FALSE]]
  /\ remote = {}
  /\ sent = {}
  /\ window = [r \in Reqs |-> {}]

Goto(r, where) == pc' = [pc EXCEPT ![r] = where]

world == <<meta, store, writer, writes>>

(* What the credential check is shown: not the values that the proxy fills  *)
(* in as a whole, nor what is meant for the proxy.                          *)
header_value_is_proxy_managed_secret(v) == v \in {"reference", "scheme"}

build_credential_check_params(q) ==
  {c \in q.credentials :
     \/ c.where = "query" /\ c.value # "reference"
     \/ c.where = "header" /\ ~header_value_is_proxy_managed_secret(c.value)}

(* Before anything is substituted: a URL without a host may not hold        *)
(* references; the MITM handler also refuses plain credentials unless the   *)
(* request carries an override.                                             *)
RefusedByMitm(q) ==
  \/ q.host = NoHost /\ q.url # {}
  \/ build_credential_check_params(q) # {} /\ ~manual_credential_override_status(q.token)

RefusedByIntercept(q) == q.host = NoHost /\ q.url # {}

Arrive(r, where) ==
  /\ pc[r] = "idle"
  /\ window' = [window EXCEPT ![r] = AllowedPairs(meta)]
  /\ Goto(r, where)
  /\ UNCHANGED <<shape, snap, todo, held, got, world, cache, remote, sent>>

process_request(r) ==
  /\ shape[r].path = "mitm"
  /\ Arrive(r, IF RefusedByMitm(shape[r]) THEN "blocked" ELSE "url")

intercept(r) ==
  /\ shape[r].path = "intercept"
  /\ Arrive(r, IF RefusedByIntercept(shape[r]) THEN "blocked" ELSE "url")

vault_response(r) ==
  /\ shape[r].path = "vault"
  /\ Arrive(r, IF VaultEnabled /\ shape[r].token = "good" THEN "vault"
               ELSE "blocked")

(* Where the handler goes when a part is done.  The MITM handler refuses    *)
(* search engines before it looks at headers and body.                     *)
After(q, part) ==
  CASE part = "url" -> IF /\ q.path = "mitm" /\ ForbidSearch
                          /\ q.host \in SearchHosts
                       THEN "blocked" ELSE "header"
    [] part = "header" -> "body"
    [] part = "body" -> "policy"

Loaded(r) == IF snap[r] = NoSnap THEN meta ELSE snap[r]

(* The gate of resolve_and_substitute, before any value is read.  The       *)
(* destination policies are loaded once per request, when first needed.     *)
resolve_and_substitute(r) ==
  LET q == shape[r]
      part == pc[r]
      names == q[part]
  IN  /\ part \in Parts
      /\ todo[r] = {}
      /\ names # {}
      /\ ~(part = "body" /\ q.kind = "raw")
      /\ snap' = [snap EXCEPT ![r] = IF q.host = NoHost THEN @ ELSE Loaded(r)]
      /\ IF \A s \in names :
              ensure_secret_allowed_for_substitution(q, s, Loaded(r))
         THEN todo' = [todo EXCEPT ![r] = names] /\ UNCHANGED pc
         ELSE Goto(r, "blocked") /\ UNCHANGED todo
      /\ UNCHANGED <<shape, held, got, world, cache, remote, sent, window>>

(* A part without references is passed over; a body whose type cannot be    *)
(* substituted must not hold any.                                          *)
substitute_body(r) ==
  LET q == shape[r] IN
  /\ pc[r] \in Parts
  /\ todo[r] = {}
  /\ \/ q[pc[r]] = {} /\ Goto(r, After(q, pc[r]))
     \/ /\ q[pc[r]] # {} /\ pc[r] = "body" /\ q.kind = "raw"
        /\ Goto(r, "blocked")
  /\ UNCHANGED <<shape, snap, todo, held, got, world, cache, remote, sent,
                 window>>

(* One reference resolved, from the environment or from fnox.              *)
get_secret(r, s) ==
  /\ s \in todo[r]
  /\ store[s] # 0
  /\ held' = [held EXCEPT ![r] = @ \cup {<<pc[r], s, store[s]>>}]
  /\ todo' = [todo EXCEPT ![r] = @ \ {s}]
  /\ IF todo[r] = {s} THEN Goto(r, After(shape[r], pc[r])) ELSE UNCHANGED pc
  /\ UNCHANGED <<shape, snap, got, world, cache, remote, sent, window>>

(* The resolver has no value, the policies cannot be read, the body breaks  *)
(* off or the result is not a valid header: the request is refused.         *)
substitution_fails(r) ==
  /\ pc[r] \in Parts
  /\ Goto(r, "blocked")
  /\ todo' = [todo EXCEPT ![r] = {}]
  /\ UNCHANGED <<shape, snap, held, got, world, cache, remote, sent, window>>

(* Provider-side browsing, then URLs in the messages of a model request.   *)
Browsing(q) ==
  IF q.host \in LlmHosts /\ q.kind = "json" THEN inspect_browsing_body(q.browse)
  ELSE "allow"

preflight_message_urls(q) ==
  q.host \in LlmHosts /\ q.kind = "json" /\ Preflight /\ q.denied

PolicyOfMitm(q) == Browsing(q) = "block" \/ preflight_message_urls(q)

PolicyOfIntercept(q) ==
  \/ ForbidSearch /\ q.host \in SearchHosts
  \/ Browsing(q) = "block"
  \/ preflight_message_urls(q)

agent_web(r) ==
  LET q == shape[r] IN
  /\ pc[r] = "policy"
  /\ Goto(r, IF IF q.path = "mitm" THEN PolicyOfMitm(q) ELSE PolicyOfIntercept(q)
             THEN "blocked" ELSE "scan")
  /\ shape' = [shape EXCEPT ![r].browse = IF Browsing(q) = "strip" THEN "none" ELSE @]
  /\ UNCHANGED <<snap, todo, held, got, world, cache, remote, sent, window>>

(* Mutant: the body as it will be sent.                                    *)
RemoteSeesBody(r) == {x \in held[r] : x[1] = "body"}

(* What a remote scanner is shown of an outgoing body: the text before      *)
(* substitution where there is one, else the bytes themselves.              *)
remote_scan_body(r) ==
  IF shape[r].kind \in {"text", "json"} THEN {}
  ELSE {x \in held[r] : x[1] = "body"}

ScansOfMitm(q) == q.path = "mitm" /\ ScanOutbound /\ q.kind # "none"

ScansOfIntercept(q) == q.path = "intercept" /\ ScanOutbound /\ q.kind # "none"

scan_outbound(r) ==
  /\ pc[r] = "scan"
  /\ IF ScansOfMitm(shape[r]) \/ ScansOfIntercept(shape[r])
     THEN \E result \in ScanResults :
            /\ Goto(r, IF result.verdict = "unsafe" THEN "blocked" ELSE "inject")
            /\ remote' = IF result.asked
                         THEN remote \cup remote_scan_body(r) ELSE remote
     ELSE Goto(r, "inject") /\ UNCHANGED remote
  /\ UNCHANGED <<shape, snap, todo, held, got, world, cache, sent, window>>

(* Credential injection: the first mapping of the host, from the cache     *)
(* while it is fresh, else from the resolver.  `intercept` asks twice, and  *)
(* the second time finds what the first has cached.                        *)
InjectsOfMitm(q) ==
  /\ q.path = "mitm" /\ InjectCredentials
  /\ q.host \in DOMAIN Mappings \ BypassHosts

InjectsOfIntercept(q) ==
  /\ q.path = "intercept" /\ InjectCredentials
  /\ q.host \in DOMAIN Mappings \ BypassHosts

injections_for_host(r) ==
  /\ pc[r] = "inject"
  /\ IF ~(InjectsOfMitm(shape[r]) \/ InjectsOfIntercept(shape[r]))
     THEN Goto(r, "send") /\ UNCHANGED got
     ELSE LET s == Mappings[shape[r].host] IN
          IF cache[s].fresh THEN Goto(r, "send") /\ UNCHANGED got
          ELSE /\ Goto(r, "fetch")
               /\ got' = [got EXCEPT ![r] = store[s]]
  /\ UNCHANGED <<shape, snap, todo, held, world, cache, remote, sent, window>>

(* The resolver answers with what it read; if it found nothing a stale      *)
(* value is used as it is.                                                 *)
resolve_secret(r) ==
  LET s == Mappings[shape[r].host] IN
  /\ pc[r] = "fetch"
  /\ Goto(r, "send")
  /\ cache' = IF got[r] # 0
              THEN [cache EXCEPT ![s] = [value |-> got[r], fresh |-> TRUE]]
              ELSE cache
  /\ got' = [got EXCEPT ![r] = 0]
  /\ UNCHANGED <<shape, snap, todo, held, world, remote, sent, window>>

credential_expires(s) ==
  /\ CacheExpires
  /\ cache[s].fresh
  /\ cache' = [cache EXCEPT ![s].fresh = FALSE]
  /\ UNCHANGED <<pc, shape, snap, todo, held, got, world, remote, sent, window>>

(* The request goes out.  Nothing answers at a host that cannot be parsed.  *)
forward(r) ==
  LET q == shape[r] IN
  /\ pc[r] = "send"
  /\ IF q.host = NoHost THEN Goto(r, "failed") /\ UNCHANGED sent
     ELSE /\ Goto(r, "response")
          /\ sent' = sent \cup {<<r, x[2], q.host>> : x \in held[r]}
  /\ UNCHANGED <<shape, snap, todo, held, got, world, cache, remote, window>>

upstream_fails(r) ==
  /\ pc[r] = "response"
  /\ Goto(r, "failed")
  /\ UNCHANGED <<shape, snap, todo, held, got, world, cache, remote, sent,
                 window>>

(* The answer: search results are scanned and stripped whatever their type, *)
(* other text if its type can be scanned.  `answer` is what came back.      *)
AnswerSet ==
  [text : BOOLEAN, scannable : BOOLEAN, leak : BOOLEAN,
   found : SUBSET {"link", "text"}, scan : ScanResults]

SearchOfMitm(q, answer) ==
  /\ q.host \in SearchHosts
  /\ \/ ScanInbound /\ answer.text /\ answer.scan.verdict = "unsafe"
     \/ scan_search_response(answer.found) = {"block"}

ResponseOfMitm(q, answer) ==
  \/ SearchOfMitm(q, answer)
  \/ /\ ScanInbound /\ answer.scannable /\ answer.text
     /\ \/ ScanResponseSecrets /\ answer.leak
        \/ answer.scan.verdict = "unsafe"

SearchOfIntercept(q, answer) ==
  /\ q.host \in SearchHosts
  /\ \/ ScanInbound /\ answer.text /\ answer.scan.verdict = "unsafe"
     \/ scan_search_response(answer.found) = {"block"}

ResponseOfIntercept(q, answer) ==
  \/ SearchOfIntercept(q, answer)
  \/ /\ ScanInbound /\ answer.scannable /\ answer.text
     /\ answer.scan.verdict = "unsafe"

process_response(r) ==
  LET q == shape[r] IN
  /\ pc[r] = "response"
  /\ \E refused \in {IF q.path = "mitm" THEN ResponseOfMitm(q, answer)
                      ELSE ResponseOfIntercept(q, answer) : answer \in AnswerSet} :
       Goto(r, IF refused THEN "blocked" ELSE "answered")
  /\ UNCHANGED <<shape, snap, todo, held, got, world, cache, remote, sent,
                 window>>

(* GET /vault/NAME, for the holder of the proxy's own token.                *)
vault_json_response(r) ==
  /\ pc[r] = "vault"
  /\ \E s \in shape[r].url : Goto(r, IF store[s] # 0 THEN "answered" ELSE "blocked")
  /\ UNCHANGED <<shape, snap, todo, held, got, world, cache, remote, sent,
                 window>>

(* A paste: destinations first, then the value (see PasteServer).           *)
set_allowed_destinations(s) ==
  /\ writer[s] = "idle"
  /\ writes < MaxWrites
  /\ \E hosts \in SUBSET Hosts : meta' = [meta EXCEPT ![s] = hosts]
  /\ writer' = [writer EXCEPT ![s] = "policy"]
  /\ writes' = writes + 1
  /\ window' = [r \in Reqs |-> IF pc[r] = "idle" THEN {}
                               ELSE window[r] \cup AllowedPairs(meta')]
  /\ UNCHANGED <<pc, shape, snap, todo, held, got, store, cache, remote, sent>>

set(s) ==
  /\ writer[s] = "policy"
  /\ store' = [store EXCEPT ![s] = writes]
  /\ writer' = [writer EXCEPT ![s] = "idle"]
  /\ UNCHANGED <<pc, shape, snap, todo, held, got, meta, writes, cache, remote,
                 sent, window>>

Next ==
  \/ \E r \in Reqs :
       \/ process_request(r) \/ intercept(r) \/ vault_response(r)
       \/ resolve_and_substitute(r) \/ substitute_body(r)
       \/ substitution_fails(r) \/ agent_web(r) \/ scan_outbound(r)
       \/ injections_for_host(r) \/ resolve_secret(r) \/ forward(r)
       \/ upstream_fails(r) \/ process_response(r) \/ vault_json_response(r)
       \/ \E s \in Secrets : get_secret(r, s)
  \/ \E s \in Secrets :
       set_allowed_destinations(s) \/ set(s) \/ credential_expires(s)

Spec == Init /\ [][Next]_vars

-----------------------------------------------------------------------------
(* The proxy keeps its promise about secrets: whatever a request carries    *)
(* upstream its identity may use and was allowed at its host at some moment *)
(* since it arrived, from either handler, in URL, header or body, while     *)
(* pastes rewrite policies between the gate and the resolver (the gate of   *)
(* resolve_and_substitute).                                                 *)
SR == INSTANCE SecretRelease WITH
        may <- {x \in Reqs \X Secrets : allows(shape[x[1]].agent, x[2])},
        policy <- AllowedPairs(meta), window <- window, released <- sent

Releases == SR!Spec

(* A remote scanner is never shown a substituted value: it is given the     *)
(* body as it was before substitution, and a body that cannot be            *)
(* substituted may not hold a reference (remote_scan_body).                 *)
RemoteSeesNoSecrets == remote = {}
=============================================================================
