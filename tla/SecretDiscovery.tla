--------------------------- MODULE SecretDiscovery ---------------------------
(***************************************************************************)
(* Who is told the names of which secrets, and who may store one: the      *)
(* secret endpoints of the control API, the calciforge-secrets helper, the *)
(* MCP server, the !secret list and !secret set commands, and the fnox     *)
(* client below them all.                                                  *)
(*                                                                         *)
(* A session is an HTTP request, a run of the helper, a chat command or an *)
(* MCP server's process.  All but the chat commands are an agent's and     *)
(* have an identity.  The access policy is a file the operator edits while *)
(* sessions go on: a request or a run of the helper reads it once, an MCP  *)
(* server when it is started and never again.  fnox is awaited, so the     *)
(* file may change between the policy's reading and the names' listing.    *)
(*                                                                         *)
(* A rule's patterns are the identities and the names they match.  Wording *)
(* of answers is left out, and so are help texts and logging.  fnox is     *)
(* external: a call may fail, and a failed write may have taken effect.    *)
(***************************************************************************)
EXTENDS Naturals

CONSTANTS
  Session,    \* requests, runs of the helper, chat commands, MCP processes
  Calls,      \* what a session is started with; base is the helper's URL, if any
  Names,      \* secret names of the accepted shape
  Headers,    \* those of them that are words of fnox's table head
  BadName,    \* a name with another character in it
  Unknown,    \* the identity with no agent, no user and no channel
  Policies,   \* contents of the policy file: "gone", "broken" or "rules"
  KeySets,    \* the discovery and control keys: "unset", "blank" or "set"
  Attempts,   \* FNOX_ETXTBSY_ATTEMPTS
  Earlier     \* the writer of what fnox held before

ASSUME DiscoveryAssumption ==
  /\ Attempts \in Nat \ {0}
  /\ Headers \subseteq Names /\ BadName \notin Names
  /\ Earlier \notin Session
  /\ \A c \in Calls : c.base # "none" => c.via = "helper"
  /\ \A f \in Policies : f.state \in {"gone", "broken"} => f.rules = {}

VARIABLES
  file,      \* the access policy file
  keys,      \* the two configured keys
  fnox,      \* fnox: name -> who wrote its value, "none" if there is none
  dests,     \* the metadata file: name -> who set its destinations, or "none"
  stage,     \* session -> where it is
  call,      \* session -> what it was started with
  access,    \* session -> the rules it has read, if it could
  attempt,   \* session -> how often fnox was found busy
  told,      \* session -> the names its agent has been told
  since      \* session -> what the policy file has held since it began

env == <<file, keys>>
data == <<fnox, dests>>
own == <<call, access, attempt, told>>
discoveryVars == <<env, data, stage, own, since>>

DiscoveryInit ==
  /\ file \in Policies
  /\ keys \in KeySets
  /\ fnox = [n \in Names \cup {BadName} |-> IF n = BadName THEN "none" ELSE Earlier]
  /\ dests = [n \in Names |-> "none"]
  /\ stage = [s \in Session |-> "new"]
  /\ call \in [Session -> Calls]
  /\ access = [s \in Session |-> [ok |-> FALSE, rules |-> {}]]
  /\ attempt = [s \in Session |-> 0]
  /\ told = [s \in Session |-> {}]
  /\ since = [s \in Session |-> {}]

Goes(s, where) == stage' = [stage EXCEPT ![s] = where]

\* A call ends: an MCP server waits for the next one.
End(s, how) == Goes(s, IF call[s].via = "mcp" THEN "up" ELSE how)

Tell(s, names) ==
  /\ told' = [told EXCEPT ![s] = @ \cup names]
  /\ End(s, "answered")

-----------------------------------------------------------------------------
(* The access policy.                                                      *)

\* An unknown identity has the process's access as long as there are no
\* rules; a known one needs a rule.
allows(rules, id, n) ==
  IF id = Unknown
  THEN rules = {}
  ELSE \E r \in rules : id \in r.who /\ n \in r.secrets

filter_names(rules, id, names) == {n \in names : allows(rules, id, n)}

\* Mutant: a file that cannot be parsed counts as one that is not there.
load_access_policy_Open == [ok |-> TRUE, rules |-> file.rules]

\* No file is an empty policy; one that cannot be read or parsed is an error.
load_access_policy == [ok |-> file.state # "broken", rules |-> file.rules]

\* The session begins, reads the policy and goes on; the error ends it.
Reads(s, where) ==
  /\ access' = [access EXCEPT ![s] = load_access_policy]
  /\ Goes(s, IF load_access_policy.ok THEN where ELSE "refused")

is_valid_secret_name(n) == n \in Names

-----------------------------------------------------------------------------
(* Keys of the control API.                                                *)

\* A key that is not configured, or blank, opens nothing.
require_bearer(configured, s, key) ==
  configured = "set" /\ call[s].token = key

require_secret_discovery_api_key(s) == require_bearer(keys.discovery, s, "discovery")

require_control_api_key(s) == require_bearer(keys.control, s, "control")

-----------------------------------------------------------------------------
(* The client of fnox.                                                     *)

\* fnox's output has one name to a line, among head, borders and sentences;
\* a line whose first word is one of the head's is taken for the head.
parse_fnox_list_names ==
  {n \in DOMAIN fnox : fnox[n] # "none" /\ is_valid_secret_name(n)} \ Headers

\* The binary is being written: another try, up to a bound.
is_text_file_busy(s) ==
  /\ stage[s] \in {"listing", "setting"}
  /\ attempt[s] + 1 < Attempts
  /\ attempt' = [attempt EXCEPT ![s] = @ + 1]
  /\ UNCHANGED <<env, data, stage, call, access, told, since>>

\* Not installed, busy to the last, out of time, or a bad exit.
run_fails(s) ==
  /\ stage[s] = "listing"
  /\ End(s, "refused")
  /\ attempt' = [attempt EXCEPT ![s] = 0]
  /\ UNCHANGED <<env, data, call, access, told, since>>

\* fnox has listed, and the policy read before is applied to the names.  The
\* answer also has their destinations: without them there is none.
fnox_list(s) ==
  /\ stage[s] = "listing"
  /\ attempt' = [attempt EXCEPT ![s] = 0]
  /\ \/ Tell(s, IF call[s].via = "chat"
                THEN parse_fnox_list_names
                ELSE filter_names(access[s].rules, call[s].id, parse_fnox_list_names))
     \/ End(s, "refused") /\ UNCHANGED told
  /\ UNCHANGED <<env, data, call, access, since>>

Written(s) == fnox' = [fnox EXCEPT ![call[s].name] = s]

fnox_set(s) ==
  /\ stage[s] = "setting"
  /\ Written(s)
  /\ Goes(s, "answered")
  /\ UNCHANGED <<env, dests, own, since>>

\* A fnox that is out of time is killed, before or after it wrote.
fnox_set_fails(s) ==
  /\ stage[s] = "setting"
  /\ Written(s) \/ UNCHANGED fnox
  /\ Goes(s, "refused")
  /\ UNCHANGED <<env, dests, own, since>>

\* The caller goes away, and the fnox it was waiting for is killed.
caller_gone(s) ==
  /\ stage[s] \in {"listing", "setting"}
  /\ call[s].via # "mcp"
  /\ \/ UNCHANGED fnox
     \/ stage[s] = "setting" /\ Written(s)
  /\ Goes(s, "refused")
  /\ UNCHANGED <<env, dests, own, since>>

-----------------------------------------------------------------------------
(* The control API.                                                        *)

Handles(s, op) == stage[s] = "arrived" /\ call[s].op = op

secret_list(s) ==
  /\ Handles(s, "list")
  /\ IF require_secret_discovery_api_key(s)
     THEN Reads(s, "listing")
     ELSE Goes(s, "refused") /\ UNCHANGED access
  /\ UNCHANGED <<env, data, call, attempt, told, since>>

\* The name's shape is looked at, and the policy; whether there is such a
\* secret is not.
Refers(s, read) ==
  IF /\ is_valid_secret_name(call[s].name)
     /\ read.ok
     /\ allows(read.rules, call[s].id, call[s].name)
  THEN Tell(s, {call[s].name})
  ELSE End(s, "refused") /\ UNCHANGED told

secret_reference(s) ==
  /\ Handles(s, "ref")
  /\ IF require_secret_discovery_api_key(s)
     THEN Refers(s, load_access_policy)
     ELSE Goes(s, "refused") /\ UNCHANGED told
  /\ UNCHANGED <<env, data, call, access, attempt, since>>

\* Without its destinations the value is not stored.
DestinationsFail(s) == Goes(s, "refused")

\* A value that came with destinations is stored after them; without any the
\* ones on file stay.  The key, the name, the value or the destinations may not
\* be what they should.
secret_set(s) ==
  /\ Handles(s, "set")
  /\ \/ Goes(s, "refused") /\ UNCHANGED dests
     \/ /\ require_control_api_key(s) /\ is_valid_secret_name(call[s].name)
        /\ \/ ~call[s].dests /\ Goes(s, "setting") /\ UNCHANGED dests
           \/ /\ call[s].dests
              /\ dests' = [dests EXCEPT ![call[s].name] = s]
              /\ Goes(s, "setting")
           \/ call[s].dests /\ DestinationsFail(s) /\ UNCHANGED dests
  /\ UNCHANGED <<env, fnox, own, since>>

-----------------------------------------------------------------------------
(* The sessions begin.                                                     *)

Begins(s, via) ==
  /\ stage[s] = "new"
  /\ call[s].via = via
  /\ since' = [since EXCEPT ![s] = {file}]

http_request(s) ==
  /\ Begins(s, "http")
  /\ Goes(s, "arrived")
  /\ UNCHANGED <<env, data, own>>

\* A token goes out over https, or to the host itself.
validate_base_url(s) == call[s].base \in {"https", "loopback"}

\* With a base URL the helper asks the control API, which it gives its token
\* and its identity; a value is never sent there.
RemoteSecretsApi(s) ==
  /\ Begins(s, "helper")
  /\ call[s].base # "none"
  /\ Goes(s, IF /\ call[s].op # "set"
                /\ call[s].op = "ref" => is_valid_secret_name(call[s].name)
                /\ validate_base_url(s)
             THEN "arrived" ELSE "refused")
  /\ UNCHANGED <<env, data, own>>

LocalHelper(s, op) ==
  Begins(s, "helper") /\ call[s].base = "none" /\ call[s].op = op

helper_list(s) ==
  /\ LocalHelper(s, "list")
  /\ Reads(s, "listing")
  /\ UNCHANGED <<env, data, call, attempt, told>>

helper_reference(s) ==
  /\ LocalHelper(s, "ref")
  /\ Refers(s, load_access_policy)
  /\ UNCHANGED <<env, data, call, access, attempt>>

\* The helper stores under any name it is given, and no destinations.
helper_set(s) ==
  /\ LocalHelper(s, "set")
  /\ Goes(s, "setting")
  /\ UNCHANGED <<env, data, own>>

\* The operator's own listing is not filtered.
secure_list(s) ==
  /\ Begins(s, "chat") /\ call[s].op = "list"
  /\ Goes(s, "listing")
  /\ UNCHANGED <<env, data, own>>

secure_set(s) ==
  /\ Begins(s, "chat") /\ call[s].op = "set"
  /\ Goes(s, IF is_valid_secret_name(call[s].name) THEN "setting" ELSE "refused")
  /\ UNCHANGED <<env, data, own>>

\* CalciforgeMcp::new keeps the policy, or the error, for its lifetime.
CalciforgeMcp_new(s) ==
  /\ Begins(s, "mcp")
  /\ access' = [access EXCEPT ![s] = load_access_policy]
  /\ Goes(s, "up")
  /\ UNCHANGED <<env, data, call, attempt, told>>

list_secrets(s) ==
  /\ stage[s] = "up"
  /\ access[s].ok
  /\ Goes(s, "listing")
  /\ UNCHANGED <<env, data, own, since>>

mcp_secret_reference(s, n) ==
  /\ stage[s] = "up"
  /\ is_valid_secret_name(n) /\ access[s].ok /\ allows(access[s].rules, call[s].id, n)
  /\ Tell(s, {n})
  /\ UNCHANGED <<env, data, call, access, attempt, since>>

\* The agent closes the server's standard input.
waiting(s) ==
  /\ stage[s] \in {"up", "listing"} /\ call[s].via = "mcp"
  /\ Goes(s, "answered")
  /\ UNCHANGED <<env, data, own, since>>

\* The operator edits the file, or breaks it.
edit(f) ==
  /\ f # file
  /\ file' = f
  /\ since' = [s \in Session |->
                 IF stage[s] \in {"arrived", "up", "listing"} THEN since[s] \cup {f} ELSE since[s]]
  /\ UNCHANGED <<keys, data, stage, own>>

FnoxEnds(s) ==
  \/ is_text_file_busy(s) \/ run_fails(s) \/ fnox_list(s)
  \/ fnox_set(s) \/ fnox_set_fails(s) \/ caller_gone(s)

DiscoveryNext ==
  \/ \E s \in Session :
       \/ FnoxEnds(s)
       \/ http_request(s) \/ secret_list(s) \/ secret_reference(s) \/ secret_set(s)
       \/ RemoteSecretsApi(s) \/ helper_list(s) \/ helper_reference(s) \/ helper_set(s)
       \/ secure_list(s) \/ secure_set(s)
       \/ CalciforgeMcp_new(s) \/ list_secrets(s) \/ waiting(s)
       \/ \E n \in Names : mcp_secret_reference(s, n)
  \/ \E f \in Policies : edit(f)

DiscoverySpec == DiscoveryInit /\ [][DiscoveryNext]_discoveryVars

-----------------------------------------------------------------------------
(* Properties.                                                             *)

\* An agent is told a name only if a policy that was on file since its session
\* began lets its identity have it, however the file was edited, removed or
\* broken meanwhile; and over HTTP only with the discovery key.
NamesWerePermitted ==
  \A s \in Session :
    call[s].via # "chat" =>
      \A n \in told[s] :
        /\ \E f \in since[s] : f.state # "broken" /\ allows(f.rules, call[s].id, n)
        /\ call[s].via = "http" \/ call[s].base # "none" =>
             keys.discovery = "set" /\ call[s].token = "discovery"
=============================================================================
