----------------------------- MODULE ModelPlans -----------------------------
(***************************************************************************)
(* Which models a gateway request is sent to (calciforge, model_names.rs,  *)
(* proxy/model_resolver.rs, providers/alloy.rs, proxy/routing.rs,          *)
(* proxy/auth.rs, and the checks of config/validator.rs and main.rs that   *)
(* come before).  A configuration is checked; the manager of alloys,       *)
(* cascades and dispatchers is built from it, or replaced by an empty one; *)
(* a request's model name is resolved through shortcut aliases, expanded   *)
(* through nested selectors to concrete models that the request fits, and  *)
(* each of those is routed to a provider.                                  *)
(*                                                                         *)
(* A name pattern is the set of the names it matches, and a request's      *)
(* estimated size a small number.  Weighted alloys draw one order for a    *)
(* request; round-robin alloys keep their index.                           *)
(***************************************************************************)
EXTENDS Naturals, Sequences, FiniteSets, SequencesExt

CONSTANTS
  Configs,   \* the configuration files: shortcuts, selectors, providers, ...
  Names,     \* every name a configuration or a request may use
  NameOrder,      \* name -> its place in the order of strings
  Sizes,     \* estimated sizes of requests
  Requested, \* names clients ask for
  Agents     \* agents: [allowed, blocked], sets of names

\* What is reached from a set over the pairs of R, in any number of steps.
Reached(R, from) ==
  LET Step(acc, k) == acc \cup {p[2] : p \in {q \in R : q[1] \in acc}}
  IN  FoldLeft(Step, from, [k \in 1..Cardinality(Names) |-> k])
After(R, n) == {p[2] : p \in {q \in R : q[1] = n}}
OnCycle(R, n) == n \in Reached(R, After(R, n))

VARIABLES
  config,
  phase,          \* "load", "start", "serve", "answered", "stopped"
  manager,        \* id -> selector, of the manager in use
  entries,        \* the provider entries, in priority order
  next_rr_index,  \* alloy id -> its round-robin index
  request,        \* the request: [model, size, agent]
  answer          \* the answer: [ok, calls or error]

NoRequest == [model |-> "none", size |-> 0, agent |-> [allowed |-> {},
                                                        blocked |-> {}]]
Empty == [n \in {} |-> 0]

PlansInit ==
  /\ config \in Configs
  /\ phase = "load"
  /\ manager = Empty /\ entries = << >> /\ next_rr_index = Empty
  /\ request = NoRequest /\ answer = [ok |-> FALSE, error |-> "none"]

-----------------------------------------------------------------------------
(* Names (model_names.rs).                                                 *)

resolve_model_alias_chain(from) ==
  LET Chain[m \in Names, seen \in SUBSET Names] ==
        LET hits == {k \in DOMAIN config.shortcuts : config.shortcuts[k].alias = m}
            first == CHOOSE k \in hits : \A j \in hits : k <= j
        IN  IF m \in seen THEN [ok |-> FALSE]
            ELSE IF hits = {} THEN [ok |-> TRUE, model |-> m]
            ELSE Chain[config.shortcuts[first].model, seen \cup {m}]
  IN  Chain[from, {}]

\* Selectors, local models, and the exact names of providers and routes.
configured_first_class_model_ids ==
  [k \in DOMAIN config.selectors |-> config.selectors[k].id]
  \o config.local_models
  \o FlattenSeq([k \in DOMAIN config.providers |-> config.providers[k].exact])
  \o FlattenSeq([k \in DOMAIN config.routes |-> config.routes[k].exact])

Distinct(s) == \A j, k \in DOMAIN s : s[j] = s[k] => j = k
Aliases == [k \in DOMAIN config.shortcuts |-> config.shortcuts[k].alias]

validate_no_duplicate_ids ==
  /\ Distinct(configured_first_class_model_ids)
  /\ Distinct(Aliases)
  /\ Range(Aliases) \cap Range(configured_first_class_model_ids) = {}
  /\ \A a \in Range(Aliases) : resolve_model_alias_chain(a).ok

-----------------------------------------------------------------------------
(* The configuration's selectors.  The validator looks at the sum of an     *)
(* alloy's weights, and at the windows of cascades and dispatchers; the     *)
(* manager at each weight and window, at an alloy's size and its minimum    *)
(* (0: not set), and at cycles.                                             *)

Windows(sel) == {sel.targets[k].window : k \in DOMAIN sel.targets}
Models(sel) == [k \in DOMAIN sel.targets |-> sel.targets[k].model]

validate_alloys(sel) ==
  sel.kind = "weighted" /\ sel.targets # << >> =>
    \E k \in DOMAIN sel.targets : sel.targets[k].weight > 0

validate_synthetic_model_groups(sel) ==
  sel.kind \in {"cascade", "dispatcher"} =>
    sel.targets # << >> /\ 0 \notin Windows(sel)

validate_config ==
  /\ phase = "load"
  /\ phase' = IF /\ validate_no_duplicate_ids
                 /\ \A k \in DOMAIN config.selectors :
                      /\ validate_alloys(config.selectors[k])
                      /\ validate_synthetic_model_groups(config.selectors[k])
              THEN "start" ELSE "stopped"
  /\ UNCHANGED <<config, manager, entries, next_rr_index, request, answer>>

IsAlloy(sel) == sel.kind \in {"weighted", "round_robin"}
Least(S) == CHOOSE n \in S : \A k \in S : n <= k

validate_constituent(t) == t.weight > 0 /\ t.window > 0
validate_synthetic_model(t) == t.window > 0

AlloyAccepted(sel) ==
  /\ Len(sel.targets) >= 2
  /\ \A k \in DOMAIN sel.targets :
       /\ validate_constituent(sel.targets[k])
       /\ sel.min = 0 \/ sel.targets[k].window >= sel.min

CascadeAccepted(sel) ==
  /\ sel.targets # << >>
  /\ \A k \in DOMAIN sel.targets : validate_synthetic_model(sel.targets[k])

DispatcherAccepted(sel) ==
  /\ sel.targets # << >>
  /\ \A k \in DOMAIN sel.targets : validate_synthetic_model(sel.targets[k])

from_config(sel) ==
  CASE IsAlloy(sel)            -> AlloyAccepted(sel)
    [] sel.kind = "cascade"    -> CascadeAccepted(sel)
    [] sel.kind = "dispatcher" -> DispatcherAccepted(sel)

min_context_window(sel) == IF sel.min = 0 THEN Least(Windows(sel)) ELSE sel.min

\* No selector reaches itself over the names of its targets; aliases are
\* not followed here.
validate_synthetic_selector_graph(sels) ==
  LET ids == {sels[k].id : k \in DOMAIN sels}
      refs == {p \in ids \X ids :
                 \E k \in DOMAIN sels :
                   sels[k].id = p[1] /\ p[2] \in Range(Models(sels[k]))}
  IN  \A n \in ids : ~ OnCycle(refs, n)

\* from_gateway_configs, and main.rs: without a manager the gateway gets an
\* empty one.
from_gateway_configs ==
  LET sels == config.selectors
  IN  IF /\ \A k \in DOMAIN sels : from_config(sels[k])
         /\ Distinct([k \in DOMAIN sels |-> sels[k].id])
         /\ validate_synthetic_selector_graph(sels)
      THEN [n \in {sels[k].id : k \in DOMAIN sels} |->
              sels[CHOOSE k \in DOMAIN sels : sels[k].id = n]]
      ELSE Empty

\* A provider's adapter is kept by its id: of two of one id the later one's
\* serves both.
GatewayOf(id) ==
  CHOOSE k \in DOMAIN config.providers :
    /\ config.providers[k].id = id
    /\ \A j \in DOMAIN config.providers : config.providers[j].id = id => j <= k

\* Routes first, then the providers that list models.
build_provider_entries ==
  LET listed == SelectSeq([k \in DOMAIN config.providers |-> k],
                          LAMBDA k : config.providers[k].matches # {})
  IN  [k \in DOMAIN config.routes |->
         [matches |-> config.routes[k].matches,
          gateway |-> GatewayOf(config.routes[k].provider)]]
      \o [k \in DOMAIN listed |->
            [matches |-> config.providers[listed[k]].matches,
             gateway |-> GatewayOf(config.providers[listed[k]].id)]]

KnownProviders ==
  \A k \in DOMAIN config.routes :
    \E j \in DOMAIN config.providers :
      config.providers[j].id = config.routes[k].provider

RoundRobins(mgr) == {n \in DOMAIN mgr : mgr[n].kind = "round_robin"}

\* The server starts unless a route names no provider.  Requests of before
\* may have moved the alloys' indices anywhere.
start_proxy_server ==
  /\ phase = "start"
  /\ \/ /\ KnownProviders
        /\ phase' = "serve"
        /\ manager' = from_gateway_configs
        /\ entries' = build_provider_entries
        /\ \E f \in [RoundRobins(from_gateway_configs) -> {0, 1}] :
             next_rr_index' = f
     \/ /\ ~ KnownProviders
        /\ phase' = "stopped"
        /\ UNCHANGED <<manager, entries, next_rr_index>>
  /\ UNCHANGED <<config, request, answer>>

-----------------------------------------------------------------------------
(* Plans.  A plan in the making is [ok, models, rr], or [ok, error, rr].   *)

IsSelector(m) == m \in DOMAIN manager
Plan(models, rr) == [ok |-> TRUE, models |-> models, rr |-> rr]
Err(e, rr) == [ok |-> FALSE, error |-> e, rr |-> rr]
Fitting(sel, size) == SelectSeq(sel.targets, LAMBDA t : t.window >= size)

\* Smaller windows first, then names in order.
Before(a, b) ==
  a.window < b.window \/ (a.window = b.window /\ NameOrder[a.model] < NameOrder[b.model])

round_robin_order(sel, at) ==
  LET n == Len(sel.targets)
  IN  [k \in 1..n |-> sel.targets[((at + k - 1) % n) + 1].model]

NamesOf(ts) == [k \in DOMAIN ts |-> ts[k].model]

\* Mutant: a request that does not fit is kept for the largest window.
KeepsTooSmall(m, size, rr, flip) ==
  Plan(NamesOf(manager[m].targets), rr)

\* The targets that the request fits, in the order they are configured.
CascadePlan(sel, size, rr) ==
  IF Fitting(sel, size) = << >> THEN Err("window", rr)
  ELSE Plan(NamesOf(Fitting(sel, size)), rr)

\* The smallest window that fits first.
DispatcherPlan(sel, size, rr) ==
  IF Fitting(sel, size) = << >> THEN Err("window", rr)
  ELSE Plan(NamesOf(SortSeq(Fitting(sel, size), Before)), rr)

\* All constituents, or none.
AlloyPlan(sel, size, rr, flip) ==
  IF size > min_context_window(sel) THEN Err("window", rr)
  ELSE IF sel.kind = "weighted"
       THEN Plan(IF flip THEN Reverse(Models(sel)) ELSE Models(sel), rr)
       ELSE Plan(round_robin_order(sel, rr[sel.id]),
                 [rr EXCEPT ![sel.id] = (@ + 1) % Len(sel.targets)])

\* One selector's own targets, in the order in which they are to be tried.
select_plan(m, size, rr, flip) ==
  CASE IsAlloy(manager[m]) -> AlloyPlan(manager[m], size, rr, flip)
    [] manager[m].kind = "cascade" -> CascadePlan(manager[m], size, rr)
    [] manager[m].kind = "dispatcher" -> DispatcherPlan(manager[m], size, rr)

\* What one target adds to the plan; an error ends it.
Added(acc, more) ==
  IF ~ acc.ok THEN acc
  ELSE IF ~ more.ok THEN more
  ELSE Plan(acc.models \o more.models, more.rr)

SelectorIds == DOMAIN manager
Indexes == [RoundRobins(manager) -> Nat]

select_plan_recursive(root, size, at, flip) ==
  LET Select[m \in SelectorIds, stack \in SUBSET SelectorIds, rr \in Indexes] ==
        LET plan == select_plan(m, size, rr, flip)
            Extend(acc, t) ==
              IF ~ acc.ok THEN acc
              ELSE Added(acc, IF IsSelector(t) THEN Select[t, stack \cup {m}, acc.rr]
                              ELSE Plan(<<t>>, acc.rr))
        IN  IF m \in stack THEN Err("cycle", rr)
            ELSE IF ~ plan.ok THEN plan
            ELSE FoldLeft(Extend, Plan(<< >>, plan.rr), plan.models)
  IN  Select[root, {}, at]

\* ModelResolver::expand_plan: the targets that are left may be aliases, of
\* selectors too.
expand_plan(root, size, start, flip) ==
  LET Expand[id \in Names, models \in Seq(Names), rr \in Indexes, stack \in SUBSET Names] ==
        LET Child(t, at) ==
              LET p == select_plan_recursive(t, size, at, flip)
              IN  IF p.ok THEN Expand[t, p.models, p.rr, stack \cup {id}] ELSE p
            Extend(acc, t) ==
              LET to == resolve_model_alias_chain(t)
              IN  IF ~ acc.ok THEN acc
                  ELSE IF ~ to.ok THEN Err("alias", acc.rr)
                  ELSE Added(acc, IF IsSelector(to.model) THEN Child(to.model, acc.rr)
                                  ELSE Plan(<<to.model>>, acc.rr))
        IN  IF id \in stack THEN Err("cycle", rr)
            ELSE FoldLeft(Extend, Plan(<< >>, rr), models)
  IN  Expand[root, start.models, start.rr, {}]

plan_for_model(m, size, rr, flip) ==
  LET root == resolve_model_alias_chain(m)
      plan == IF IsSelector(root.model)
              THEN select_plan_recursive(root.model, size, rr, flip)
              ELSE Plan(<<root.model>>, rr)
  IN  IF ~ root.ok THEN Err("alias", rr)
      ELSE IF ~ plan.ok THEN plan
      ELSE expand_plan(root.model, size, plan, flip)

-----------------------------------------------------------------------------
(* A request (handlers.rs, chat_completions).                              *)

\* Mutant: only the name that was asked for can be blocked.
BlocksByRoot(agent, asked, actual) ==
  /\ asked \notin agent.blocked
  /\ agent.allowed = {} \/ {asked, actual} \cap agent.allowed # {}

\* Blocked under either name is blocked; an empty list allows every model.
check_model_access_for_names(agent, asked, actual) ==
  /\ {asked, actual} \cap agent.blocked = {}
  /\ agent.allowed = {} \/ {asked, actual} \cap agent.allowed # {}

\* The first entry that matches; no entry: the default gateway, 0.
find_provider(m) ==
  LET hits == {k \in DOMAIN entries : m \in entries[k].matches}
  IN  IF hits = {} THEN 0 ELSE entries[Least(hits)].gateway

\* A provider, a backend that takes any name, a selector, or a known model.
is_valid_model(m) ==
  \/ find_provider(m) # 0
  \/ config.accepts_unlisted
  \/ IsSelector(m)
  \/ m \in config.known

\* The checks of chat_completions in order, up to the plan it follows.
Checked(r, root, plan) ==
  IF ~ root.ok THEN Err("alias", next_rr_index)
  ELSE IF ~ check_model_access_for_names(r.agent, r.model, root.model)
       THEN Err("access", next_rr_index)
  ELSE IF ~ is_valid_model(root.model) THEN Err("invalid", next_rr_index)
  ELSE IF plan.ok /\ \E m \in Range(plan.models) :
            ~ check_model_access_for_names(r.agent, root.model, m)
       THEN Err("access", plan.rr)
  ELSE plan

Outcome(r, flip) ==
  LET root == resolve_model_alias_chain(r.model)
  IN  Checked(r, root, plan_for_model(root.model, r.size, next_rr_index, flip))

\* The draws of the weighted alloys: in order, or the other way round.
Draws ==
  IF \E n \in DOMAIN manager : manager[n].kind = "weighted" THEN BOOLEAN
  ELSE {FALSE}

Call(m) == [model |-> m, gateway |-> find_provider(m)]

Answers(r, out) ==
  /\ request' = r
  /\ next_rr_index' = out.rr
  /\ answer' = IF ~ out.ok THEN [ok |-> FALSE, error |-> out.error]
               ELSE [ok |-> TRUE,
                     calls |-> [k \in DOMAIN out.models |-> Call(out.models[k])]]

chat_completions ==
  /\ phase = "serve"
  /\ \E m \in Requested, size \in Sizes, agent \in Agents, flip \in Draws :
       LET r == [model |-> m, size |-> size, agent |-> agent]
       IN  Answers(r, Outcome(r, flip))
  /\ phase' = "answered"
  /\ UNCHANGED <<config, manager, entries>>

PlansNext == validate_config \/ start_proxy_server \/ chat_completions

plansVars == <<config, phase, manager, entries, next_rr_index, request, answer>>
PlansSpec == PlansInit /\ [][PlansNext]_plansVars

-----------------------------------------------------------------------------
(* What the plan should be, without stacks or order: the closure of the     *)
(* relation "has a fitting target that stands for".                         *)

Stands(t) == resolve_model_alias_chain(t).model

Serves(size) ==
  {p \in (DOMAIN manager) \X Names :
     \E t \in Range(manager[p[1]].targets) :
       Stands(t.model) = p[2] /\ t.window >= size}

Stuck(m, size) ==
  /\ IsSelector(m)
  /\ \/ Fitting(manager[m], size) = << >>
     \/ IsAlloy(manager[m]) /\ size > min_context_window(manager[m])

\* An answered request was sent to exactly the models that its name stands
\* for and that it fits, in some order: nested selectors and aliases are
\* expanded to the end, nothing that was configured as a fallback is lost
\* and nothing too small is tried.  It is refused for its size only if some
\* selector on the way has nothing for it, and for a cycle only if there is
\* one (plan_for_model, select_plan_recursive, expand_plan).
PlanIsTheClosure ==
  phase = "answered" /\ (answer.ok \/ answer.error \in {"cycle", "window"}) =>
    LET root == Stands(request.model)
        serves == Serves(request.size)
        under == Reached(serves, {root})
        cyclic == \E n \in under : OnCycle(serves, n)
        stuck == \E n \in under : Stuck(n, request.size)
    IN  IF answer.ok
        THEN /\ ~ cyclic /\ ~ stuck
             /\ {answer.calls[k].model : k \in DOMAIN answer.calls}
                  = {n \in under : ~ IsSelector(n)}
        ELSE IF answer.error = "cycle" THEN cyclic ELSE stuck

\* Whatever name a request came in by, it is not sent to a model its agent
\* is blocked from (docs: blocked_models "applies to concrete downstream
\* models even when a request entered through an allowed dispatcher or
\* alias"), and to one outside its list only under a name on the list.
BlockedNeverCalled ==
  phase = "answered" /\ answer.ok =>
    \A k \in DOMAIN answer.calls :
      LET m == answer.calls[k].model
          asked == {request.model, Stands(request.model)}
      IN  /\ m \notin request.agent.blocked
          /\ asked \cap request.agent.blocked = {}
          /\ request.agent.allowed = {}
             \/ (asked \cup {m}) \cap request.agent.allowed # {}

=============================================================================
