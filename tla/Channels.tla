------------------------------ MODULE Channels ------------------------------
(***************************************************************************)
(* The message handlers of the chat channels (calciforge,                  *)
(* channels/{telegram,matrix,whatsapp,signal,sms,mock}.rs) with the        *)
(* command handler behind them (commands.rs) and the router in front of    *)
(* the agents (router.rs).  Each message is handled by a task of its own.  *)
(*                                                                         *)
(* A handler resolves the sender to an identity, scans the text where the  *)
(* channel does so, turns an answer to the last list of choices into the   *)
(* command it stands for, answers commands itself, and hands anything else *)
(* to the identity's agent.  The last list of choices of an identity is    *)
(* shared by all its chats, and is replaced not only by the handler but    *)
(* also when !sessions is answered and when an agent asks for an approval. *)
(*                                                                         *)
(* What !switch, !model and !new select is in ActiveSelections, the        *)
(* conversation context in ChatDispatch, the pages behind !secret input in *)
(* PasteServer; approvals are PendingApprovals, with the messages as its   *)
(* commands.                                                               *)
(***************************************************************************)
EXTENDS PendingApprovals, Sequences, FiniteSetsExt

CONSTANTS
  Message,        \* 1..n, in the order they arrive
  Identity,       \* configured identities
  Routed,         \* those with a routing rule
  Agent,          \* configured agents
  AllowedAgents,  \* routed identity -> the agents its rule allows; {} is all
  BtwAgent,       \* routed identity -> its rule's btw_agent, or NoId
  Listable,       \* the agents that can list their sessions
  Models,         \* the models that can be activated: shortcuts, selectors, ...
  AllowedUser,    \* senders on the Matrix channel's allowed_users list
  Inbound,        \* bound: the messages sent, [kind, sender, text]
  ScansMessages,  \* kinds of channel with scan_messages
  AllowsSecrets,  \* kinds of channel with allow_chat_secret_set
  RichUi,         \* kinds of channel with buttons
  NoOne           \* no identity

ASSUME ChannelsAssumption ==
  /\ Command = Message /\ Message \subseteq Nat
  /\ Routed \subseteq Identity
  /\ AllowedAgents \in [Routed -> SUBSET Agent]
  /\ BtwAgent \in [Routed -> Agent \cup {NoId}]
  /\ Agent \cap (Id \cup {NoId}) = {}
  /\ NoOne \notin Identity
  /\ Inbound # {}
  /\ \A x \in Inbound : x.text \in [word : STRING, id : Id \cup Agent \cup {NoId}]

VARIABLES
  at,       \* message -> its task's position
  input,    \* message -> [kind, sender, text]
  who,      \* message -> the identity its sender was resolved to
  goal,     \* message -> the text acted on, once choices are resolved
  choices,  \* CommandHandler.pending_choices: identity -> its last list
  turn,     \* history: identity -> texts handled that were no ambiguous answer
  acted,    \* history: [list, by, late] of every answer acted on
  heard,    \* history: what agents were given, [kind, who, agent, text]
  asked     \* history: request id -> the identity whose message raised it

handlerVars == <<at, input, who, goal, choices, turn, acted, heard, asked>>
vars == <<approvalVars, handlerVars>>

-----------------------------------------------------------------------------
(* Texts.  A command is a word and the request or agent it names; anything *)
(* else is a word that some label may resemble.                            *)

Say(word) == [word |-> word, id |-> NoId]

ListRequest == {"!agents", "!model"}
LocalWord   == {"!ping", "!switch"}      \* is_simple_local_command, and selections
StatusWord  == {"!status", "!gateway"}
KnownWord   == ListRequest \cup LocalWord \cup StatusWord \cup
               {"!sessions", "!btw", "!secret", "!secret set", "!context clear",
                "!approve", "!deny"}

\* is_known_channel_command, is_unknown_channel_command
is_command(t) == t.word \in KnownWord \cup {"!unknown"}

\* The number a reply is, or 0.
NumberOf(w) == CASE w = "1" -> 1 [] w = "2" -> 2 [] w = "9" -> 9 [] OTHER -> 0

Exactly(w, label)  == w = label
StartOf(w, label)  == w = "Mo" /\ label \in {"Model A", "Model B"}
Within(w, label)   == w = "ny" /\ label = "Deny"

\* The options of a list: what they are called, and the command they stand for.
Options(list) ==
  CASE list.kind = "approval" ->
         <<[label |-> "Approve", text |-> [word |-> "!approve", id |-> list.id]],
           [label |-> "Deny",    text |-> [word |-> "!deny",    id |-> list.id]]>>
    [] list.kind = "!sessions" ->
         <<[label |-> "main", text |-> Say("!switch")]>>
    [] OTHER ->
         <<[label |-> "Model A", text |-> Say("!switch")],
           [label |-> "Model B", text |-> Say("!switch")]>>

\* By number; else by the whole label, by its start, or by a part of it, the
\* first of these that any option satisfies.  One option's text, or none.
match_reply(list, t) ==
  LET options == Options(list)
      n       == NumberOf(t.word)
      One(k)  == [how |-> "one", text |-> options[k].text]
      Not(why) == [how |-> why, text |-> t]
      By(Like(_, _)) == {k \in DOMAIN options : Like(t.word, options[k].label)}
      tiers   == <<By(Exactly), By(StartOf), By(Within)>>
      hit     == {i \in 1 .. 3 : tiers[i] # {}}
  IN  IF n > 0
      THEN IF n <= Len(options) THEN One(n) ELSE Not("out of range")
      ELSE IF hit = {} THEN Not("none")
      ELSE LET tier == tiers[Min(hit)]
           IN  IF Cardinality(tier) = 1 THEN One(CHOOSE k \in tier : TRUE)
               ELSE Not("ambiguous")

NoList == [kind |-> "none", id |-> NoId, fresh |-> FALSE, turn |-> 0]

List(kind, id, i) == [kind |-> kind, id |-> id, fresh |-> TRUE, turn |-> turn[i]]

\* record_pending_choices: the list replaces the one before it.
record_pending_choices(i, kind, id) ==
  choices' = [choices EXCEPT ![i] = List(kind, id, i)]

-----------------------------------------------------------------------------
(* A message arrives.                                                      *)

Init ==
  /\ ApprovalsInit
  /\ at = [m \in Message |-> "new"]
  /\ input = [m \in Message |-> CHOOSE x \in Inbound : TRUE]
  /\ who = [m \in Message |-> NoOne]
  /\ goal = [m \in Message |-> Say("")]
  /\ choices = [i \in Identity \cup AllowedUser |-> NoList]
  /\ turn = [i \in Identity \cup AllowedUser |-> 0]
  /\ acted = {} /\ heard = {}
  /\ asked = [id \in Id |-> NoOne]

resolve_channel_sender(sender) == IF sender \in Identity THEN sender ELSE NoOne

Receive(m, kind, identity, scans) ==
  /\ at[m] = "new"
  /\ \A n \in Message : n < m => at[n] # "new"
  /\ \E x \in {x \in Inbound : x.kind = kind} :
       /\ input' = [input EXCEPT ![m] = x]
       /\ who' = [who EXCEPT ![m] = identity[x.sender]]
       /\ goal' = [goal EXCEPT ![m] = x.text]
       /\ at' = [at EXCEPT ![m] = IF identity[x.sender] = NoOne THEN "dropped"
                                  ELSE IF scans THEN "scanning" ELSE "admitted"]
  /\ UNCHANGED <<approvalVars, choices, turn, acted, heard, asked>>

Sender == {x.sender : x \in Inbound}
ByAlias == [s \in Sender |-> resolve_channel_sender(s)]

\* Telegram and the mock channel do not scan, whatever scan_messages says.
telegram_message(m) == Receive(m, "telegram", ByAlias, FALSE)
mock_message(m)     == Receive(m, "mock", ByAlias, FALSE)

\* Nor does Matrix.  A sender on allowed_users who is no identity goes by
\* the Matrix name.
matrix_message(m) ==
  Receive(m, "matrix",
          [s \in Sender |-> IF s \notin AllowedUser THEN NoOne
                            ELSE IF ByAlias[s] # NoOne THEN ByAlias[s] ELSE s],
          FALSE)

whatsapp_message(m) == Receive(m, "whatsapp", ByAlias, "whatsapp" \in ScansMessages)
signal_message(m)   == Receive(m, "signal", ByAlias, "signal" \in ScansMessages)
sms_message(m)      == Receive(m, "sms", ByAlias, "sms" \in ScansMessages)

\* Unsafe is answered and goes no further; Review and Clean go on.
inbound_scan_block_reply(m) ==
  /\ at[m] = "scanning"
  /\ \E end \in {"blocked", "admitted"} : at' = [at EXCEPT ![m] = end]
  /\ UNCHANGED <<approvalVars, input, who, goal, choices, turn, acted, heard, asked>>

-----------------------------------------------------------------------------
(* The answer to the last list.                                            *)

Answer(m) ==
  LET list == choices[who[m]]
  IN  IF list.fresh THEN match_reply(list, goal[m])
                    ELSE [how |-> "none", text |-> goal[m]]

\* Mutant: what is no answer leaves the list to be answered later.
KeepsList(m) ==
  LET i == who[m]  how == Answer(m).how
  IN  /\ at[m] = "admitted"
      /\ choices' = IF how = "one" THEN [choices EXCEPT ![i] = NoList] ELSE choices
      /\ turn' = IF how = "ambiguous" THEN turn ELSE [turn EXCEPT ![i] = @ + 1]
      /\ acted' = IF how # "one" THEN acted
                  ELSE acted \cup {[list |-> choices[i], by |-> m,
                                    late |-> turn[i] - choices[i].turn]}
      /\ goal' = [goal EXCEPT ![m] = Answer(m).text]
      /\ at' = [at EXCEPT ![m] = IF how \in {"ambiguous", "out of range"}
                                 THEN "done" ELSE "routing"]
      /\ UNCHANGED <<approvalVars, input, who, heard, asked>>

\* A list is gone once it was answered, or something else was said; an
\* ambiguous answer leaves it.
resolve_pending_choice_reply(m) ==
  LET i == who[m]  how == Answer(m).how
  IN  /\ at[m] = "admitted"
      /\ choices' = IF how = "ambiguous" THEN choices ELSE [choices EXCEPT ![i] = NoList]
      /\ turn' = IF how = "ambiguous" THEN turn ELSE [turn EXCEPT ![i] = @ + 1]
      /\ acted' = IF how # "one" THEN acted
                  ELSE acted \cup {[list |-> choices[i], by |-> m,
                                    late |-> turn[i] - choices[i].turn]}
      /\ goal' = [goal EXCEPT ![m] = Answer(m).text]
      /\ at' = [at EXCEPT ![m] = IF how \in {"ambiguous", "out of range"}
                                 THEN "done" ELSE "routing"]
      /\ UNCHANGED <<approvalVars, input, who, heard, asked>>

\* PENDING_CHOICE_TTL passes.
choice_expires(i) ==
  /\ choices[i].fresh
  /\ choices' = [choices EXCEPT ![i].fresh = FALSE]
  /\ UNCHANGED <<approvalVars, at, input, who, goal, turn, acted, heard, asked>>

-----------------------------------------------------------------------------
(* Commands.                                                               *)

Goes(m, words) == at[m] = "routing" /\ goal[m].word \in words
To(m, position) == at' = [at EXCEPT ![m] = position]

\* The agents an identity may use.
allowed_agents(i) ==
  CASE i \notin Routed -> {}
    [] i \in Routed -> IF AllowedAgents[i] = {} THEN Agent ELSE AllowedAgents[i]

\* Without a routing rule there are no agents to choose from, and no list; a
\* list without options is not recorded either.
has_choices(m) ==
  IF goal[m].word = "!agents" THEN allowed_agents(who[m]) # {} ELSE Models # {}

\* !agents and !model: the list is recorded, then sent.
offer_choices(m) ==
  /\ Goes(m, ListRequest)
  /\ To(m, "done")
  /\ IF has_choices(m) THEN record_pending_choices(who[m], goal[m].word, NoId)
                       ELSE UNCHANGED choices
  /\ UNCHANGED <<approvalVars, input, who, goal, turn, acted, heard, asked>>

\* What is answered on the spot: local and unknown commands, the selections,
\* !context clear.
answer_command(m) ==
  /\ Goes(m, LocalWord \cup {"!context clear", "!unknown"})
  /\ To(m, "done")
  /\ UNCHANGED <<approvalVars, input, who, goal, choices, turn, acted, heard, asked>>

\* !status and !gateway, only after the sender was resolved; the agent may be
\* asked what it runs on.
cmd_status_for_identity(m) ==
  /\ Goes(m, StatusWord)
  /\ To(m, "done")
  /\ UNCHANGED <<approvalVars, input, who, goal, choices, turn, acted, heard, asked>>

\* !sessions of an agent the identity may use, if that agent lists them; the
\* list is recorded when the answer is there.
handle_sessions(m) ==
  /\ Goes(m, {"!sessions"})
  /\ To(m, IF goal[m].id \in allowed_agents(who[m]) \cap Listable
           THEN "listing" ELSE "done")
  /\ UNCHANGED <<approvalVars, input, who, goal, choices, turn, acted, heard, asked>>

\* Sessions whose names can be attached to are offered.
active_sessions_message(i) ==
  \/ record_pending_choices(i, "!sessions", NoId)
  \/ UNCHANGED choices

\* The agent's sessions are listed, or that fails.
sessions_listed(m) ==
  /\ at[m] = "listing"
  /\ To(m, "done")
  /\ active_sessions_message(who[m]) \/ UNCHANGED choices
  /\ UNCHANGED <<approvalVars, input, who, goal, turn, acted, heard, asked>>

\* An agent is given the text: the active one (NoId), or the one named.
Hears(m, agent) ==
  heard' = heard \cup {[kind |-> input[m].kind, who |-> who[m], agent |-> agent,
                        text |-> input[m].text]}

\* Mutant: where it is not allowed, !secret set is no command.
RefusedIsChat(m) ==
  /\ Goes(m, {"!secret", "!secret set"})
  /\ IF goal[m].word = "!secret set" /\ input[m].kind \notin AllowsSecrets
     THEN To(m, "asking") /\ Hears(m, NoId)
     ELSE To(m, "stored") /\ UNCHANGED heard
  /\ UNCHANGED <<approvalVars, input, who, goal, choices, turn, acted, asked>>

\* !secret input and !secret set, which is refused unless the channel opted in.
handle_secure(m) ==
  /\ Goes(m, {"!secret", "!secret set"})
  /\ To(m, CASE goal[m].word = "!secret" -> "linking"
             [] goal[m].word = "!secret set" ->
                  IF input[m].kind \in AllowsSecrets THEN "stored" ELSE "refused")
  /\ UNCHANGED <<approvalVars, input, who, goal, choices, turn, acted, heard, asked>>

\* A paste-server is started (PasteServer) and has 3 s to say where it is.
secure_input(m) ==
  /\ at[m] = "linking"
  /\ To(m, "done")
  /\ UNCHANGED <<approvalVars, input, who, goal, choices, turn, acted, heard, asked>>

\* !approve and !deny run in a task of their own.
handle_async(m) ==
  /\ Goes(m, {"!approve", "!deny"})
  /\ resolve(m, IF goal[m].word = "!approve" THEN "approve" ELSE "deny", goal[m].id)
  /\ To(m, IF pc'[m] = "refused" THEN "done" ELSE "deciding")
  /\ UNCHANGED <<input, who, goal, choices, turn, acted, heard, asked>>

\* The buttons sent on Telegram so far: of approval requests, and of lists.
choice_keyboard ==
  {[word |-> w, id |-> id] : w \in {"!approve", "!deny"},
     id \in {id \in raised : \E x \in heard : x.kind = "telegram" /\ asked[id] = x.who}}
  \cup {Say("!switch") : m \in {m \in Message : /\ at[m] = "done"
                                               /\ input[m].kind = "telegram"
                                               /\ goal[m].word \in ListRequest}}

\* The commands that a button's data stands for.
parse_callback_action == {"!approve", "!deny", "!switch"}

\* A button is pressed, at any time; the list of choices is not consulted.
handle_callback_query(m) ==
  /\ at[m] = "new"
  /\ \A n \in Message : n < m => at[n] # "new"
  /\ "telegram" \in RichUi
  /\ \E s \in Identity, button \in choice_keyboard :
       /\ button.word \in parse_callback_action
       /\ input' = [input EXCEPT ![m] = [kind |-> "button", sender |-> s, text |-> button]]
       /\ who' = [who EXCEPT ![m] = s]
       /\ goal' = [goal EXCEPT ![m] = button]
  /\ To(m, "routing")
  /\ UNCHANGED <<approvalVars, choices, turn, acted, heard, asked>>

-----------------------------------------------------------------------------
(* Agents.                                                                 *)

\* The text goes to the identity's agent, if it has one.
dispatch_message(m) ==
  /\ at[m] = "routing" /\ ~is_command(goal[m])
  /\ IF who[m] \in Routed THEN To(m, "asking") /\ Hears(m, NoId)
     ELSE To(m, "dropped") /\ UNCHANGED heard
  /\ UNCHANGED <<approvalVars, input, who, goal, choices, turn, acted, asked>>

\* The agent a !btw is for: the one it names, or the rule's btw_agent if its
\* first word is no agent; NoId if the identity may not use that one.
parse_btw_command(m) ==
  LET i == who[m]  first == goal[m].id
      agent == IF first \in Agent \/ i \notin Routed THEN first ELSE BtwAgent[i]
  IN  IF agent \in allowed_agents(i) THEN agent ELSE NoId

\* !btw asks that agent once.
dispatch_one_off(m) ==
  /\ Goes(m, {"!btw"})
  /\ IF parse_btw_command(m) # NoId
     THEN To(m, "asking once") /\ Hears(m, parse_btw_command(m))
     ELSE To(m, "done") /\ UNCHANGED heard
  /\ UNCHANGED <<approvalVars, input, who, goal, choices, turn, acted, asked>>

\* The agent answers, and the router scans what it says before anyone sees
\* it; or it fails, and the error is reported (so is a request for an
\* approval to a !btw).
scan_agent_response(m) ==
  /\ at[m] \in {"asking", "asking once"}
  /\ To(m, "done")
  /\ UNCHANGED <<approvalVars, input, who, goal, choices, turn, acted, heard, asked>>

\* The agent asks for an approval: it is registered ...
approval_pending(m) ==
  /\ at[m] = "asking" /\ raised # Id
  /\ LET id == CHOOSE i \in Id \ raised : TRUE IN   \* a new one; which does not matter
       /\ register_pending_approval(id)
       /\ asked' = [asked EXCEPT ![id] = who[m]]
       /\ goal' = [goal EXCEPT ![m].id = id]
  /\ To(m, "notifying")
  /\ UNCHANGED <<input, who, choices, turn, acted, heard>>

\* ... and offered as a list.
approval_request_message(m) ==
  /\ at[m] = "notifying"
  /\ To(m, "done")
  /\ record_pending_choices(who[m], "approval", goal[m].id)
  /\ UNCHANGED <<approvalVars, input, who, goal, turn, acted, heard, asked>>

\* The mock channel sends the list and does not record it.
approval_request_text(m) ==
  /\ at[m] = "notifying"
  /\ To(m, "done")
  /\ UNCHANGED <<approvalVars, input, who, goal, choices, turn, acted, heard, asked>>

\* The decision is sent, the entry removed, and the agent's answer awaited;
\* that answer goes to the user as it is.
handle_approve(m) ==
  \/ send_approval_decision(m) /\ UNCHANGED handlerVars
  \/ send_fails(m) /\ To(m, "done")
     /\ UNCHANGED <<input, who, goal, choices, turn, acted, heard, asked>>
  \/ remove_pending(m) /\ UNCHANGED handlerVars
  \/ /\ poll_result(m)
     /\ To(m, "done")
     /\ UNCHANGED <<input, who, goal, choices, turn, acted, heard, asked>>

-----------------------------------------------------------------------------

(* The channels.  Their handlers take the same steps, each in its own copy. *)

Lists(m)  == resolve_pending_choice_reply(m) \/ offer_choices(m)
Commands(m) ==
  \/ answer_command(m) \/ cmd_status_for_identity(m) \/ handle_sessions(m) \/ sessions_listed(m)
  \/ handle_secure(m) \/ secure_input(m) \/ handle_async(m) \/ handle_approve(m)
Asks(m) ==
  \/ dispatch_message(m) \/ dispatch_one_off(m)
  \/ scan_agent_response(m) \/ approval_pending(m)

On(m, kind) == at[m] # "new" /\ input[m].kind = kind

telegram_choices(m)  == On(m, "telegram") /\ Lists(m)
telegram_commands(m) == (On(m, "telegram") \/ On(m, "button")) /\ Commands(m)
telegram_asks(m)     == On(m, "telegram") /\ (Asks(m) \/ approval_request_message(m))

matrix_choices(m)    == On(m, "matrix") /\ Lists(m)
matrix_commands(m)   == On(m, "matrix") /\ Commands(m)
matrix_asks(m)       == On(m, "matrix") /\ (Asks(m) \/ approval_request_message(m))

Scan(m) == inbound_scan_block_reply(m)

whatsapp_choices(m)  == On(m, "whatsapp") /\ (Scan(m) \/ Lists(m))
whatsapp_commands(m) == On(m, "whatsapp") /\ Commands(m)
whatsapp_asks(m)     == On(m, "whatsapp") /\ (Asks(m) \/ approval_request_message(m))

signal_choices(m)    == On(m, "signal") /\ (Scan(m) \/ Lists(m))
signal_commands(m)   == On(m, "signal") /\ Commands(m)
signal_asks(m)       == On(m, "signal") /\ (Asks(m) \/ approval_request_message(m))

sms_choices(m)       == On(m, "sms") /\ (Scan(m) \/ Lists(m))
sms_commands(m)      == On(m, "sms") /\ Commands(m)
sms_asks(m)          == On(m, "sms") /\ (Asks(m) \/ approval_request_message(m))

mock_choices(m)      == On(m, "mock") /\ Lists(m)
mock_commands(m)     == On(m, "mock") /\ Commands(m)
mock_asks(m)         == On(m, "mock") /\ (Asks(m) \/ approval_request_text(m))

Telegram(m) == \/ telegram_message(m) \/ handle_callback_query(m)
               \/ telegram_choices(m) \/ telegram_commands(m) \/ telegram_asks(m)
Matrix(m)   == matrix_message(m) \/ matrix_choices(m) \/ matrix_commands(m) \/ matrix_asks(m)
WhatsApp(m) == whatsapp_message(m) \/ whatsapp_choices(m) \/ whatsapp_commands(m) \/ whatsapp_asks(m)
Signal(m)   == signal_message(m) \/ signal_choices(m) \/ signal_commands(m) \/ signal_asks(m)
Sms(m)      == sms_message(m) \/ sms_choices(m) \/ sms_commands(m) \/ sms_asks(m)
Mock(m)     == mock_message(m) \/ mock_choices(m) \/ mock_commands(m) \/ mock_asks(m)

Next ==
  \/ \E m \in Message : \/ Telegram(m) \/ Matrix(m) \/ WhatsApp(m)
                        \/ Signal(m) \/ Sms(m) \/ Mock(m)
  \/ \E i \in DOMAIN choices : choice_expires(i)

Spec == Init /\ [][Next]_vars

\* Removing the entry is local and the poll has a 12 minute timeout.  The
\* call that sends the decision has a connect timeout only and may hang.
FairSpec ==
  /\ Spec
  /\ \A m \in Message : WF_vars(handle_approve(m) /\ pc[m] \in {"removing", "polling"})

-----------------------------------------------------------------------------
(* Properties.                                                             *)

\* "clears on any nonmatching reply so a later stray number cannot activate
\* stale UI" (commands.rs, pending_choices): an answer acts on a list only if
\* nothing else was said since the list was offered, within its time; no list
\* is acted on by two answers; and a list of an approval approves the request
\* it was shown for, and only for the identity whose message the agent paused
\* on (resolve_pending_choice_reply, record_pending_choices).
StrayNumbersInert ==
  /\ \A a \in acted :
       /\ a.late = 0 /\ a.list.fresh
       /\ a.list.kind = "approval" /\ chosen[a.by] # NoId
          /\ verdict[a.by] = "approve" =>
            chosen[a.by] = a.list.id /\ asked[chosen[a.by]] = who[a.by]
  /\ \A a, b \in acted : a.list = b.list /\ who[a.by] = who[b.by] => a.by = b.by

\* A secret typed into a chat is never given to an agent; a sender without a
\* routing rule reaches none, and a !btw only an agent the sender's rule allows.
AgentsHearOnlyTheirs ==
  \A h \in heard :
    /\ h.text.word # "!secret set" /\ h.who \in Routed
    /\ h.agent = NoId \/ AllowedAgents[h.who] = {} \/ h.agent \in AllowedAgents[h.who]

\* "If no `request_id` is provided and exactly one approval is pending,
\* auto-selects it" (approvals.rs): with an id, it is that request or none.
NamedIsDecided ==
  \A m \in Message :
    input[m].kind = "button" /\ chosen[m] # NoId => chosen[m] = named[m]
=============================================================================
