------------------------------ MODULE Adapters ------------------------------
(***************************************************************************)
(* A message to an agent through one of the adapters other than the        *)
(* OpenClaw channel (calciforge: adapters/, artifacts.rs, router.rs).  The *)
(* router builds an adapter for every message.  The adapter runs a child   *)
(* process and collects its output, talks to a child over the agent client *)
(* protocol, or makes one HTTP request; the router scans what comes back.  *)
(*                                                                         *)
(* A child reads its input, works on the message, writes to its standard   *)
(* output and exits, or stops doing so at any point.  Output that is large *)
(* does not fit into the pipe: the child waits until somebody reads.       *)
(***************************************************************************)
EXTENDS Naturals, FiniteSets, FiniteSetsExt

CONSTANTS
  Dispatches,
  Messages,      \* the combinations of messages considered, see IsInput
  Stored,        \* the acpx sessions that exist at first
  Within,        \* <<s, t>> where the name s is a part of the name t
  Trees,         \* what an artifact directory may hold, see IsTree
  MaxBytes, MaxTotal, MaxCount,  \* limits on artifacts
  ScanOutbound,  \* the router scans what agents answer
  Nothing

(* Kinds of adapters *)
Asks == {"openai-compat", "hermes", "ironclaw", "zeroclaw", "zeroclaw-http",
         "zeroclaw-native"}
Runs == {"cli", "codex-cli", "claude-cli", "dirac-cli", "kimi-cli", "artifact-cli", "acpx"}

\* args: whether the configured arguments take the message, standard input
\* by name, or both; a large message does not fit into a pipe; output is the
\* file codex-cli is told to write to, if any.
IsInput(i) ==
  \/ i = Nothing
  \/ /\ i.kind \in Asks \cup Runs \cup {"acp"}
     /\ i.args \in {"plain", "message", "both"}
     /\ i.large \in BOOLEAN
     /\ i.output \in {"own", "fixed", "incomplete"}
     /\ {i.model, i.override} \subseteq {"none", "other", "openclaw"}
     /\ i.allowed \in BOOLEAN
     /\ i.session \in STRING

IsTree(t) ==
  \A e \in t : e.kind \in {"file", "other"} /\ e.size \in Nat /\ e.inside \in BOOLEAN

ASSUME AdaptersAssumption ==
  /\ {"fixed", "blank"} \cap (Dispatches \cup {Nothing}) = {}
  /\ Nothing \notin Dispatches \cup {"ok"}
  /\ \A i \in Messages : \A d \in Dispatches : IsInput(i[d])
  /\ \A t \in Trees : IsTree(t)
  /\ {MaxBytes, MaxTotal, MaxCount} \subseteq Nat
  /\ ScanOutbound \in BOOLEAN

VARIABLES
  message,
  at,        \* where each dispatch is
  step,      \* acpx: what the child was started for
  child,     \* "none", "up", "reads", "worked", "ok", "bad", "refused", "killed"
  output,    \* what the child wrote: "nothing", "small", "large"
  late,      \* cli: the timeout has passed
  files,     \* codex-cli: path -> whose answer is in the file, Nothing or "blank"
  dirs,      \* run directories of artifact-cli: "none", "fresh", "old"
  sessions,  \* acpx sessions on disk
  task,      \* acp: the task that owns the connection
  result,    \* "ok", "timeout", "unavailable", "protocol", "approval", Nothing
  reply,     \* whose answer was returned
  shown,     \* what the router made of it
  worked     \* history: how often an agent worked on the message

avars == <<message, at, step, child, output, late, files, dirs, sessions, task,
           result, reply, shown, worked>>

Kind(d) == message[d].kind
Alive == {"up", "reads", "worked"}
Exited == {"ok", "bad", "refused"}
Path(d) == IF message[d].output = "fixed" THEN "fixed" ELSE d

AdaptersInit ==
  /\ message \in Messages
  /\ at = [d \in Dispatches |-> "idle"]
  /\ step = [d \in Dispatches |-> "prompt"]
  /\ child = [d \in Dispatches |-> "none"]
  /\ output = [d \in Dispatches |-> "nothing"]
  /\ late = [d \in Dispatches |-> FALSE]
  /\ files = [p \in Dispatches \cup {"fixed"} |-> Nothing]
  /\ dirs = [d \in Dispatches |-> "none"]
  /\ sessions = Stored
  /\ task = [d \in Dispatches |-> "none"]
  /\ result = [d \in Dispatches |-> Nothing]
  /\ reply = [d \in Dispatches |-> Nothing]
  /\ shown = [d \in Dispatches |-> Nothing]
  /\ worked = [d \in Dispatches |-> 0]

-----------------------------------------------------------------------------
(* The ends of a dispatch                                                  *)

Fails(d, why) ==
  /\ result' = [result EXCEPT ![d] = why]
  /\ at' = [at EXCEPT ![d] = "over"]
  /\ UNCHANGED reply

Return(d, whose) ==
  /\ result' = [result EXCEPT ![d] = "ok"]
  /\ reply' = [reply EXCEPT ![d] = whose]
  /\ at' = [at EXCEPT ![d] = "scan"]

Goto(d, place) ==
  /\ at' = [at EXCEPT ![d] = place]
  /\ UNCHANGED <<result, reply>>

\* A blank answer is passed on as it is; an answer under review or unsafe is
\* replaced.
scan_agent_response(d) ==
  /\ at[d] = "scan"
  /\ at' = [at EXCEPT ![d] = "over"]
  /\ \E verdict \in IF ScanOutbound /\ reply[d] # "blank"
                    THEN {"reply", "held", "blocked"} ELSE {"reply"} :
       shown' = [shown EXCEPT ![d] = verdict]
  /\ UNCHANGED <<message, step, child, output, late, files, dirs, sessions, task, result,
                 reply, worked>>

-----------------------------------------------------------------------------
(* What precedes the call                                                  *)

\* Run directories of more than a day are removed whenever one is made.
create_run_dir(d) ==
  [e \in Dispatches |-> IF e = d THEN "fresh"
                        ELSE IF dirs[e] = "old" THEN "none" ELSE dirs[e]]

\* A selected model is passed on to agents that are allowed one.
agent_supports_model_override(d) == message[d].allowed

Model(d) == IF agent_supports_model_override(d) /\ message[d].override # "none"
            THEN message[d].override ELSE message[d].model

\* openai-compat needs a model, and not an agent of OpenClaw.
requested_model(d) == Kind(d) = "openai-compat" => Model(d) = "other"

\* codex-cli takes the message in one way, and a path with its option.
codex_build_args(d) ==
  Kind(d) = "codex-cli" => message[d].args # "both" /\ message[d].output # "incomplete"

\* Each adapter is new.
dispatch_message_with_full_context(d) ==
  /\ at[d] = "idle" /\ message[d] # Nothing
  /\ \/ /\ Kind(d) \in {"codex-cli", "artifact-cli"}  \* no directory for it
        /\ Fails(d, "unavailable") /\ UNCHANGED dirs
     \/ /\ ~ (requested_model(d) /\ codex_build_args(d))
        /\ Fails(d, "protocol") /\ UNCHANGED dirs
     \/ /\ requested_model(d) /\ codex_build_args(d)
        /\ dirs' = IF Kind(d) = "artifact-cli" THEN create_run_dir(d) ELSE dirs
        /\ Goto(d, IF Kind(d) \in Asks THEN "ask" ELSE "spawn")
  /\ UNCHANGED <<message, step, child, output, late, files, sessions, task, shown, worked>>

-----------------------------------------------------------------------------
(* Children of the command line adapters                                   *)

\* Who gets the message on standard input.
kimi_build_args(d) == message[d].args # "message"

Fed(d) ==
  \/ Kind(d) \in {"claude-cli", "dirac-cli", "artifact-cli"}
  \/ Kind(d) \in {"kimi-cli", "codex-cli"} /\ kimi_build_args(d)

spawn(d) ==
  /\ at[d] = "spawn" /\ Kind(d) \in Runs
  /\ output' = [output EXCEPT ![d] = "nothing"]
  /\ \/ Fails(d, "unavailable") /\ UNCHANGED child
     \/ /\ child' = [child EXCEPT ![d] = "up"]
        /\ Goto(d, IF Fed(d) THEN "feed" ELSE "wait")
  /\ UNCHANGED <<message, step, late, files, dirs, sessions, task, shown,
                 worked>>

\* A large message is written as the child reads it; one that has gone does
\* not.
write_all(d) ==
  /\ at[d] = "feed"
  /\ \/ /\ child[d] = "reads" \/ (child[d] = "up" /\ ~ message[d].large)
        /\ Goto(d, "wait")
     \/ child[d] \in Exited /\ Fails(d, "unavailable")
  /\ UNCHANGED <<message, step, child, output, late, files, dirs, sessions, task, shown,
                 worked>>

\* cli waits and reads afterwards; all others read while they wait.
Reads(d) == at[d] = "wait" /\ Kind(d) # "cli"

\* The session a child works in: acpx takes the directory's own by default.
SessionKey(d) == IF message[d].session = "none" THEN "cwd" ELSE message[d].session
InSession(d) == Kind(d) = "acpx" /\ step[d] \in {"prompt", "again"}

ChildReads(d) ==
  /\ child[d] = "up" /\ Fed(d)
  /\ child' = [child EXCEPT ![d] = "reads"]
  /\ UNCHANGED <<message, at, step, output, late, files, dirs, sessions, task, result,
                 reply, shown, worked>>

\* The message has come in whole and is worked on; the children that list
\* and make sessions do not get it.
ChildWorks(d) ==
  /\ Kind(d) \in Runs /\ child[d] = IF Fed(d) THEN "reads" ELSE "up"
  /\ at[d] # "feed"
  /\ InSession(d) => SessionKey(d) \in sessions
  /\ child' = [child EXCEPT ![d] = "worked"]
  /\ \E o \in {"nothing", "small", "large"} : output' = [output EXCEPT ![d] = o]
  /\ worked' = IF step[d] \in {"list", "ensure"} THEN worked
             ELSE [worked EXCEPT ![d] = @ + 1]
  /\ UNCHANGED <<message, at, step, late, files, dirs, sessions, task,
                 result, reply, shown>>

\* The output is out; codex writes its last message to the file, if it does,
\* and acpx keeps the session it made.
ChildExits(d) ==
  /\ child[d] = "worked"
  /\ output[d] = "large" => Reads(d)
  /\ \E end \in Exited :
       /\ end = "refused" => Kind(d) = "acpx"
       /\ child' = [child EXCEPT ![d] = end]
       /\ sessions' = IF end = "ok" /\ step[d] = "ensure"
                      THEN sessions \cup {SessionKey(d)} ELSE sessions
  /\ \/ UNCHANGED files
     \/ /\ Kind(d) = "codex-cli"
        /\ \E text \in {d, "blank"} : files' = [files EXCEPT ![Path(d)] = text]
  /\ UNCHANGED <<message, at, step, output, late, dirs, task, result,
                 reply, shown, worked>>

\* A child that gives up before it works; without its session acpx says so.
ChildGivesUp(d) ==
  /\ child[d] \in {"up", "reads"} /\ Kind(d) \in Runs
  /\ child' = [child EXCEPT ![d] =
                 IF InSession(d) /\ SessionKey(d) \notin sessions THEN "refused" ELSE "bad"]
  /\ UNCHANGED <<message, at, step, output, late, files, dirs, sessions, task, result,
                 reply, shown, worked>>

-----------------------------------------------------------------------------
(* The end of the wait                                                     *)

\* Mutant: a child that is not waited for any more is left alone.
KillNone(d) == UNCHANGED child

\* kill_on_drop.
Kill(d) == child' = [child EXCEPT ![d] = IF @ \in Alive THEN "killed" ELSE @]

\* Mutant: the message is written before the time starts to run.
OnlyWaits(d) == at[d] = "wait" /\ step[d] \notin {"list", "ensure"}

\* What the time limit covers: not codex-cli's input, and not what acpx does
\* about sessions.
Timed(d) ==
  \/ at[d] = "wait" /\ step[d] \notin {"list", "ensure"}
  \/ at[d] = "feed" /\ Kind(d) # "codex-cli"

\* cli goes on to read what the child says on standard error.
Timeout(d) ==
  /\ Timed(d) /\ Kind(d) \in Runs /\ child[d] \in Alive
  /\ IF Kind(d) = "cli"
     THEN /\ Goto(d, "drain")
          /\ late' = [late EXCEPT ![d] = TRUE]
          /\ UNCHANGED child
     ELSE /\ Fails(d, IF Kind(d) = "acpx" THEN "unavailable" ELSE "timeout")
          /\ Kill(d)
          /\ UNCHANGED late
  /\ UNCHANGED <<message, step, output, files, dirs, sessions, task,
                 shown, worked>>

\* cli: the end of standard error is the end of the child; then the time is
\* judged, then the status, then the output.
drain(d) ==
  /\ Kind(d) = "cli" /\ at[d] \in {"wait", "drain"} /\ child[d] \in Exited
  /\ IF late[d] THEN Fails(d, "timeout")
     ELSE IF child[d] # "ok" \/ output[d] = "nothing" THEN Fails(d, "protocol")
     ELSE Return(d, d)
  /\ UNCHANGED <<message, step, child, output, late, files, dirs, sessions, task, shown,
                 worked>>

\* codex-cli: the answer is the file's; its own is removed.
read_last_message(d) ==
  /\ Kind(d) = "codex-cli" /\ at[d] = "wait" /\ child[d] \in Exited
  /\ IF child[d] # "ok" \/ files[Path(d)] = Nothing
     THEN Fails(d, "protocol") /\ UNCHANGED files
     ELSE /\ files' = IF Path(d) = d THEN [files EXCEPT ![d] = Nothing] ELSE files
          /\ IF files[Path(d)] = "blank" THEN Fails(d, "protocol")
             ELSE Return(d, files[Path(d)])
  /\ UNCHANGED <<message, step, child, output, late, dirs, sessions, task,
                 shown, worked>>

\* The answer is what is on standard output, or for dirac-cli the last thing
\* it says there.
TakesOutput(d) ==
  /\ at[d] = "wait" /\ child[d] \in Exited
  /\ IF child[d] # "ok" \/ output[d] = "nothing" THEN Fails(d, "protocol")
     ELSE Return(d, d)
  /\ UNCHANGED <<message, step, child, output, late, files, dirs, sessions, task, shown,
                 worked>>

claude_reply(d) == Kind(d) = "claude-cli" /\ TakesOutput(d)
dirac_reply(d) == Kind(d) = "dirac-cli" /\ TakesOutput(d)
kimi_reply(d) == Kind(d) = "kimi-cli" /\ TakesOutput(d)

\* Every entry must lead to a place in the directory; files are limited in
\* size, together and in number; other things are passed over.
collect_run_artifacts(t) ==
  LET regular == {e \in t : e.kind = "file"}
  IN  /\ \A e \in t : e.inside
      /\ \A e \in regular : e.size <= MaxBytes
      /\ MapThenSumSet(LAMBDA e : e.size, regular) <= MaxTotal
      /\ Cardinality(regular) <= MaxCount

discover_artifacts(d) ==
  /\ Kind(d) = "artifact-cli" /\ at[d] = "wait" /\ child[d] \in Exited
  /\ \E t \in Trees :
       IF \/ child[d] # "ok" \/ ~ collect_run_artifacts(t)
          \/ output[d] = "nothing" /\ {e \in t : e.kind = "file"} = {}
       THEN Fails(d, "protocol")
       ELSE Return(d, d)
  /\ UNCHANGED <<message, step, child, output, late, files, dirs, sessions, task, shown,
                 worked>>

\* acpx: which command follows the one that has ended, or the end.  Without a
\* chosen session a failure is answered by a run outside any session.
Again(d, what) ==
  /\ step' = [step EXCEPT ![d] = what]
  /\ Goto(d, "spawn")

PromptFailed(d) ==
  IF message[d].session = "none" THEN Again(d, "exec")
  ELSE Fails(d, "protocol") /\ UNCHANGED step

\* A session counts as there when its name is a part of one that is listed;
\* a list that fails is empty.
Listed(d) == child[d] = "ok" /\ \E s \in sessions : <<SessionKey(d), s>> \in Within

session_prompt(d) ==
  /\ Kind(d) = "acpx" /\ at[d] = "wait" /\ child[d] \in Exited
  /\ LET ok == child[d] = "ok"
         gone == step[d] = "prompt" /\ child[d] = "refused"
     IN  \/ step[d] = "list" /\ Again(d, IF Listed(d) THEN "again" ELSE "ensure")
         \/ step[d] = "ensure" /\ ok /\ Again(d, "again")
         \/ /\ step[d] \in {"prompt", "again", "exec"} /\ ok
            /\ Return(d, IF output[d] = "nothing" THEN "blank" ELSE d)
            /\ UNCHANGED step
         \/ gone /\ Again(d, "list")
         \/ step[d] \in {"prompt", "ensure", "again"} /\ ~ ok /\ ~ gone /\ PromptFailed(d)
         \/ step[d] = "exec" /\ ~ ok /\ Fails(d, "protocol") /\ UNCHANGED step
  /\ UNCHANGED <<message, child, output, late, files, dirs, sessions, task,
                 shown, worked>>

-----------------------------------------------------------------------------
(* acp: a task keeps the connection to the child                           *)

\* The prompt is put into the task's mailbox at once.
acp_spawn(d) ==
  /\ Kind(d) = "acp" /\ at[d] = "spawn"
  /\ \/ Fails(d, "unavailable") /\ UNCHANGED <<child, task>>
     \/ /\ child' = [child EXCEPT ![d] = "up"]
        /\ task' = [task EXCEPT ![d] = "initialize"]
        /\ Goto(d, "wait")
  /\ UNCHANGED <<message, step, output, late, files, dirs, sessions, shown,
                 worked>>

\* The agent accepts the protocol, then the session; then it gets the prompt.
acp_agrees(d) ==
  /\ task[d] \in {"initialize", "new"} /\ child[d] = "up"
  /\ IF task[d] = "initialize"
     THEN task' = [task EXCEPT ![d] = "new"] /\ UNCHANGED worked
     ELSE task' = [task EXCEPT ![d] = "prompt"] /\ worked' = [worked EXCEPT ![d] = @ + 1]
  /\ UNCHANGED <<message, at, step, child, output, late, files, dirs, sessions, result,
                 reply, shown>>

\* The turn ends, with a text, none or an error; somebody may be waiting for
\* it.  The task waits for another prompt: it holds a sender of its own
\* mailbox, so the mailbox never closes.
acp_answers(d) ==
  /\ task[d] = "prompt" /\ child[d] = "up"
  /\ task' = [task EXCEPT ![d] = "idle"]
  /\ IF at[d] = "wait" THEN Return(d, d) \/ Fails(d, "protocol")
     ELSE UNCHANGED <<at, result, reply>>
  /\ UNCHANGED <<message, step, child, output, late, files, dirs, sessions,
                 shown, worked>>

\* The agent refuses, or goes; the task ends the child.
acp_ends(d) ==
  /\ task[d] \in {"initialize", "new", "prompt", "idle"}
  /\ \/ child' = [child EXCEPT ![d] = "bad"]
     \/ task[d] \in {"initialize", "new"} /\ Kill(d)
  /\ task' = [task EXCEPT ![d] = "ended"]
  /\ IF at[d] = "wait"
     THEN Fails(d, "unavailable") \/ (task[d] = "prompt" /\ Fails(d, "protocol"))
     ELSE UNCHANGED <<at, result, reply>>
  /\ UNCHANGED <<message, step, output, late, files, dirs, sessions, shown,
                 worked>>

\* Only the wait ends.
acp_timeout(d) ==
  /\ Kind(d) = "acp" /\ at[d] = "wait"
  /\ Fails(d, "timeout")
  /\ UNCHANGED <<message, step, child, output, late, files, dirs, sessions, task, shown,
                 worked>>

-----------------------------------------------------------------------------
(* HTTP: what an adapter makes of what it meets.  "time" is the end of the *)
(* time before the answer, "cut" the end of the time or of the connection  *)
(* within it.                                                              *)

Sent(e) == CASE e = "time" -> "timeout" [] e = "unreachable" -> "unavailable"

Understood(e) == IF e \in {"text", "blank", "approval"} THEN e ELSE "protocol"

hermes_send_message(e) ==
  CASE e \in {"time", "unreachable"} -> {Sent(e)}
    [] e = "cut" -> {"timeout", "unavailable"}
    [] OTHER -> {Understood(e)}

openai_compat_dispatch(e) ==
  CASE e \in {"time", "unreachable"} -> {Sent(e)}
    [] e = "cut" -> {"timeout", "unavailable"}
    [] OTHER -> {Understood(e)}

\* A body that is cut is an empty one, which is no answer.
ironclaw_send_message(e) ==
  IF e \in {"time", "unreachable"} THEN {Sent(e)} ELSE {Understood(e)}

zeroclaw_dispatch(e) ==
  IF e \in {"time", "unreachable"} THEN {Sent(e)} ELSE {Understood(e)}

\* An answer without a text is blank.
zeroclaw_http_dispatch(e) ==
  CASE e \in {"time", "unreachable"} -> {Sent(e)}
    [] e = "nothing" -> {"blank"}
    [] OTHER -> {Understood(e)}

\* What it remembers of earlier turns is in the adapter, which is new.
zeroclaw_native_dispatch(e) == zeroclaw_http_dispatch(e)

Outcomes(d, e) ==
  CASE Kind(d) = "hermes" -> hermes_send_message(e)
    [] Kind(d) = "openai-compat" -> openai_compat_dispatch(e)
    [] Kind(d) = "ironclaw" -> ironclaw_send_message(e)
    [] Kind(d) = "zeroclaw" -> zeroclaw_dispatch(e)
    [] Kind(d) = "zeroclaw-http" -> zeroclaw_http_dispatch(e)
    [] Kind(d) = "zeroclaw-native" -> zeroclaw_native_dispatch(e)

\* zeroclaw-http and zeroclaw-native limit the time to connect only, and are
\* the ones that hear of approvals.
Untimed == {"zeroclaw-http", "zeroclaw-native"}

Answer(d, e) ==
  \E r \in Outcomes(d, e) :
    CASE r = "text" -> Return(d, d)
      [] r = "blank" -> Return(d, "blank")
      [] OTHER -> Fails(d, r)

\* Nobody is there, or the agent has worked and something comes back.
ask_answered(d) ==
  /\ at[d] = "ask"
  /\ \/ Answer(d, "unreachable") /\ UNCHANGED worked
     \/ /\ \E e \in {"cut", "status", "malformed", "error", "nothing", "text", "blank"}
                    \cup (IF Kind(d) \in Untimed THEN {"approval"} ELSE {}) :
             Answer(d, e)
        /\ worked' = [worked EXCEPT ![d] = @ + 1]
  /\ UNCHANGED <<message, step, child, output, late, files, dirs, sessions, task, shown>>

ask_timeout(d) ==
  /\ at[d] = "ask" /\ Kind(d) \notin Untimed
  /\ Answer(d, "time") \/ Answer(d, "cut")
  /\ UNCHANGED <<message, step, child, output, late, files, dirs, sessions, task, shown,
                 worked>>

\* A day passes over a run directory.
Age(d) ==
  /\ dirs[d] = "fresh" /\ at[d] = "over"
  /\ dirs' = [dirs EXCEPT ![d] = "old"]
  /\ UNCHANGED <<message, at, step, child, output, late, files, sessions, task, result,
                 reply, shown, worked>>

-----------------------------------------------------------------------------

\* What the adapter and the router do by themselves, the clock included.
AdapterStep(d) ==
  /\ message[d] # Nothing
  /\ \/ dispatch_message_with_full_context(d) \/ spawn(d) \/ write_all(d) \/ Timeout(d)
     \/ drain(d) \/ read_last_message(d) \/ claude_reply(d) \/ dirac_reply(d)
     \/ kimi_reply(d) \/ discover_artifacts(d) \/ session_prompt(d) \/ acp_spawn(d) \/ acp_timeout(d)
     \/ ask_timeout(d) \/ scan_agent_response(d)

ChildStep(d) ==
  /\ message[d] # Nothing
  /\ \/ ChildReads(d) \/ ChildWorks(d) \/ ChildExits(d) \/ ChildGivesUp(d)
     \/ acp_agrees(d) \/ acp_answers(d) \/ acp_ends(d)

ServerStep(d) == message[d] # Nothing /\ ask_answered(d)

AdaptersNext ==
  \E d \in Dispatches : AdapterStep(d) \/ ChildStep(d) \/ ServerStep(d) \/ Age(d)

AdaptersSpec == AdaptersInit /\ [][AdaptersNext]_avars

\* Children and servers may stop; what calciforge's executor runs does not.
AdaptersFair == \A d \in Dispatches : WF_avars(AdapterStep(d))

-----------------------------------------------------------------------------
(* Properties                                                              *)

Ended(d) == at[d] = "over"
RunLimit(d) == IF Kind(d) # "acpx" THEN 1
               ELSE IF message[d].session = "none" THEN 3 ELSE 2

\* A dispatch that is over leaves no child running, except the one acp keeps;
\* the answer is the answer to this message, unless codex-cli was told which
\* file to use; a file of codex-cli's own is gone after a success; and the
\* agent worked on the message once, or as often as acpx tries: twice in a
\* chosen session, three times otherwise (kill_on_drop, last_message_path and
\* session_prompt).
DispatchIsClean ==
  \A d \in Dispatches :
    message[d] # Nothing /\ Ended(d) =>
      /\ child[d] \in Alive => Kind(d) = "acp"
      /\ result[d] = "ok" =>
           /\ reply[d] \in {d, "blank"} \/ Path(d) = "fixed"
           /\ files[d] = Nothing
      /\ worked[d] <= RunLimit(d)

\* The waits no clock ends: cli reads standard error of a child that is still
\* there, codex-cli writes to one that does not read, acpx asks for sessions,
\* and a zeroclaw gateway does not answer.
Unbounded(d) ==
  \/ at[d] = "drain" /\ child[d] \in Alive
  \/ at[d] = "feed" /\ Kind(d) = "codex-cli"
  \/ at[d] = "wait" /\ step[d] \in {"list", "ensure"}
  \/ at[d] = "ask" /\ Kind(d) \in Untimed

\* Whatever children and servers do, a message gets its result in time, but
\* for the four waits above.
AdaptersEnd ==
  \A d \in Dispatches :
    (message[d] # Nothing /\ at[d] # "idle") ~> (Ended(d) \/ Unbounded(d))
=============================================================================
