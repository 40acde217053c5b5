----------------------------- MODULE PasteServer -----------------------------
(***************************************************************************)
(* The one-shot secret input server (paste-server) and the main function   *)
(* that runs it.  A link is one process with one token.  A POST claims the *)
(* token, asks fnox which secrets exist, writes the destination policy of  *)
(* each key and then its value, and completes or releases the token.       *)
(* Between its awaits other POSTs and other links' processes run; the      *)
(* browser may hang up, which drops the handler where it is, and a link's  *)
(* process may be killed.  The destination policies share one file, which  *)
(* is rewritten under a lock file next to it.                              *)
(*                                                                         *)
(* A value and a policy are named after the POST that wrote them.  The     *)
(* form pages change no state and are left out.  fnox is external: a call  *)
(* may fail, and a failed write may still have taken effect (timeout).     *)
(***************************************************************************)
EXTENDS Integers, Sequences, FiniteSets

CONSTANTS
  Link,       \* one-shot links, each served by its own process
  Bulk,       \* those that take a .env dump
  Post,       \* form submissions
  Name,       \* secret names
  LinkName,   \* single link -> the secret it was requested for
  Dumps,      \* the dumps submitted: sequences of lines, each its key
  BadLine,    \* a line that is malformed or has an invalid key
  Blank,      \* an empty line or a comment
  Config,     \* link -> its PasteConfig
  Origins,    \* the Origin headers the browsers send
  Nobody,     \* no POST: nothing stored, no policy, no link
  Seed        \* the value of a secret that was there before

\* An Origin header: "null", or scheme, host and port (0 if it has none).
Origin == [scheme : {"null", "http", "https"}, host : STRING, port : Nat]

\* What a link's server is configured with, from PASTE_* variables for the
\* public address and the escape hatch; a part that is not set is {}.
PasteConfig ==
  [require_localhost_origin : BOOLEAN, allow_null_origin : BOOLEAN,
   public_base_url : SUBSET Origin, public_host : SUBSET STRING]

ASSUME PasteAssumption ==
  /\ Bulk \subseteq Link
  /\ LinkName \in [Link \ Bulk -> Name]
  /\ \A d \in Dumps : d \in Seq(Name \cup {BadLine, Blank})
  /\ BadLine \notin Name /\ Blank \notin Name \cup {BadLine}
  /\ \A o \in Origins : o \in Origin
  /\ Config \in [Link -> PasteConfig]
  /\ {Nobody, Seed} \cap (Post \cup Link) = {}
  /\ Nobody # Seed

VARIABLES
  server,    \* link -> "none", "up" or "exited"
  expired,   \* the links whose expires_at has passed
  req,       \* link -> its PendingRequest's flags
  signal,    \* link -> the submitted oneshot: "open" or "sent"
  pc,        \* POST -> where its handler is
  post,      \* POST -> what was submitted, to which link
  existing,  \* POST -> the names fnox list gave it
  line,      \* POST -> the line being stored
  landed,    \* POST -> any_stored
  store,     \* fnox: name -> the POST whose value it holds, Seed or Nobody
  policy,    \* the metadata file: name -> the POST that set its destinations
  lock       \* the lock file: the link whose process created it, or Nobody

handler == <<post, existing, line, landed>>
vars == <<server, expired, req, signal, pc, handler, store, policy, lock>>

NoForm == [link |-> Nobody, update |-> FALSE, dests |-> FALSE, keys |-> <<>>]

\* Where a handler is at an await; "locked" is inside a call that has none.
Waiting == {"listing", "storing", "setting", "completing", "responding"}
Running == Waiting \cup {"locked"}
Ended == {"answered", "refused", "dropped"}

Init ==
  /\ server = [l \in Link |-> "none"]
  /\ expired = {}
  /\ req = [l \in Link |-> [in_progress |-> FALSE, completed |-> FALSE]]
  /\ signal = [l \in Link |-> "open"]
  /\ pc = [p \in Post |-> "new"]
  /\ post = [p \in Post |-> NoForm]
  /\ existing = [p \in Post |-> {}]
  /\ line = [p \in Post |-> 1]
  /\ landed = [p \in Post |-> FALSE]
  /\ store \in [Name -> {Seed, Nobody}]
  /\ policy = [n \in Name |-> Nobody]
  /\ lock = Nobody

Goto(p, where) == pc' = [pc EXCEPT ![p] = where]
Key(p) == post[p].keys[line[p]]

\* A server with a fresh token, valid for a while.
Spawn(l) ==
  /\ server[l] = "none"
  /\ server' = [server EXCEPT ![l] = "up"]
  /\ UNCHANGED <<expired, req, signal, pc, handler, store, policy, lock>>

spawn_request(l) == l \notin Bulk /\ Spawn(l)

spawn_bulk_request(l) == l \in Bulk /\ Spawn(l)

expire(l) ==
  /\ server[l] = "up"
  /\ l \notin expired
  /\ expired' = expired \cup {l}
  /\ UNCHANGED <<server, req, signal, pc, handler, store, policy, lock>>

-----------------------------------------------------------------------------
(* The token.                                                              *)

validate_request_state(l) ==
  l \notin expired /\ ~req[l].completed /\ ~req[l].in_progress

claim_request(l) == req' = [req EXCEPT ![l].in_progress = TRUE]

\* Mutant: the token goes back as it was.
complete_request_Releases(l) == req' = [req EXCEPT ![l].in_progress = FALSE]

complete_request(l) ==
  req' = [req EXCEPT ![l] = [in_progress |-> FALSE, completed |-> TRUE]]

release_request(l) == req' = [req EXCEPT ![l].in_progress = FALSE]

-----------------------------------------------------------------------------
(* The handlers post_submit and post_bulk_submit.                          *)

\* Where the page was loaded from: the public address, or a machine of the
\* same network.  The prefix tests ask for plain http and, but for the name
\* localhost and private addresses, for a port.
origin_matches_base_url(o, base) == o.scheme # "null" /\ o = base

origin_matches_public_host(o, host) == o.scheme # "null" /\ o.host = host

is_rfc1918_http_origin(o) == o.scheme = "http" /\ o.host = "lan"

is_localhost_origin(o) ==
  \/ o.scheme = "http" /\ o.host = "127.0.0.1" /\ o.port # 0
  \/ o.scheme = "http" /\ o.host = "localhost"
  \/ is_rfc1918_http_origin(o)

is_allowed_origin(o, cfg) ==
  IF o.scheme = "null" THEN cfg.allow_null_origin
  ELSE \/ \E base \in cfg.public_base_url : origin_matches_base_url(o, base)
       \/ \E host \in cfg.public_host : origin_matches_public_host(o, host)
       \/ is_localhost_origin(o)

\* A request without the header is like one with a foreign origin.
OriginPasses(l) ==
  Config[l].require_localhost_origin =>
    \E o \in Origins : is_allowed_origin(o, Config[l])

parse_env_dump(d) ==
  LET Content(k) == k # Blank
  IN  SelectSeq(d, Content)

\* A form is turned down before it touches the token: a foreign Origin,
\* nothing in it, or (single links) a destination list that does not parse.
Reject(p) == Goto(p, "refused") /\ UNCHANGED <<req, post>>

\* It claims the token, or finds it expired or in use.  With ?update=1 the
\* existing names are not asked for.
Submit(p, l, keys) ==
  \/ Reject(p)
  \/ /\ OriginPasses(l)
     /\ validate_request_state(l)
     /\ claim_request(l)
     /\ \E update, dests \in BOOLEAN :
          /\ post' = [post EXCEPT ![p] = [link |-> l, update |-> update,
                                          dests |-> dests, keys |-> keys]]
          /\ Goto(p, IF update THEN "storing" ELSE "listing")

post_submit(p) ==
  /\ pc[p] = "new"
  /\ \E l \in Link \ Bulk : server[l] = "up" /\ Submit(p, l, <<LinkName[l]>>)
  /\ UNCHANGED <<server, expired, signal, existing, line, landed, store,
                 policy, lock>>

post_bulk_submit(p) ==
  /\ pc[p] = "new"
  /\ \E l \in Bulk, d \in Dumps :
       server[l] = "up" /\ Submit(p, l, parse_env_dump(d))
  /\ UNCHANGED <<server, expired, signal, existing, line, landed, store,
                 policy, lock>>

\* The token is released and the form turned down.
Release(p) == release_request(post[p].link) /\ Goto(p, "refused")

\* A destination list that does not parse: a bulk handler finds out after it
\* has claimed the token.
parse_destinations_fails(p) ==
  /\ pc[p] = IF post[p].update THEN "storing" ELSE "listing"
  /\ post[p].link \in Bulk
  /\ post[p].dests
  /\ line[p] = 1
  /\ Release(p)
  /\ UNCHANGED <<server, expired, signal, handler, store, policy, lock>>

Present == {n \in Name : store[n] # Nobody}

\* fnox list answers, or fails.
list(p) ==
  /\ pc[p] = "listing"
  /\ \/ /\ existing' = [existing EXCEPT ![p] = Present]
        /\ Goto(p, "storing")
        /\ UNCHANGED req
     \/ Release(p) /\ UNCHANGED existing
  /\ UNCHANGED <<server, expired, signal, post, line, landed, store, policy, lock>>

\* A line that is not stored: a bulk handler notes it and goes on, the other
\* one gives up.
Skip(p) ==
  IF post[p].link \in Bulk
  THEN /\ line' = [line EXCEPT ![p] = @ + 1]
       /\ Goto(p, "storing")
       /\ UNCHANGED req
  ELSE Release(p) /\ UNCHANGED line

\* New-only: without ?update=1 a name on the list is not written.
Refused(p) ==
  \/ Key(p) = BadLine
  \/ ~post[p].update /\ Key(p) \in existing[p]

\* Mutant: a policy that cannot be stored is only logged.
PolicyFails_Ignored(p) == Goto(p, "setting") /\ UNCHANGED <<line, req>>

\* If the policy cannot be stored neither is the value.
PolicyFails(p) == Skip(p)

\* The line is looked at.  Without a destination list its value is stored at
\* once; with one the lock file is created, unless it is there for 10 s.
set_allowed_destinations(p) ==
  /\ pc[p] = "storing"
  /\ line[p] <= Len(post[p].keys)
  /\ \/ Refused(p) /\ Skip(p) /\ UNCHANGED lock
     \/ /\ ~Refused(p) /\ ~post[p].dests
        /\ Goto(p, "setting") /\ UNCHANGED <<line, req, lock>>
     \/ /\ ~Refused(p) /\ post[p].dests /\ lock = Nobody
        /\ lock' = post[p].link
        /\ Goto(p, "locked") /\ UNCHANGED <<line, req>>
     \/ /\ ~Refused(p) /\ post[p].dests
        /\ PolicyFails(p) /\ UNCHANGED lock
  /\ UNCHANGED <<server, expired, signal, post, existing, landed, store,
                 policy>>

\* The file is read and replaced by a new one, or that fails; either way the
\* lock file is removed.
write_atomic(p) ==
  /\ pc[p] = "locked"
  /\ \/ /\ policy' = [policy EXCEPT ![Key(p)] = p]
        /\ Goto(p, "setting") /\ UNCHANGED <<line, req>>
     \/ PolicyFails(p) /\ UNCHANGED policy
  /\ lock' = Nobody
  /\ UNCHANGED <<server, expired, signal, post, existing, landed, store>>

Stored(p) == store' = [store EXCEPT ![Key(p)] = p]

\* fnox set succeeds; a single link's handler is done with storing.
set(p) ==
  /\ pc[p] = "setting"
  /\ Stored(p)
  /\ line' = [line EXCEPT ![p] = @ + 1]
  /\ landed' = [landed EXCEPT ![p] = TRUE]
  /\ Goto(p, "storing")
  /\ UNCHANGED <<server, expired, req, signal, post, existing, policy, lock>>

set_fails(p) ==
  /\ pc[p] = "setting"
  /\ Stored(p) \/ UNCHANGED store
  /\ Skip(p)
  /\ UNCHANGED <<server, expired, signal, post, existing, landed, policy, lock>>

\* No line is left: the token is used up, whether or not a key landed.
complete(p) ==
  /\ pc[p] = "storing"
  /\ line[p] > Len(post[p].keys)
  /\ complete_request(post[p].link)
  /\ Goto(p, "completing")
  /\ UNCHANGED <<server, expired, signal, handler, store, policy, lock>>

\* The process is told only if a key landed.
submitted(p) ==
  /\ pc[p] = "completing"
  /\ signal' = IF landed[p] THEN [signal EXCEPT ![post[p].link] = "sent"]
                            ELSE signal
  /\ Goto(p, "responding")
  /\ UNCHANGED <<server, expired, req, handler, store, policy, lock>>

respond(p) ==
  /\ pc[p] = "responding"
  /\ Goto(p, "answered")
  /\ UNCHANGED <<server, expired, req, signal, handler, store, policy, lock>>

\* The browser goes away: the handler stops where it is, and a fnox that was
\* writing is killed before or after it wrote.
hang_up(p) ==
  /\ pc[p] \in Waiting
  /\ Goto(p, "dropped")
  /\ \/ UNCHANGED store
     \/ pc[p] = "setting" /\ Stored(p)
  /\ UNCHANGED <<server, expired, req, signal, handler, policy, lock>>

-----------------------------------------------------------------------------
(* main: whichever comes first of a submission and the expiry.             *)

\* Mutant: only a submission ends the process.
Finished_OnSubmit(l) == signal[l] = "sent"

Finished(l) == signal[l] = "sent" \/ l \in expired

Of(l, where) == {p \in Post : post[p].link = l /\ pc[p] \in where}

\* The process ends, and what its handlers were doing ends with it; a fnox
\* that was writing is killed before or after it wrote.
Ends(l) ==
  /\ server[l] = "up"
  /\ server' = [server EXCEPT ![l] = "exited"]
  /\ pc' = [p \in Post |-> IF p \in Of(l, Running) THEN "dropped" ELSE pc[p]]
  /\ \E written \in SUBSET Of(l, {"setting"}) :
       store' = [n \in Name |->
                   IF \E p \in written : Key(p) = n
                   THEN CHOOSE p \in written : Key(p) = n ELSE store[n]]
  /\ UNCHANGED <<expired, req, signal, handler, lock>>

\* handle.shutdown() asks the server to drain and main returns; a call
\* without an await is finished first.
exit(l) ==
  /\ Finished(l)
  /\ Of(l, {"locked"}) = {}
  /\ Ends(l)
  /\ UNCHANGED policy

\* The process is killed: the lock file stays, the new policy file is in
\* place or not.
kill(l) ==
  /\ Ends(l)
  /\ \/ UNCHANGED policy
     \/ \E p \in Of(l, {"locked"}) : policy' = [policy EXCEPT ![Key(p)] = p]

PostStep(p) ==
  \/ parse_destinations_fails(p)
  \/ list(p)
  \/ set_allowed_destinations(p)
  \/ write_atomic(p)
  \/ set(p)
  \/ set_fails(p)
  \/ complete(p)
  \/ submitted(p)
  \/ respond(p)

Next ==
  \/ \E l \in Link : \/ spawn_request(l) \/ spawn_bulk_request(l)
                    \/ expire(l) \/ exit(l) \/ kill(l)
  \/ \E p \in Post : \/ post_submit(p) \/ post_bulk_submit(p)
                    \/ hang_up(p) \/ PostStep(p)

Spec == Init /\ [][Next]_vars

\* Time passes, main is woken, and a call without an await returns; nothing
\* else is assumed of the handlers.
Fairness ==
  /\ \A l \in Link : WF_vars(expire(l)) /\ WF_vars(exit(l))
  /\ \A p \in Post : WF_vars(write_atomic(p))

-----------------------------------------------------------------------------
(* Properties.                                                             *)

\* Once a submission of a link has gone through, no other one does, however
\* many were sent while it was running.
UsedOnce ==
  \A p, q \in Post :
    /\ pc[p] \in {"completing", "responding", "answered"}
    /\ pc[q] \in {"completing", "responding", "answered"}
    /\ post[p].link = post[q].link
    => p = q

\* A value that came with a destination list is never there unguarded, even
\* when its handler is cut off, its process killed, or its policy could not
\* be stored because a dead process left the lock file: the policy goes first.
ValueHasItsPolicy ==
  \A n \in Name :
    store[n] \in {p \in Post : post[p].dests} => policy[n] # Nobody

\* Every link's process ends, whatever its users do, even when a browser
\* that went away left the token claimed for good.
EveryLinkCloses ==
  \A l \in Link : server[l] = "up" ~> server[l] = "exited"
=============================================================================
