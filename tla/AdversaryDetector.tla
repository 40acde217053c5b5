-------------------------- MODULE AdversaryDetector --------------------------
(***************************************************************************)
(* crates/adversary-detector: fetches of web content through the scanner,  *)
(* the digest store that remembers verdicts and human approvals, and the   *)
(* cache of the Starlark policy file.  Content stands for its digest.      *)
(* The store's mutex is held across its flush; the file is truncated       *)
(* before it is written, so a crash in between leaves an unreadable file.  *)
(***************************************************************************)
EXTENDS Scanner

CONSTANTS
  Fetches,          \* calls of fetch, and of the hook on tool results
  Urls, Contents,
  Protected,        \* URLs of domains that are never scanned
  Intercepted,      \* whether the profile scans the tool of a tool result
  OverrideOnReview, \* Review verdicts pass
  DigestsExpire,    \* digest_cache_ttl_secs is not 0
  None,
  MaxEdits          \* bound: how often the policy file is edited

VARIABLES
  at,      \* where each call is
  job,     \* [kind, url, content, verdict] of each call
  seen,    \* version of the policy file when a call looked at its metadata
  used,    \* version of the policy a call's scan ran
  policy,  \* version of the policy file
  ast,     \* the parsed policy: [stamp, version], or None
  entries, \* the store: [content, verdict, approved, fresh] by URL, or None
  lock,    \* who holds the store's mutex: a call, "human" or None
  file,    \* digests.json: what it holds, None while truncated
  judged,  \* history: <<url, content, verdict>> of every scan
  approvals, \* history: <<url, content>> approved by a human
  out      \* history: <<call, url, content, result>>

detectorVars == <<at, job, seen, used, policy, ast, entries, lock, file, judged,
          approvals, out>>

Entries == [content : Contents, verdict : Verdicts, approved : BOOLEAN,
            fresh : BOOLEAN]

ASSUME DetectorAssumption ==
  /\ Protected \subseteq Urls
  /\ None \notin Contents \cup Verdicts \cup Fetches \cup Entries
  /\ "human" \notin Fetches
  /\ MaxEdits \in Nat

Empty == [u \in Urls |-> None]

DetectorInit ==
  /\ at = [f \in Fetches |-> "idle"]
  /\ job \in [Fetches -> [kind : {"fetch", "tool"}, url : Urls,
                          content : {None}, verdict : {None}]]
  /\ seen = [f \in Fetches |-> 0]
  /\ used = [f \in Fetches |-> 0]
  /\ policy = 1
  /\ ast = None
  /\ entries = Empty
  /\ lock = None
  /\ file = Empty
  /\ judged = {}
  /\ approvals = {}
  /\ out = {}

Continue(f, where) == at' = [at EXCEPT ![f] = where]

persistent == <<entries, lock, file>>

Deliver(f, c, result) ==
  /\ Continue(f, "done")
  /\ out' = out \cup {<<f, job[f].url, c, result>>}

-----------------------------------------------------------------------------
(* The rate limiter (see TokenBucket) may refuse a fetch at once.          *)
fetch(f) ==
  /\ at[f] = "idle"
  /\ job[f].kind = "fetch"
  /\ Continue(f, "get") \/ Continue(f, "refused")
  /\ UNCHANGED <<job, seen, used, policy, ast, persistent, judged, approvals, out>>

(* A failed request is refused; a protected URL's content is passed on.    *)
http_get(f) ==
  /\ at[f] = "get"
  /\ \/ /\ Continue(f, "refused")
        /\ UNCHANGED <<job, out>>
     \/ \E c \in Contents :
          /\ job' = [job EXCEPT ![f].content = c]
          /\ IF job[f].url \in Protected THEN Deliver(f, c, "ok")
             ELSE Continue(f, "lookup") /\ UNCHANGED out
  /\ UNCHANGED <<seen, used, policy, ast, persistent, judged, approvals>>

result_from_verdict(verdict, approved) ==
  IF approved THEN "ok"
  ELSE CASE verdict = "clean" -> "ok"
         [] verdict = "review" -> IF OverrideOnReview THEN "ok" ELSE "review"
         [] verdict = "unsafe" -> "blocked"

(* Mutant: any entry of the URL answers, whatever its digest.              *)
AnyEntry(u, c) == entries[u] # None /\ entries[u].fresh

(* DigestStore::get and the comparison of digests.                         *)
Hit(u, c) ==
  /\ entries[u] # None
  /\ entries[u].fresh
  /\ entries[u].content = c

lookup(f) ==
  LET u == job[f].url c == job[f].content IN
  /\ at[f] = "lookup"
  /\ lock = None
  /\ IF Hit(u, c)
     THEN Deliver(f, c, result_from_verdict(entries[u].verdict, entries[u].approved))
     ELSE Continue(f, "stat") /\ UNCHANGED out
  /\ UNCHANGED <<job, seen, used, policy, ast, persistent, judged, approvals>>

(* The hook on tool results scans what the profile intercepts.             *)
on_tool_result(f) ==
  /\ at[f] = "idle"
  /\ job[f].kind = "tool"
  /\ \E c \in Contents :
       /\ job' = [job EXCEPT ![f].content = c]
       /\ IF Intercepted THEN Continue(f, "stat") /\ UNCHANGED out
          ELSE Deliver(f, c, "unscanned")
  /\ UNCHANGED <<seen, used, policy, ast, persistent, judged, approvals>>

-----------------------------------------------------------------------------
(* The policy file: its metadata first, then its text, unless the cached   *)
(* syntax tree was parsed under the same metadata.                         *)
Stat(f) ==
  /\ at[f] = "stat"
  /\ seen' = [seen EXCEPT ![f] = policy]
  /\ Continue(f, "read")
  /\ UNCHANGED <<job, used, policy, ast, persistent, judged, approvals, out>>

(* Mutant: the text is parsed but kept under the file's current metadata    *)
(* although the cached tree may be older.                                   *)
KeepsOldTree(f) ==
  IF ast # None THEN [ast EXCEPT !.stamp = seen[f]]
  ELSE [stamp |-> seen[f], version |-> policy]

load_starlark_ast(f) ==
  IF ast # None /\ ast.stamp = seen[f] THEN ast
  ELSE [stamp |-> seen[f], version |-> policy]

(* The scan itself; a tool result is answered at once, a fetched page is    *)
(* remembered first.                                                       *)
scan(f) ==
  LET tree == load_starlark_ast(f) IN
  /\ at[f] = "read"
  /\ ast' = tree
  /\ used' = [used EXCEPT ![f] = tree.version]
  /\ \E result \in ScanResults :
       /\ job' = [job EXCEPT ![f].verdict = result.verdict]
       /\ judged' = judged \cup {<<job[f].url, job[f].content, result.verdict>>}
       /\ IF job[f].kind = "fetch" THEN Continue(f, "set") /\ UNCHANGED out
          ELSE Deliver(f, job[f].content,
                       CASE result.verdict = "clean" -> "ok"
                         [] result.verdict = "review" -> "review"
                         [] result.verdict = "unsafe" -> "blocked")
  /\ UNCHANGED <<seen, policy, persistent, approvals>>

-----------------------------------------------------------------------------
(* DigestStore::set, up to the truncation of the file ...                   *)
digest_set(f) ==
  /\ at[f] = "set"
  /\ lock = None
  /\ entries' = [entries EXCEPT ![job[f].url] =
                 [content |-> job[f].content, verdict |-> job[f].verdict,
                  approved |-> FALSE, fresh |-> TRUE]]
  /\ file' = None
  /\ lock' = f
  /\ Continue(f, "flush")
  /\ UNCHANGED <<job, seen, used, policy, ast, judged, approvals, out>>

(* ... and the write, after which the fetch answers.                        *)
flush(f) ==
  /\ at[f] = "flush"
  /\ file' = entries
  /\ lock' = None
  /\ Deliver(f, job[f].content, result_from_verdict(job[f].verdict, FALSE))
  /\ UNCHANGED <<job, seen, used, policy, ast, entries, judged, approvals>>

(* A human approves what a fetch reported as blocked or in review.          *)
mark_override(u, c) ==
  /\ lock = None
  /\ \E x \in out : x[2] = u /\ x[3] = c /\ x[4] \in {"blocked", "review"}
  /\ IF entries[u] # None /\ entries[u].content = c
     THEN /\ entries' = [entries EXCEPT ![u].approved = TRUE]
          /\ file' = None
          /\ lock' = "human"
          /\ approvals' = approvals \cup {<<u, c>>}
     ELSE UNCHANGED <<entries, file, lock, approvals>>
  /\ UNCHANGED <<at, job, seen, used, policy, ast, judged, out>>

flush_override ==
  /\ lock = "human"
  /\ file' = entries
  /\ lock' = None
  /\ UNCHANGED <<at, job, seen, used, policy, ast, entries, judged, approvals, out>>

expire(u) ==
  /\ DigestsExpire
  /\ lock = None
  /\ entries[u] # None
  /\ entries[u].fresh
  /\ entries' = [entries EXCEPT ![u].fresh = FALSE]
  /\ file' = IF file = None THEN file ELSE [file EXCEPT ![u].fresh = FALSE]
  /\ UNCHANGED <<at, job, seen, used, policy, ast, lock, judged, approvals, out>>

edit_policy ==
  /\ policy <= MaxEdits
  /\ policy' = policy + 1
  /\ UNCHANGED <<at, job, seen, used, ast, persistent, judged, approvals, out>>

(* DigestStore::open after a crash: an unreadable file is an empty store.   *)
load ==
  /\ \E f \in Fetches : at[f] \notin {"idle", "done", "refused"}
  /\ at' = [f \in Fetches |-> IF at[f] = "idle" THEN "idle"
                              ELSE IF at[f] = "done" THEN "done" ELSE "refused"]
  /\ entries' = IF file = None THEN Empty ELSE file
  /\ file' = IF file = None THEN Empty ELSE file
  /\ lock' = None
  /\ ast' = None
  /\ UNCHANGED <<job, seen, used, policy, judged, approvals, out>>

DetectorNext ==
  \/ \E f \in Fetches :
       \/ fetch(f) \/ http_get(f) \/ lookup(f) \/ on_tool_result(f) \/ Stat(f)
       \/ scan(f) \/ digest_set(f) \/ flush(f)
  \/ \E u \in Urls : expire(u) \/ \E c \in Contents : mark_override(u, c)
  \/ flush_override \/ edit_policy \/ load

DetectorSpec == DetectorInit /\ [][DetectorNext]_detectorVars

-----------------------------------------------------------------------------
(* What a fetch hands over as good was judged good: this very content was   *)
(* scanned for this URL with a passing verdict or a human approved it, also *)
(* when the verdict came from a cache that other fetches, approvals,        *)
(* expiries and crashes were rewriting (fetch, DigestStore).                *)
DeliveredWasJudged ==
  \A x \in out :
    x[4] = "ok" /\ x[2] \notin Protected =>
      \/ <<x[2], x[3], "clean">> \in judged
      \/ OverrideOnReview /\ <<x[2], x[3], "review">> \in judged
      \/ <<x[2], x[3]>> \in approvals

(* A scan runs a policy at least as new as the file was when the scan       *)
(* looked at it, whoever else was parsing the file in the meantime          *)
(* (load_starlark_ast looks at the metadata before it reads the text).      *)
PolicyNotStale == \A f \in Fetches : used[f] # 0 => used[f] >= seen[f]
=============================================================================
