------------------------------- MODULE Scanner -------------------------------
(***************************************************************************)
(* The scanner pipeline of crates/adversary-detector: a sequence of        *)
(* checks, each a local Starlark policy or a remote service, and the one   *)
(* verdict they come to.  What a check finds in a text is an input here:   *)
(* an answer for each check, or "error" where it could not be run.         *)
(***************************************************************************)
EXTENDS Naturals, Sequences

CONSTANT Checks \* sequence of [kind : {"starlark", "remote"}, fail_closed]

Verdicts == {"clean", "review", "unsafe"}

Answers == Verdicts \cup {"error"}

CheckSet == [kind : {"starlark", "remote"}, fail_closed : BOOLEAN]

ASSUME ChecksAssumption == Checks \in Seq(CheckSet)

(* What one check contributes: a check that failed is unsafe if it is     *)
(* fail-closed and silent otherwise.                                      *)
starlark_check(check, answer) ==
  IF answer # "error" THEN answer
  ELSE IF check.fail_closed THEN "unsafe" ELSE "none"

remote_http_check(check, answer) ==
  IF answer # "error" THEN answer
  ELSE IF check.fail_closed THEN "unsafe" ELSE "none"

CheckVerdict(check, answer) ==
  IF check.kind = "remote" THEN remote_http_check(check, answer)
  ELSE starlark_check(check, answer)

(* The checks that are run: up to the first that says unsafe.             *)
Run(answers) ==
  {i \in DOMAIN Checks :
     \A j \in 1 .. (i - 1) : CheckVerdict(Checks[j], answers[j]) # "unsafe"}

(* The verdict of the pipeline: unsafe from anywhere, else the first      *)
(* review, else clean.                                                    *)
scan_with_remote_payload(answers) ==
  LET said == {CheckVerdict(Checks[i], answers[i]) : i \in Run(answers)} IN
  IF "unsafe" \in said THEN "unsafe"
  ELSE IF "review" \in said THEN "review"
  ELSE "clean"

(* Whether a remote service is given the text.                            *)
RemoteAsked(answers) == \E i \in Run(answers) : Checks[i].kind = "remote"

(* Everything a scan can come to.                                         *)
ScanResults ==
  {[verdict |-> scan_with_remote_payload(answers), asked |-> RemoteAsked(answers)]
     : answers \in [DOMAIN Checks -> Answers]}
=============================================================================
