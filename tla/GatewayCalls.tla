---------------------------- MODULE GatewayCalls ----------------------------
(* Upstream beside the modules of the model gateway, whose names it shares:  *)
(* its state and constants under names of their own, and its invariant.      *)

CONSTANTS Settings, Indexes, Calls, MaxEvents, Statuses, Absent

VARIABLES
  setting, at, retries, asked, events, acc, fault, got, told, sinks, sent

Call == INSTANCE Upstream WITH None <- Absent, pc <- at, attempt <- retries

callVars ==
  <<setting, at, retries, asked, events, acc, fault, got, told, sinks, sent>>

ASSUME CallsAssumption == Call!UpstreamAssumption

\* The client is answered what the provider sent
\* (parse_streaming_chat_completion).
StreamIsReassembled == Call!StreamIsReassembled
=============================================================================
