------------------------ MODULE OpenClawChannelProofs ------------------------
(***************************************************************************)
(* Proofs about OpenClawChannel, for any number of dispatches over any     *)
(* number of sessions, any mix of message kinds and any retry limit.       *)
(*                                                                         *)
(* RunsOnce and FreshAnswer are not inductive.  The first needs to know    *)
(* that a dispatch that may still send has not been accepted by the plugin *)
(* yet, the second that a baseline and a mark are not moved once an answer *)
(* is under way, and how both relate to the growing session.               *)
(*                                                                         *)
(* And one about Adapters, for any messages to any kinds of adapters.      *)
(***************************************************************************)
EXTENDS OpenClawChannel, Adapters, TLAPS

Message == [of : Reqs, silent : BOOLEAN]
Callback == [req : Reqs, kind : {"reply", "note", "error"}, index : Nat]

ChannelTypeOK ==
  /\ input \in [Reqs -> Kinds]
  /\ pc \in [Reqs -> {"idle", "starting", "send", "wait"} \cup Over]
  /\ tries \in [Reqs -> Nat]
  /\ pending \in [Reqs \cup Sessions -> Reqs \cup {None}]
  /\ mail \in [Reqs -> Callback \cup {None}]
  /\ run \in [Reqs -> {"none", "accepted", "ready", "running", "recover", "ok",
                       "done"}]
  /\ base \in [Reqs -> Nat \cup {None}]
  /\ mark \in [Reqs -> Nat]
  /\ log \in [Sessions -> Seq(Message)]
  /\ calls \subseteq Callback
  /\ runs \in [Reqs -> Nat]

\* A dispatch that may still send its message was not accepted.
SentOnce ==
  \A r \in Reqs :
    /\ runs[r] <= 1
    /\ pc[r] \in {"idle", "starting", "send"} => runs[r] = 0 /\ run[r] = "none"

\* The router: a request is filed under its own id while it waits, and under
\* its session while it is the only one of it.
Filed ==
  /\ \A r \in Reqs : pending[r] # None => pending[r] = r /\ pc[r] \in {"send", "wait"}
  /\ \A s \in Sessions : pending[s] # None =>
       /\ pending[pending[s]] = pending[s]
       /\ SessionOf[pending[s]] = s
       /\ \A q \in Reqs : SessionOf[q] = s /\ pending[q] # None => q = pending[s]

\* Where the baseline and the mark of a run stand in its session.
Marked ==
  \A r \in Reqs :
    /\ run[r] \in {"none", "accepted"} => base[r] = None
    /\ base[r] # None => base[r] <= Len(Session(r))
    /\ run[r] \in {"running", "recover", "ok"} =>
         (base[r] # None => base[r] <= mark[r])
    /\ run[r] = "ok" /\ r \notin Native => Len(Session(r)) > mark[r]

\* An answer of its own request, fresh.
FreshFor(r, c) ==
  /\ c.req = r
  /\ run[r] = "done"
  /\ c.kind = "reply" => IF r \in Native THEN base[r] # None => c.index > base[r]
                         ELSE c.index > mark[r]

Answered ==
  /\ \A c \in calls : FreshFor(c.req, c)
  /\ \A r \in Reqs : mail[r] # None => FreshFor(r, mail[r]) /\ pending[r] = None

CInv ==
  /\ ChannelTypeOK
  /\ SentOnce
  /\ Filed
  /\ Marked
  /\ Answered

-----------------------------------------------------------------------------

LEMMA InitCInv == Init => CInv
<1> SUFFICES ASSUME Init PROVE CInv
  OBVIOUS
<1> USE ChannelAssumption DEF Init
<1>1. ChannelTypeOK
  BY DEF ChannelTypeOK
<1>2. SentOnce /\ Filed /\ Answered
  BY DEF SentOnce, Filed, Answered
<1>3. Marked
  BY DEF Marked
<1> QED
  BY <1>1, <1>2, <1>3 DEF CInv

\* The invariant gives what the runs check.
LEMMA CInvRunsOnce == CInv => RunsOnce
<1> SUFFICES ASSUME CInv PROVE RunsOnce
  OBVIOUS
<1> USE ChannelAssumption DEF CInv
<1>1. \A r \in Reqs : runs[r] <= 1 /\ (mail[r] # None => mail[r].req = r)
  BY DEF SentOnce, Answered, FreshFor
<1>2. ASSUME NEW k \in DOMAIN pending, pending[k] # None
      PROVE  LET r == pending[k] IN
             /\ pending[r] = r
             /\ pc[r] \notin Over
             /\ k \in Sessions =>
                  \A q \in Reqs \ {r} : SessionOf[q] = k => pending[q] = None
  <2>1. k \in Reqs \cup Sessions /\ pending[k] \in Reqs
    BY <1>2 DEF ChannelTypeOK
  <2>2. pending[pending[k]] = pending[k]
    BY <1>2, <2>1 DEF Filed
  <2>3. pc[pending[k]] \notin Over
    BY <2>1, <2>2 DEF Filed, Over
  <2> QED
    BY <1>2, <2>1, <2>2, <2>3 DEF Filed
<1> QED
  BY <1>1, <1>2 DEF RunsOnce

LEMMA CInvFresh == CInv => FreshAnswer
<1> SUFFICES ASSUME CInv, NEW r \in Reqs, NEW c \in RepliesTo(r)
             PROVE  IF r \in Native THEN base[r] # None => c.index > base[r]
                    ELSE c.index > mark[r]
  BY DEF FreshAnswer
<1>1. c.req = r /\ c.kind = "reply" /\ (c \in calls \/ (c = mail[r] /\ c # None))
  BY DEF RepliesTo
<1> QED
  BY <1>1 DEF CInv, Answered, FreshFor

-----------------------------------------------------------------------------
(* The steps of the adapter leave the plugin's runs alone.                 *)

\* A run that is not touched keeps its facts.
LEMMA PluginKept ==
  ASSUME CInv, UNCHANGED <<input, run, base, mark, log>>
  PROVE  Marked' /\ \A r \in Reqs : \A c : FreshFor(r, c) => FreshFor(r, c)'
<1>1. Marked'
  BY DEF CInv, Marked, Session, Native
<1>2. \A r \in Reqs : \A c : FreshFor(r, c) => FreshFor(r, c)'
  BY DEF FreshFor, Native
<1> QED
  BY <1>1, <1>2

\* A dispatch moves on without touching the router.
LEMMA MoveStep ==
  ASSUME CInv, NEW r \in Reqs, NEW p \in {"starting", "failed", "answered"},
         pc' = [pc EXCEPT ![r] = p], pending[r] = None,
         p = "starting" => pc[r] = "idle",
         UNCHANGED <<input, tries, pending, plugin, calls>>,
         mail' = mail \/ mail' = [mail EXCEPT ![r] = None]
  PROVE  CInv'
<1> USE DEF CInv, plugin
<1>1. ChannelTypeOK'
  BY DEF ChannelTypeOK, Over
<1>2. SentOnce'
  BY DEF SentOnce, ChannelTypeOK
<1>3. Filed'
  BY DEF Filed, ChannelTypeOK
<1>4. Answered' /\ Marked'
  BY PluginKept DEF Answered, ChannelTypeOK, Callback
<1> QED
  BY <1>1, <1>2, <1>3, <1>4

\* A dispatch is filed and goes on to send its message.
LEMMA InsertStep ==
  ASSUME CInv, NEW r \in Reqs, pc[r] = "starting",
         pending' = insert_with_auth(r), pc' = [pc EXCEPT ![r] = "send"],
         UNCHANGED <<input, tries, mail, plugin, calls>>
  PROVE  CInv'
<1> USE ChannelAssumption DEF CInv, plugin
<1> DEFINE s == SessionOf[r]
           others == \E k \in DOMAIN pending : /\ pending[k] \notin {None, r}
                                               /\ SessionOf[pending[k]] = s
<1>1. s \in Sessions /\ s # r /\ r \notin Sessions /\ s \notin Reqs
  OBVIOUS
<1>2. pending' = [pending EXCEPT ![r] = r, ![s] = IF others THEN None ELSE r]
  BY DEF insert_with_auth
<1>3. /\ pending'[r] = r
      /\ pending'[s] = IF others THEN None ELSE r
      /\ \A k \in Reqs \cup Sessions : k # r /\ k # s => pending'[k] = pending[k]
  BY <1>1, <1>2 DEF ChannelTypeOK
<1>4. ChannelTypeOK'
  <2>1. pending' \in [Reqs \cup Sessions -> Reqs \cup {None}]
    BY <1>1, <1>2 DEF ChannelTypeOK
  <2> HIDE DEF others
  <2> QED
    BY <2>1 DEF ChannelTypeOK
<1>5. SentOnce'
  BY DEF SentOnce, ChannelTypeOK
<1>6. pending[r] = None /\ \A k \in Reqs \cup Sessions : pending[k] # r
  <2>1. pending[r] = None
    BY DEF Filed
  <2>2. \A k \in Reqs : pending[k] # r
    BY <2>1 DEF Filed
  <2> QED
    BY <2>1, <2>2 DEF Filed
<1>7. \A q \in Reqs : pending'[q] # None =>
        pending'[q] = q /\ pc'[q] \in {"send", "wait"}
  <2>1. pc'[r] = "send" /\ \A q \in Reqs : q # r => pc'[q] = pc[q]
    BY DEF ChannelTypeOK
  <2>2. \A q \in Reqs : q # r => pending'[q] = pending[q]
    BY <1>1, <1>3
  <2> QED
    BY <2>1, <2>2, <1>3 DEF Filed
<1>8. ASSUME NEW u \in Sessions, pending'[u] # None
      PROVE  /\ pending'[pending'[u]] = pending'[u]
             /\ SessionOf[pending'[u]] = u
             /\ \A q \in Reqs : SessionOf[q] = u /\ pending'[q] # None => q = pending'[u]
  <2>1. CASE u = s
    <3>1. ~others /\ pending'[u] = r
      BY <2>1, <1>3, <1>8
    <3>2. ASSUME NEW q \in Reqs, SessionOf[q] = s, q # r
          PROVE  pending[q] = None
      <4>1. q \in DOMAIN pending
        BY DEF ChannelTypeOK
      <4>2. CASE pending[q] # None
        BY <3>1, <3>2, <4>1, <4>2 DEF Filed
      <4> QED
        BY <4>2
    <3> QED
      BY <2>1, <3>1, <3>2, <1>1, <1>3
  <2>2. CASE u # s
    <3>1. pending'[u] = pending[u] /\ pending[u] # r
      BY <2>2, <1>1, <1>3, <1>6
    <3>2. pending[u] \in Reqs
      BY <3>1, <1>8 DEF ChannelTypeOK
    <3>3. pending'[pending[u]] = pending[pending[u]]
      BY <3>1, <3>2, <1>1, <1>3
    <3> QED
      BY <2>2, <3>1, <3>2, <3>3, <1>1, <1>3, <1>8 DEF Filed
  <2> QED
    BY <2>1, <2>2
<1>9. Filed'
  BY <1>7, <1>8 DEF Filed
<1>10. Marked' /\ Answered'
  <2>1. mail[r] = None
    BY DEF Answered, SentOnce, FreshFor
  <2>2. \A q \in Reqs : q # r => pending'[q] = pending[q]
    BY <1>1, <1>3
  <2> QED
    BY <2>1, <2>2, PluginKept DEF Answered, ChannelTypeOK, Callback
<1> QED
  BY <1>4, <1>5, <1>9, <1>10

\* remove forgets a request under both of its keys and nothing else.
LEMMA WithoutKeepsFiled ==
  ASSUME CInv, NEW r \in Reqs, pending' = Without(r),
         \A q \in Reqs : q # r => pc'[q] = pc[q]
  PROVE  /\ Filed'
         /\ pending' \in [Reqs \cup Sessions -> Reqs \cup {None}]
         /\ \A q \in Reqs : pending[q] = None => pending'[q] = None
         /\ pending'[r] = None
<1> USE DEF CInv, Without
<1>1. DOMAIN pending = Reqs \cup Sessions
  BY DEF ChannelTypeOK
<1>2. \A k \in Reqs \cup Sessions :
        pending'[k] = IF pending[k] = r THEN None ELSE pending[k]
  BY <1>1
<1>3. pending' \in [Reqs \cup Sessions -> Reqs \cup {None}]
  BY <1>1 DEF ChannelTypeOK
<1>4. pending'[r] = None
  BY <1>2 DEF Filed
<1>5. \A q \in Reqs : pending'[q] # None =>
        pending'[q] = q /\ pc'[q] \in {"send", "wait"}
  BY <1>2, <1>4 DEF Filed
<1>6. ASSUME NEW u \in Sessions, pending'[u] # None
      PROVE  /\ pending'[pending'[u]] = pending'[u]
             /\ SessionOf[pending'[u]] = u
             /\ \A q \in Reqs : SessionOf[q] = u /\ pending'[q] # None => q = pending'[u]
  <2>1. pending'[u] = pending[u] /\ pending[u] # r /\ pending[u] \in Reqs
    BY <1>2, <1>6 DEF ChannelTypeOK
  <2>2. pending'[pending[u]] = pending[u]
    BY <2>1, <1>2, <1>6 DEF Filed
  <2> QED
    BY <2>1, <2>2, <1>2, <1>6 DEF Filed
<1> QED
  BY <1>2, <1>3, <1>4, <1>5, <1>6 DEF Filed

\* A dispatch gives up, or its message is accepted.
LEMMA FailStep ==
  ASSUME CInv, NEW r \in Reqs, pc[r] \in {"send", "wait"},
         \E how \in Over : Fail(r, how),
         UNCHANGED <<input, mail, base, mark, log, calls>>,
         tries' \in [Reqs -> Nat],
         \/ UNCHANGED <<run, runs>>
         \/ /\ pc[r] = "send"
            /\ run' = [run EXCEPT ![r] = "accepted"]
            /\ runs' = [runs EXCEPT ![r] = @ + 1]
  PROVE  CInv'
<1> USE DEF CInv
<1>1. PICK how \in Over : pc' = [pc EXCEPT ![r] = how] /\ pending' = Without(r)
  BY DEF Fail
<1>2. /\ Filed'
      /\ pending' \in [Reqs \cup Sessions -> Reqs \cup {None}]
      /\ \A q \in Reqs : pending[q] = None => pending'[q] = None
  BY <1>1, WithoutKeepsFiled DEF ChannelTypeOK
<1>3. ChannelTypeOK'
  <2>1. pc' \in [Reqs -> {"idle", "starting", "send", "wait"} \cup Over]
    BY <1>1 DEF ChannelTypeOK
  <2>2. runs' \in [Reqs -> Nat]
    <3>1. runs \in [Reqs -> Nat] /\ runs[r] + 1 \in Nat
      BY DEF ChannelTypeOK
    <3> QED
      BY <3>1
  <2>3. run' \in [Reqs -> {"none", "accepted", "ready", "running", "recover",
                            "ok", "done"}]
    BY DEF ChannelTypeOK
  <2> QED
    BY <1>2, <2>1, <2>2, <2>3 DEF ChannelTypeOK
<1>4. SentOnce'
  <2>1. /\ pc'[r] \in Over
        /\ \A q \in Reqs : q # r => pc'[q] = pc[q] /\ run'[q] = run[q] /\ runs'[q] = runs[q]
    BY <1>1 DEF ChannelTypeOK
  <2>2. runs'[r] <= 1
    BY DEF SentOnce, ChannelTypeOK
  <2> QED
    BY <2>1, <2>2 DEF SentOnce, Over
<1>5. Marked'
  BY DEF Marked, SentOnce, Session, Native, ChannelTypeOK
<1>6. \A i \in Reqs : \A c : FreshFor(i, c) => FreshFor(i, c)'
  BY DEF FreshFor, Native, SentOnce, ChannelTypeOK
<1>7. Answered'
  BY <1>2, <1>6 DEF Answered, ChannelTypeOK, Callback
<1> QED
  BY <1>2, <1>3, <1>4, <1>5, <1>7

\* The message is accepted and the dispatch waits.
LEMMA AcceptedStep ==
  ASSUME CInv, NEW r \in Reqs, pc[r] = "send", pc' = [pc EXCEPT ![r] = "wait"],
         run' = [run EXCEPT ![r] = "accepted"], runs' = [runs EXCEPT ![r] = @ + 1],
         tries' \in [Reqs -> Nat],
         UNCHANGED <<input, pending, mail, base, mark, log, calls>>
  PROVE  CInv'
<1> USE DEF CInv
<1>1. ChannelTypeOK'
  <2>1. runs' \in [Reqs -> Nat]
    <3>1. runs \in [Reqs -> Nat] /\ runs[r] + 1 \in Nat
      BY DEF ChannelTypeOK
    <3> QED
      BY <3>1
  <2> QED
    BY <2>1 DEF ChannelTypeOK
<1>2. SentOnce'
  BY DEF SentOnce, ChannelTypeOK
<1>3. Filed'
  BY DEF Filed, ChannelTypeOK
<1>4. Marked'
  BY DEF Marked, SentOnce, Session, Native, ChannelTypeOK
<1>5. \A i \in Reqs : \A c : FreshFor(i, c) => FreshFor(i, c)'
  BY DEF FreshFor, Native, SentOnce, ChannelTypeOK
<1>6. Answered'
  BY <1>5 DEF Answered, ChannelTypeOK, Callback
<1> QED
  BY <1>1, <1>2, <1>3, <1>4, <1>6

\* A callback reaches the dispatch of its request, or nobody.
LEMMA ReplyStep ==
  ASSUME CInv, NEW c \in calls, handle_reply(c)
  PROVE  CInv'
<1> USE DEF CInv
<1>1. /\ c \in Callback /\ c.req \in Reqs
      /\ UNCHANGED <<input, pc, tries, plugin>>
      /\ calls' \subseteq calls
  BY DEF handle_reply, ChannelTypeOK, Callback
<1>2. Marked' /\ \A i \in Reqs : \A d : FreshFor(i, d) => FreshFor(i, d)'
  BY <1>1, PluginKept DEF plugin
<1>3. SentOnce'
  BY <1>1 DEF SentOnce, plugin
<1>4. CASE take_authorized(c)
  <2> DEFINE r == pending[c.req]
  <2>1. r = c.req /\ r \in Reqs
    BY <1>1, <1>4 DEF take_authorized, Filed
  <2>2. /\ pending' = Without(r)
        /\ mail' = mail \/ mail' = [mail EXCEPT ![r] = c]
    BY <1>4 DEF handle_reply
  <2> HIDE DEF r
  <2>3. /\ Filed'
        /\ pending' \in [Reqs \cup Sessions -> Reqs \cup {None}]
        /\ \A q \in Reqs : pending[q] = None => pending'[q] = None
        /\ pending'[r] = None
    BY <1>1, <2>1, <2>2, WithoutKeepsFiled
  <2>4. ChannelTypeOK'
    <3>1. mail' \in [Reqs -> Callback \cup {None}]
      BY <1>1, <2>1, <2>2 DEF ChannelTypeOK
    <3>2. calls' \subseteq Callback
      BY <1>1 DEF ChannelTypeOK
    <3> QED
      BY <1>1, <2>3, <3>1, <3>2 DEF ChannelTypeOK, plugin
  <2>5. FreshFor(r, c)
    BY <2>1 DEF Answered
  <2>6. Answered'
    <3>1. \A d \in calls' : FreshFor(d.req, d)'
      BY <1>1, <1>2 DEF Answered, ChannelTypeOK, Callback
    <3>2. ASSUME NEW i \in Reqs, mail'[i] # None
          PROVE  FreshFor(i, mail'[i]) /\ pending'[i] = None
      BY <2>1, <2>2, <2>3, <2>5, <3>2 DEF Answered, ChannelTypeOK
    <3> QED
      BY <3>1, <3>2, <1>2 DEF Answered
  <2> QED
    BY <1>2, <1>3, <2>3, <2>4, <2>6
<1>5. CASE ~take_authorized(c)
  <2>1. UNCHANGED <<pending, mail>>
    BY <1>5 DEF handle_reply
  <2>2. ChannelTypeOK' /\ Filed'
    BY <1>1, <2>1 DEF ChannelTypeOK, Filed, plugin
  <2>3. Answered'
    BY <1>1, <1>2, <2>1 DEF Answered, ChannelTypeOK, Callback
  <2> QED
    BY <1>2, <1>3, <2>2, <2>3
<1> QED
  BY <1>4, <1>5

-----------------------------------------------------------------------------
(* The steps of the plugin leave the adapter alone.                        *)

\* What a plugin step must show of the run it moves.
LEMMA PluginStep ==
  ASSUME CInv, NEW r \in Reqs, UNCHANGED <<adapter, log, runs>>,
         run[r] \notin {"none", "done"},
         NEW p \in {"ready", "running", "recover", "ok", "done"},
         run' = [run EXCEPT ![r] = p],
         base' \in [Reqs -> Nat \cup {None}], mark' \in [Reqs -> Nat],
         \A i \in Reqs : i # r => base'[i] = base[i] /\ mark'[i] = mark[i],
         base'[r] # None => base'[r] <= Len(Session(r)),
         p \in {"running", "recover", "ok"} =>
           (base'[r] # None => base'[r] <= mark'[r]),
         p = "ok" /\ r \notin Native => Len(Session(r)) > mark'[r],
         \/ calls' = calls
         \/ \E c \in Callback :
              calls' = calls \cup {c} /\ FreshFor(r, c)'
  PROVE  CInv'
<1> USE DEF CInv, adapter
<1>1. ChannelTypeOK'
  BY DEF ChannelTypeOK
<1>2. SentOnce'
  BY DEF SentOnce, ChannelTypeOK
<1>3. Filed'
  BY DEF Filed
<1>4. Marked'
  BY DEF Marked, Session, Native, ChannelTypeOK
<1>5. \A i \in Reqs : i # r => \A c : FreshFor(i, c) => FreshFor(i, c)'
  BY DEF FreshFor, Native, ChannelTypeOK
<1>6. \A c : ~FreshFor(r, c)
  BY DEF FreshFor
<1>7. Answered'
  <2>1. \A c \in calls' : FreshFor(c.req, c)'
    <3>1. \A c \in calls : c.req \in Reqs /\ c.req # r /\ FreshFor(c.req, c)
      BY <1>6 DEF Answered, ChannelTypeOK, Callback
    <3>2. \A c \in calls : FreshFor(c.req, c)'
      BY <3>1, <1>5
    <3>3. ASSUME NEW c, FreshFor(r, c)' PROVE FreshFor(c.req, c)'
      BY <3>3 DEF FreshFor
    <3> QED
      BY <3>2, <3>3
  <2>2. \A i \in Reqs : mail[i] # None =>
          i # r /\ FreshFor(i, mail[i])' /\ pending'[i] = None
    BY <1>5, <1>6 DEF Answered
  <2> QED
    BY <2>1, <2>2 DEF Answered
<1> QED
  BY <1>1, <1>2, <1>3, <1>4, <1>7

\* The agent writes: sessions only grow.
LEMMA WriteStep ==
  ASSUME CInv, NEW r \in Reqs, agent_writes(r)
  PROVE  CInv'
<1> USE ChannelAssumption DEF CInv, adapter
<1>1. PICK silent \in BOOLEAN :
        log' = [log EXCEPT ![SessionOf[r]] = Append(@, [of |-> r, silent |-> silent])]
  BY DEF agent_writes
<1> DEFINE m == [of |-> r, silent |-> silent]
<1>2. UNCHANGED <<input, pc, tries, pending, mail, run, base, mark, calls, runs>>
  BY DEF agent_writes
<1>3. SessionOf[r] \in Sessions /\ m \in Message
  BY DEF Message
<1>4. \A s \in Sessions : log[s] \in Seq(Message)
  BY DEF ChannelTypeOK
<1>5. \A s \in Sessions : log'[s] = IF s = SessionOf[r] THEN Append(log[s], m) ELSE log[s]
  BY <1>1, <1>3 DEF ChannelTypeOK
<1>6. \A s \in Sessions : log'[s] \in Seq(Message) /\ Len(log'[s]) >= Len(log[s])
  <2>1. ASSUME NEW q \in Seq(Message)
        PROVE  Append(q, m) \in Seq(Message) /\ Len(Append(q, m)) >= Len(q) /\ Len(q) >= Len(q)
    BY <1>3
  <2> QED
    BY <1>4, <1>5, <2>1
<1>7. log' \in [Sessions -> Seq(Message)]
  BY <1>1, <1>6 DEF ChannelTypeOK
<1>8. ChannelTypeOK' /\ SentOnce' /\ Filed'
  BY <1>2, <1>7 DEF ChannelTypeOK, SentOnce, Filed
<1>9. \A i \in Reqs : \A c : FreshFor(i, c) => FreshFor(i, c)'
  BY <1>2 DEF FreshFor, Native
<1>10. Answered'
  BY <1>2, <1>9 DEF Answered, ChannelTypeOK, Callback
<1>11. \A i \in Reqs : /\ Len(Session(i)) \in Nat /\ Len(Session(i))' \in Nat
                        /\ Len(Session(i))' >= Len(Session(i))
  BY <1>4, <1>6 DEF Session
<1>12. Marked'
  <2> SUFFICES ASSUME NEW i \in Reqs
               PROVE  /\ run[i] \in {"none", "accepted"} => base[i] = None
                      /\ base[i] # None => base[i] <= Len(Session(i))'
                      /\ run[i] \in {"running", "recover", "ok"} =>
                           (base[i] # None => base[i] <= mark[i])
                      /\ run[i] = "ok" /\ i \notin Native => Len(Session(i))' > mark[i]
    BY <1>2 DEF Marked, Native
  <2>1. mark[i] \in Nat /\ (base[i] # None => base[i] \in Nat)
    BY DEF ChannelTypeOK
  <2> QED
    BY <2>1, <1>11 DEF Marked
<1> QED
  BY <1>8, <1>10, <1>12

\* A run ends with an answer that is posted or lost.
LEMMA DeliverStep ==
  ASSUME CInv, NEW r \in Reqs, run[r] \in {"accepted", "ready", "recover", "ok"},
         NEW kind \in {"reply", "note", "error"}, NEW index \in Nat,
         deliverReply(r, kind, index), UNCHANGED <<adapter, base, mark, log, runs>>,
         kind = "reply" => IF r \in Native THEN base[r] # None => index > base[r]
                           ELSE index > mark[r]
  PROVE  CInv'
<1> DEFINE c == [req |-> r, kind |-> kind, index |-> index]
<1>1. c \in Callback
  BY DEF Callback
<1>2. /\ run' = [run EXCEPT ![r] = "done"]
      /\ calls' = calls \cup {c} \/ calls' = calls
  BY DEF deliverReply
<1>3. FreshFor(r, c)'
  BY <1>2 DEF FreshFor, Native, CInv, ChannelTypeOK, adapter
<1>4. /\ base' \in [Reqs -> Nat \cup {None}] /\ mark' \in [Reqs -> Nat]
      /\ base'[r] # None => base'[r] <= Len(Session(r))
  BY DEF CInv, ChannelTypeOK, Marked
<1> HIDE DEF c
<1> QED
  BY <1>1, <1>2, <1>3, <1>4, PluginStep

\* Every step of the adapter, the plugin and the agent preserves the
\* invariant.
LEMMA NextCInv == CInv /\ [Next]_vars => CInv'
<1> SUFFICES ASSUME CInv, [Next]_vars PROVE CInv'
  OBVIOUS
<1>0. /\ ChannelTypeOK
      /\ \A r \in Reqs : SessionOf[r] \in Sessions /\ Len(Session(r)) \in Nat
  BY ChannelAssumption DEF CInv, ChannelTypeOK, Session
<1>1. CASE ReplyServer_run \/ UNCHANGED vars
  <2>1. UNCHANGED <<input, pc, tries, pending, mail, plugin, calls>>
    BY <1>1 DEF ReplyServer_run, vars, plugin
  <2>2. ChannelTypeOK' /\ SentOnce' /\ Filed'
    BY <2>1 DEF CInv, ChannelTypeOK, SentOnce, Filed, plugin
  <2>3. Marked' /\ Answered'
    BY <2>1, PluginKept DEF CInv, Answered, ChannelTypeOK, Callback, plugin
  <2> QED
    BY <2>2, <2>3 DEF CInv
<1>2. ASSUME NEW c \in calls, handle_reply(c)
      PROVE  CInv'
  BY <1>2, ReplyStep
<1>3. ASSUME NEW r \in Reqs, ensure_reply_server_started(r)
      PROVE  CInv'
  <2>1. pending[r] = None
    BY <1>3 DEF ensure_reply_server_started, CInv, Filed
  <2> QED
    BY <1>3, <2>1, MoveStep DEF ensure_reply_server_started
<1>4. ASSUME NEW r \in Reqs, dispatch_message_with_context(r)
      PROVE  CInv'
  <2>1. CASE server = "up" /\ pending' = insert_with_auth(r) /\ pc' = [pc EXCEPT ![r] = "send"]
    BY <1>4, <2>1, InsertStep DEF dispatch_message_with_context
  <2>2. CASE pc' = [pc EXCEPT ![r] = "failed"] /\ UNCHANGED pending
    <3>1. pending[r] = None
      BY <1>4 DEF dispatch_message_with_context, CInv, Filed
    <3> QED
      BY <1>4, <2>2, <3>1, MoveStep DEF dispatch_message_with_context
  <2> QED
    BY <1>4, <2>1, <2>2 DEF dispatch_message_with_context
<1>5. ASSUME NEW r \in Reqs, connect_fails(r)
      PROVE  CInv'
  <2>1. CASE tries' = [tries EXCEPT ![r] = @ + 1] /\ UNCHANGED <<pc, pending>>
    <3>1. UNCHANGED <<input, pc, pending, mail, plugin, calls>> /\ tries' \in [Reqs -> Nat]
      BY <1>0, <1>5, <2>1 DEF connect_fails, ChannelTypeOK
    <3>2. ChannelTypeOK' /\ SentOnce' /\ Filed'
      BY <3>1 DEF CInv, ChannelTypeOK, SentOnce, Filed, plugin
    <3>3. Marked' /\ Answered'
      BY <3>1, PluginKept DEF CInv, Answered, ChannelTypeOK, Callback, plugin
    <3> QED
      BY <3>2, <3>3 DEF CInv
  <2>2. CASE Fail(r, "failed") /\ UNCHANGED tries
    BY <1>0, <1>5, <2>2, FailStep DEF connect_fails, plugin, Over, ChannelTypeOK
  <2> QED
    BY <1>5, <2>1, <2>2 DEF connect_fails
<1>6. ASSUME NEW r \in Reqs, send_inbound_with_retries(r)
      PROVE  CInv'
  <2>1. /\ pc[r] = "send" /\ tries' \in [Reqs -> Nat]
        /\ UNCHANGED <<input, mail, base, mark, log, calls>>
    BY <1>0, <1>6 DEF send_inbound_with_retries, LostResponse, ChannelTypeOK
  <2>2. CASE r \notin Routable
    BY <1>6, <2>1, <2>2, FailStep DEF send_inbound_with_retries, Over
  <2>3. CASE r \in Routable /\ LostResponse(r)
    BY <1>6, <2>1, <2>3, FailStep DEF send_inbound_with_retries, LostResponse, Over
  <2>4. CASE r \in Routable /\ pc' = [pc EXCEPT ![r] = "wait"] /\ UNCHANGED pending
    BY <1>6, <2>1, <2>4, AcceptedStep DEF send_inbound_with_retries
  <2> QED
    BY <1>6, <2>2, <2>3, <2>4 DEF send_inbound_with_retries
<1>7. ASSUME NEW r \in Reqs, receive(r)
      PROVE  CInv'
  <2>1. pending[r] = None
    BY <1>7 DEF receive, CInv, Answered
  <2> QED
    BY <1>7, <2>1, MoveStep DEF receive
<1>8. ASSUME NEW r \in Reqs, timeout(r)
      PROVE  CInv'
  BY <1>0, <1>8, FailStep DEF timeout, plugin, Over, ChannelTypeOK
<1>9. ASSUME NEW r \in Reqs, ReadBaseline(r)
      PROVE  CInv'
  <2>1. base' \in [Reqs -> Nat \cup {None}] /\ mark' \in [Reqs -> Nat]
    BY <1>0, <1>9 DEF ReadBaseline, ChannelTypeOK
  <2>2. base[r] = None
    BY <1>9 DEF ReadBaseline, CInv, Marked
  <2>3. base'[r] # None => base'[r] <= Len(Session(r))
    BY <1>0, <1>9, <2>2 DEF ReadBaseline, ChannelTypeOK
  <2>4. \A i \in Reqs : i # r => base'[i] = base[i] /\ mark'[i] = mark[i]
    BY <1>0, <1>9 DEF ReadBaseline, ChannelTypeOK
  <2>5. /\ run[r] = "accepted" /\ run' = [run EXCEPT ![r] = "ready"]
        /\ UNCHANGED <<adapter, log, runs, calls>>
    BY <1>9 DEF ReadBaseline
  <2> QED
    BY <2>1, <2>3, <2>4, <2>5, PluginStep
<1>10. ASSUME NEW r \in Reqs, StartRun(r)
       PROVE  CInv'
  <2>1. /\ run[r] = "ready" /\ run' = [run EXCEPT ![r] = "running"]
        /\ UNCHANGED <<adapter, base, log, runs, calls>>
        /\ base' \in [Reqs -> Nat \cup {None}] /\ mark' \in [Reqs -> Nat]
        /\ mark'[r] = Len(Session(r))
        /\ \A i \in Reqs : i # r => base'[i] = base[i] /\ mark'[i] = mark[i]
    BY <1>0, <1>10 DEF StartRun, ChannelTypeOK
  <2>2. base'[r] # None => base'[r] <= Len(Session(r))
    BY <2>1 DEF CInv, Marked
  <2> QED
    BY <2>1, <2>2, PluginStep
<1>11. ASSUME NEW r \in Reqs, waitForRun(r)
       PROVE  CInv'
  <2>1. /\ run[r] = "running"
        /\ UNCHANGED <<adapter, base, mark, log, runs, calls>>
        /\ base' \in [Reqs -> Nat \cup {None}] /\ mark' \in [Reqs -> Nat]
    BY <1>0, <1>11 DEF waitForRun, ChannelTypeOK
  <2>2. base'[r] # None => base'[r] <= Len(Session(r)) /\ base'[r] <= mark'[r]
    BY <2>1 DEF CInv, Marked
  <2>3. Wrote(r) => Len(Session(r)) > mark'[r]
    <3>1. Session(r) \in Seq(Message) /\ mark[r] \in Nat
      BY <1>0 DEF Session, ChannelTypeOK
    <3> QED
      BY <2>1, <3>1 DEF Wrote
  <2>4. \E p \in {"recover", "ok"} :
          /\ run' = [run EXCEPT ![r] = p]
          /\ p = "ok" /\ r \notin Native => Len(Session(r)) > mark'[r]
    BY <1>11, <2>3 DEF waitForRun
  <2> QED
    BY <2>1, <2>2, <2>4, PluginStep
<1>12. ASSUME NEW r \in Reqs, agent_writes(r)
       PROVE  CInv'
  BY <1>12, WriteStep
<1>13. ASSUME NEW r \in Reqs,
              \/ dispatch_error(r) \/ dispatchViaSubagentRuntime(r)
              \/ recoverReplyAfterRunError(r) \/ dispatchViaChannelRuntime(r)
       PROVE  CInv'
  <2>1. /\ run[r] \in {"accepted", "ready", "recover", "ok"}
        /\ UNCHANGED <<adapter, base, mark, log, runs>>
    BY <1>13
    DEF dispatch_error, dispatchViaSubagentRuntime, recoverReplyAfterRunError,
        dispatchViaChannelRuntime
  <2>2. /\ base[r] # None => base[r] \in Nat /\ base[r] <= Len(Session(r))
        /\ run[r] = "ok" => (base[r] # None => base[r] <= mark[r])
        /\ run[r] = "ok" /\ r \notin Native => Len(Session(r)) > mark[r]
        /\ mark[r] \in Nat
    BY <1>0 DEF CInv, Marked, ChannelTypeOK
  <2>3. /\ isNewReply(r) /\ base[r] # None => Last(r) > base[r]
        /\ isRecoverableReply(r) => Last(r) > mark[r]
        /\ Last(r) \in Nat
    BY <1>0, <2>2 DEF isNewReply, isRecoverableReply, Last
  <2>4. CASE \E kind \in {"note", "error"} : deliverReply(r, kind, 0)
    BY <2>1, <2>4, DeliverStep
  <2>5. CASE dispatchViaSubagentRuntime(r) /\ deliverReply(r, "reply", Last(r))
    <3>1. r \notin Native /\ run[r] = "ok"
      BY <2>5 DEF dispatchViaSubagentRuntime
    <3> QED
      BY <2>1, <2>2, <2>3, <2>5, <3>1, DeliverStep DEF Last
  <2>6. CASE recoverReplyAfterRunError(r) /\ isRecoverableReply(r) /\ deliverReply(r, "reply", Last(r))
    BY <2>1, <2>3, <2>6, DeliverStep DEF isRecoverableReply
  <2>7. ASSUME r \in Native, run[r] = "ok", NEW i \in DOMAIN Session(r), i > mark[r],
               deliverReply(r, "reply", i)
        PROVE  CInv'
    <3>1. Session(r) \in Seq(Message)
      BY <1>0 DEF Session, ChannelTypeOK
    <3>2. i \in Nat /\ (base[r] # None => i > base[r])
      BY <3>1, <2>2, <2>7
    <3> QED
      BY <2>1, <2>7, <3>2, DeliverStep
  <2>8. CASE r \in Native /\ isNewReply(r) /\ deliverReply(r, "reply", Last(r))
    BY <2>1, <2>3, <2>8, DeliverStep
  <2>9. CASE dispatch_error(r)
    BY <2>4, <2>9 DEF dispatch_error
  <2>10. CASE dispatchViaSubagentRuntime(r)
    BY <2>4, <2>5, <2>10 DEF dispatchViaSubagentRuntime
  <2>11. CASE recoverReplyAfterRunError(r)
    BY <2>4, <2>6, <2>11 DEF recoverReplyAfterRunError
  <2>12. CASE dispatchViaChannelRuntime(r)
    BY <2>4, <2>7, <2>8, <2>12 DEF dispatchViaChannelRuntime, isRecoverableReply
  <2> QED
    BY <1>13, <2>9, <2>10, <2>11, <2>12
<1> QED
  BY <1>1, <1>2, <1>3, <1>4, <1>5, <1>6, <1>7, <1>8, <1>9, <1>10, <1>11, <1>12,
     <1>13
  DEF Next

LEMMA AlwaysCInv == Spec => []CInv
  BY InitCInv, NextCInv, PTL DEF Spec

-----------------------------------------------------------------------------

\* However connections fail, callbacks are lost and dispatches time out, the
\* agent runs at most once on a message, and the router never leads a
\* callback to another dispatch.
THEOREM AgentRunsOnce == Spec => []RunsOnce
  BY CInvRunsOnce, AlwaysCInv, PTL

\* An answer was written after its run began, also when it was recovered
\* from a session in which other requests were running.
THEOREM AnswersAreFresh == Spec => []FreshAnswer
  BY CInvFresh, AlwaysCInv, PTL

-----------------------------------------------------------------------------
(* The other adapters.                                                     *)

\* How often an agent has worked on the message at most when acpx starts a
\* child for a step; the other adapters stay at the first.
Before(s) == IF s = "prompt" THEN 0 ELSE IF s = "exec" THEN 2 ELSE 1

\* A child that has not worked yet, or never does on the message itself.
Fresh(d) ==
  \/ at[d] \in {"idle", "spawn"}
  \/ child[d] \in {"up", "reads"}
  \/ step[d] \in {"list", "ensure"}

\* Children of the command line adapters: one at a time, none once the answer
\* is there, and each works once.
RunsInv(d) ==
  /\ task[d] = "none"
  /\ at[d] \in {"idle", "spawn", "feed", "wait", "drain", "scan", "over"}
  /\ at[d] \in {"idle", "spawn", "scan", "over"} => child[d] \notin Alive
  /\ at[d] = "drain" => Kind(d) = "cli"
  /\ step[d] \in {"prompt", "list", "ensure", "again", "exec"}
  /\ Kind(d) # "acpx" => step[d] = "prompt"
  /\ step[d] = "exec" => message[d].session = "none"
  /\ worked[d] <= Before(step[d]) + (IF Fresh(d) THEN 0 ELSE 1)

\* The one child of acp gets the prompt once.
AcpInv(d) ==
  /\ child[d] \notin {"reads", "worked"}
  /\ at[d] \in {"idle", "spawn"} => task[d] = "none"
  /\ at[d] \in {"idle", "spawn", "wait", "scan", "over"}
  /\ task[d] \in {"none", "initialize", "new"} => worked[d] = 0
  /\ worked[d] <= 1

\* The adapters that make one request have no child.
AsksInv(d) ==
  /\ child[d] = "none" /\ task[d] = "none"
  /\ at[d] \in {"idle", "ask", "scan", "over"}
  /\ at[d] \in {"idle", "ask"} => worked[d] = 0
  /\ worked[d] <= 1

\* Only codex-cli writes a file, and what it leaves there is its own; an
\* answer is of the dispatch, or comes from the file with the fixed path.
AnswerInv(d) ==
  /\ files[d] \in {Nothing, d, "blank"}
  /\ files[d] # Nothing => Kind(d) = "codex-cli" /\ Path(d) = d
  /\ result[d] = "ok" =>
       /\ at[d] \in {"scan", "over"}
       /\ reply[d] \in {d, "blank"} \/ Path(d) = "fixed"
       /\ files[d] = Nothing
  /\ at[d] = "scan" => result[d] = "ok"

DispatchInv(d) ==
  message[d] # Nothing =>
    /\ Kind(d) \in Runs => RunsInv(d)
    /\ Kind(d) = "acp" => AcpInv(d)
    /\ Kind(d) \in Asks => AsksInv(d)
    /\ AnswerInv(d)

\* The inductive invariant: besides what holds at the end of a dispatch, it
\* counts what each step of acpx may add, and says which children are alive
\* at which place and whose text is in which file.
AdaptersInv ==
  /\ \A d \in Dispatches : IsInput(message[d])
  /\ at = [d \in Dispatches |-> at[d]]
  /\ step = [d \in Dispatches |-> step[d]]
  /\ child = [d \in Dispatches |-> child[d]]
  /\ files = [p \in Dispatches \cup {"fixed"} |-> files[p]]
  /\ task = [d \in Dispatches |-> task[d]]
  /\ result = [d \in Dispatches |-> result[d]]
  /\ reply = [d \in Dispatches |-> reply[d]]
  /\ worked \in [Dispatches -> Nat]
  /\ \A d \in Dispatches : DispatchInv(d)

\* No dispatch has begun.
LEMMA AdaptersInitInv == AdaptersInit => AdaptersInv
<1> SUFFICES ASSUME AdaptersInit PROVE AdaptersInv
  OBVIOUS
<1>1. \A d \in Dispatches : DispatchInv(d)
  BY AdaptersAssumption DEF AdaptersInit, DispatchInv, RunsInv, AcpInv, AsksInv, AnswerInv,
    Before, Fresh, Alive
<1>2. \A d \in Dispatches : IsInput(message[d])
  BY AdaptersAssumption DEF AdaptersInit
<1>3. /\ at = [d \in Dispatches |-> at[d]]
      /\ step = [d \in Dispatches |-> step[d]]
      /\ child = [d \in Dispatches |-> child[d]]
      /\ files = [p \in Dispatches \cup {"fixed"} |-> files[p]]
      /\ task = [d \in Dispatches |-> task[d]]
      /\ result = [d \in Dispatches |-> result[d]]
      /\ reply = [d \in Dispatches |-> reply[d]]
      /\ worked \in [Dispatches -> Nat]
  BY DEF AdaptersInit
<1> QED
  BY <1>1, <1>2, <1>3 DEF AdaptersInv

\* What is over is clean.
LEMMA InvClean == AdaptersInv => DispatchIsClean
<1> SUFFICES ASSUME AdaptersInv, NEW d \in Dispatches, message[d] # Nothing, at[d] = "over"
             PROVE  /\ child[d] \in Alive => Kind(d) = "acp"
                    /\ result[d] = "ok" =>
                         /\ reply[d] \in {d, "blank"} \/ Path(d) = "fixed"
                         /\ files[d] = Nothing
                    /\ worked[d] <= RunLimit(d)
  BY DEF DispatchIsClean, Ended
<1>1. Kind(d) \in Asks \cup Runs \cup {"acp"} /\ DispatchInv(d) /\ worked[d] \in Nat
  BY DEF AdaptersInv, IsInput, Kind
<1>2. AnswerInv(d)
  BY <1>1 DEF DispatchInv
<1>3. CASE Kind(d) \in Runs
  BY <1>1, <1>2, <1>3 DEF DispatchInv, RunsInv, AnswerInv, RunLimit, Before, Runs
<1>4. CASE Kind(d) = "acp"
  BY <1>1, <1>2, <1>4 DEF DispatchInv, AcpInv, AnswerInv, RunLimit
<1>5. CASE Kind(d) \in Asks
  BY <1>1, <1>2, <1>5 DEF DispatchInv, AsksInv, AnswerInv, RunLimit, Alive, Asks
<1> QED
  BY <1>1, <1>3, <1>4, <1>5

-----------------------------------------------------------------------------
(* Steps of a dispatch.                                                    *)

\* What a step of d leaves alone.
Only(d) ==
  /\ UNCHANGED message
  /\ at' = [at EXCEPT ![d] = at'[d]]
  /\ step' = [step EXCEPT ![d] = step'[d]]
  /\ child' = [child EXCEPT ![d] = child'[d]]
  /\ files' = [p \in Dispatches \cup {"fixed"} |-> files'[p]]
  /\ \A e \in Dispatches \ {d} : files'[e] = files[e]
  /\ task' = [task EXCEPT ![d] = task'[d]]
  /\ result' = [result EXCEPT ![d] = result'[d]]
  /\ reply' = [reply EXCEPT ![d] = reply'[d]]
  /\ worked' = [worked EXCEPT ![d] = worked'[d]]
  /\ worked'[d] \in Nat

\* Dispatches do not disturb each other.
LEMMA OthersKept ==
  ASSUME AdaptersInv, NEW d \in Dispatches, Only(d), DispatchInv(d)'
  PROVE  AdaptersInv'
<1>1. ASSUME NEW e \in Dispatches, e # d PROVE DispatchInv(e)'
  <2>1. /\ message'[e] = message[e] /\ at'[e] = at[e] /\ step'[e] = step[e]
        /\ child'[e] = child[e] /\ files'[e] = files[e] /\ task'[e] = task[e]
        /\ result'[e] = result[e] /\ reply'[e] = reply[e] /\ worked'[e] = worked[e]
    BY <1>1 DEF Only, AdaptersInv
  <2>2. DispatchInv(e)
    BY DEF AdaptersInv
  <2> QED
    BY <2>1, <2>2 DEF DispatchInv, RunsInv, AcpInv, AsksInv, AnswerInv, Kind, Path, Fresh
<1> QED
  BY <1>1 DEF Only, AdaptersInv

\* The ways a dispatch goes on, as one.
LEMMA Ways ==
  ASSUME AdaptersInv, NEW d \in Dispatches
  PROVE  /\ \A why : Fails(d, why) =>
              at'[d] = "over" /\ result'[d] = why /\ reply' = reply
         /\ \A whose : Return(d, whose) =>
              at'[d] = "scan" /\ result'[d] = "ok" /\ reply'[d] = whose
         /\ \A place : Goto(d, place) =>
              at'[d] = place /\ result' = result /\ reply' = reply
  BY DEF AdaptersInv, Fails, Return, Goto

\* None of them touches another dispatch.
LEMMA WaysAreOwn ==
  ASSUME AdaptersInv, NEW d \in Dispatches,
         \/ \E why : Fails(d, why)
         \/ \E whose : Return(d, whose)
         \/ \E place : Goto(d, place)
         \/ UNCHANGED <<at, result, reply>>
  PROVE  /\ at' = [at EXCEPT ![d] = at'[d]]
         /\ result' = [result EXCEPT ![d] = result'[d]]
         /\ reply' = [reply EXCEPT ![d] = reply'[d]]
  BY DEF AdaptersInv, Fails, Return, Goto

\* The router's scan and the calls it makes.
LEMMA RouterStep ==
  ASSUME AdaptersInv, NEW d \in Dispatches, message[d] # Nothing,
         scan_agent_response(d) \/ dispatch_message_with_full_context(d)
  PROVE  AdaptersInv'
<1>1. Kind(d) \in Asks \cup Runs \cup {"acp"} /\ DispatchInv(d) /\ worked[d] \in Nat
  BY DEF AdaptersInv, IsInput, Kind
<1>2. CASE scan_agent_response(d)
  <2>1. Only(d)
    BY <1>1, <1>2 DEF scan_agent_response, Only, AdaptersInv
  <2>2. DispatchInv(d)'
    BY <1>1, <1>2 DEF scan_agent_response, AdaptersInv, DispatchInv, RunsInv, AcpInv, AsksInv,
      AnswerInv, Kind, Path, Fresh
  <2> QED
    BY <2>1, <2>2, OthersKept
<1>3. CASE dispatch_message_with_full_context(d)
  <2>1. /\ UNCHANGED <<message, step, child, files, task, worked>> /\ at[d] = "idle"
        /\ \/ \E why \in {"unavailable", "protocol"} : Fails(d, why)
           \/ Goto(d, IF Kind(d) \in Asks THEN "ask" ELSE "spawn")
    BY <1>3 DEF dispatch_message_with_full_context
  <2>2. Only(d)
    BY <1>1, <2>1, WaysAreOwn DEF Only, AdaptersInv
  <2>3. \/ at'[d] = "over" /\ result'[d] # "ok"
        \/ at'[d] = (IF Kind(d) \in Asks THEN "ask" ELSE "spawn") /\ result'[d] = result[d]
    BY <2>1, Ways
  <2>4. DispatchInv(d)'
    BY <1>1, <2>1, <2>3 DEF DispatchInv, RunsInv, AcpInv, AsksInv, AnswerInv, Kind, Path, Fresh,
      Asks, Runs, Before
  <2> QED
    BY <2>2, <2>4, OthersKept
<1> QED
  BY <1>2, <1>3

\* A command line child is started and fed.
LEMMA StartStep ==
  ASSUME AdaptersInv, NEW d \in Dispatches, message[d] # Nothing, spawn(d) \/ write_all(d)
  PROVE  AdaptersInv'
<1>1. DispatchInv(d) /\ worked[d] \in Nat
      /\ Kind(d) \in Asks \cup Runs \cup {"acp"}
  BY DEF AdaptersInv, IsInput, Kind
<1>2. CASE spawn(d)
  <2>1. /\ UNCHANGED <<message, step, files, task, worked>> /\ at[d] = "spawn" /\ Kind(d) \in Runs
        /\ \/ Fails(d, "unavailable") /\ UNCHANGED child
           \/ /\ child' = [child EXCEPT ![d] = "up"]
              /\ Goto(d, IF Fed(d) THEN "feed" ELSE "wait")
    BY <1>2 DEF spawn
  <2>2. Only(d)
    BY <1>1, <2>1, WaysAreOwn DEF Only, AdaptersInv
  <2>3. \/ at'[d] = "over" /\ result'[d] # "ok" /\ child'[d] = child[d]
        \/ at'[d] \in {"feed", "wait"} /\ result'[d] = result[d] /\ child'[d] = "up"
    BY <2>1, Ways DEF AdaptersInv
  <2>4. DispatchInv(d)'
    BY <1>1, <2>1, <2>3 DEF DispatchInv, RunsInv, AnswerInv, Kind, Path, Fresh, Asks, Runs,
      Before
  <2> QED
    BY <2>2, <2>4, OthersKept
<1>3. CASE write_all(d)
  <2>1. /\ UNCHANGED <<message, step, child, files, task, worked>> /\ at[d] = "feed"
        /\ \/ Goto(d, "wait")
           \/ child[d] \in Exited /\ Fails(d, "unavailable")
    BY <1>3 DEF write_all
  <2>2. Only(d)
    BY <1>1, <2>1, WaysAreOwn DEF Only, AdaptersInv
  <2>3. \/ at'[d] = "over" /\ result'[d] # "ok" /\ child[d] \notin Alive
        \/ at'[d] = "wait" /\ result'[d] = result[d]
    BY <2>1, Ways DEF Exited, Alive
  <2>4. Kind(d) \in Runs
    BY <1>1, <2>1 DEF DispatchInv, AsksInv, AcpInv
  <2>5. DispatchInv(d)'
    BY <1>1, <2>1, <2>3, <2>4 DEF DispatchInv, RunsInv, AnswerInv, Kind, Path, Fresh, Asks, Runs
  <2> QED
    BY <2>2, <2>5, OthersKept
<1> QED
  BY <1>2, <1>3

\* A command line child at work.
LEMMA ChildWorksStep ==
  ASSUME AdaptersInv, NEW d \in Dispatches, message[d] # Nothing,
         ChildReads(d) \/ ChildWorks(d) \/ ChildExits(d) \/ ChildGivesUp(d)
  PROVE  AdaptersInv'
<1>1. DispatchInv(d) /\ worked[d] \in Nat
      /\ Kind(d) \in Asks \cup Runs \cup {"acp"}
  BY DEF AdaptersInv, IsInput, Kind
<1>2. Kind(d) \in Runs
  BY <1>1 DEF DispatchInv, AsksInv, AcpInv, ChildReads, ChildWorks, ChildExits, ChildGivesUp,
    Fed, Runs
<1>3. RunsInv(d) /\ AnswerInv(d)
  BY <1>1, <1>2 DEF DispatchInv
<1>4. CASE ChildReads(d) \/ ChildGivesUp(d)
  <2>1. /\ UNCHANGED <<message, at, step, files, task, result, reply, worked>>
        /\ child[d] \in {"up", "reads"}
        /\ \E c \in {"reads", "refused", "bad"} : child' = [child EXCEPT ![d] = c] /\ (c = "reads" => child[d] = "up")
    BY <1>4 DEF ChildReads, ChildGivesUp
  <2>2. Only(d)
    BY <1>1, <2>1 DEF Only, AdaptersInv
  <2>3. child'[d] \in {"reads", "refused", "bad"}
    BY <2>1 DEF AdaptersInv
  <2>4. DispatchInv(d)'
    BY <1>1, <1>2, <1>3, <2>1, <2>3 DEF DispatchInv, RunsInv, AnswerInv, Kind, Path, Fresh, Asks,
      Runs, Alive, Before
  <2> QED
    BY <2>2, <2>4, OthersKept
<1>5. CASE ChildWorks(d)
  <2>1. /\ UNCHANGED <<message, at, step, files, task, result, reply>>
        /\ child[d] \in {"up", "reads"}
        /\ child' = [child EXCEPT ![d] = "worked"]
        /\ worked' = IF step[d] \in {"list", "ensure"} THEN worked
                     ELSE [worked EXCEPT ![d] = @ + 1]
    BY <1>5 DEF ChildWorks
  <2>3. /\ child'[d] = "worked"
        /\ worked'[d] = IF step[d] \in {"list", "ensure"} THEN worked[d] ELSE worked[d] + 1
        /\ worked' = [worked EXCEPT ![d] = worked'[d]]
    BY <2>1 DEF AdaptersInv
  <2>5. /\ at' = [at EXCEPT ![d] = at'[d]] /\ step' = [step EXCEPT ![d] = step'[d]]
        /\ child' = [child EXCEPT ![d] = child'[d]]
        /\ files' = [p \in Dispatches \cup {"fixed"} |-> files'[p]]
        /\ task' = [task EXCEPT ![d] = task'[d]]
        /\ result' = [result EXCEPT ![d] = result'[d]]
        /\ reply' = [reply EXCEPT ![d] = reply'[d]]
    BY <2>1, <2>3 DEF AdaptersInv
  <2>6. worked'[d] \in Nat
    BY <1>1, <2>3
  <2>2. Only(d)
    BY <2>1, <2>3, <2>5, <2>6 DEF Only
  <2>4. DispatchInv(d)'
    BY <1>1, <1>2, <1>3, <2>1, <2>3 DEF DispatchInv, RunsInv, AnswerInv, Kind, Path, Fresh, Asks,
      Runs, Alive, Before
  <2> QED
    BY <2>2, <2>4, OthersKept
<1>6. CASE ChildExits(d)
  <2>1. /\ UNCHANGED <<message, at, step, task, result, reply, worked>>
        /\ child[d] = "worked"
        /\ \E c \in Exited : child' = [child EXCEPT ![d] = c]
        /\ \/ UNCHANGED files
           \/ /\ Kind(d) = "codex-cli"
              /\ \E text \in {d, "blank"} : files' = [files EXCEPT ![Path(d)] = text]
    BY <1>6 DEF ChildExits
  <2>2. child'[d] \in Exited
    BY <2>1 DEF AdaptersInv
  <2>3. /\ \A e \in Dispatches \ {d} : files'[e] = files[e]
        /\ files'[d] # files[d] => Kind(d) = "codex-cli" /\ Path(d) = d /\ files'[d] \in {d, "blank"}
        /\ files' = [p \in Dispatches \cup {"fixed"} |-> files'[p]]
    BY <2>1, AdaptersAssumption DEF Path, AdaptersInv
  <2>4. Only(d)
    BY <1>1, <2>1, <2>3 DEF Only, AdaptersInv
  <2>5. at[d] \notin {"idle", "spawn", "scan", "over"}
    BY <1>3, <2>1 DEF RunsInv, Alive
  <2>6. DispatchInv(d)'
    BY <1>1, <1>2, <1>3, <2>1, <2>2, <2>3, <2>5 DEF DispatchInv, RunsInv, AnswerInv, Kind, Path,
      Fresh, Asks, Runs, Alive, Exited, Before
  <2> QED
    BY <2>4, <2>6, OthersKept
<1> QED
  BY <1>4, <1>5, <1>6

\* A dispatch ends, or returns its own answer, after its child has gone.
LEMMA RunEnds ==
  ASSUME AdaptersInv, NEW d \in Dispatches, message[d] # Nothing, Kind(d) \in Runs,
         at[d] \in {"feed", "wait", "drain"},
         UNCHANGED <<message, step, files, task, worked>>,
         child' = [child EXCEPT ![d] = child'[d]], child'[d] \notin Alive,
         \/ \E why \in {"timeout", "unavailable", "protocol"} : Fails(d, why)
         \/ \E whose \in {d, "blank"} : Return(d, whose) /\ Kind(d) # "codex-cli"
  PROVE  AdaptersInv'
<1>1. DispatchInv(d) /\ worked[d] \in Nat /\ RunsInv(d) /\ AnswerInv(d)
  BY DEF AdaptersInv, DispatchInv
<1>2. Only(d)
  BY <1>1, WaysAreOwn DEF Only, AdaptersInv
<1>3. \/ at'[d] = "over" /\ result'[d] # "ok"
      \/ at'[d] = "scan" /\ result'[d] = "ok" /\ reply'[d] \in {d, "blank"} /\ Kind(d) # "codex-cli"
  BY Ways
<1>4. Fresh(d)' => Fresh(d) \/ worked[d] <= Before(step[d])
  BY <1>3 DEF Fresh, Alive
<1>5. RunsInv(d)'
  BY <1>1, <1>3, <1>4 DEF RunsInv, Kind, Before
<1>6. AnswerInv(d)'
  BY <1>1, <1>3 DEF AnswerInv, Kind, Path
<1> QED
  BY <1>2, <1>5, <1>6, OthersKept DEF DispatchInv, Kind, Asks, Runs

\* The command line adapters end the wait, but for acpx and codex-cli.
LEMMA RunEndStep ==
  ASSUME AdaptersInv, NEW d \in Dispatches, message[d] # Nothing,
         \/ Timeout(d) \/ drain(d) \/ claude_reply(d) \/ dirac_reply(d) \/ kimi_reply(d)
         \/ discover_artifacts(d)
  PROVE  AdaptersInv'
<1>1. child = [child EXCEPT ![d] = child[d]] /\ DispatchInv(d) /\ worked[d] \in Nat
  BY DEF AdaptersInv
<1>2. CASE drain(d)
  <2>1. /\ UNCHANGED <<message, step, child, files, task, worked>> /\ Kind(d) = "cli"
        /\ at[d] \in {"wait", "drain"} /\ child[d] \notin Alive
        /\ \/ \E why \in {"timeout", "protocol"} : Fails(d, why)
           \/ Return(d, d)
    BY <1>2 DEF drain, Exited, Alive
  <2> QED
    BY <1>1, <2>1, RunEnds DEF Runs
<1>3. CASE claude_reply(d) \/ dirac_reply(d) \/ kimi_reply(d)
  <2>1. /\ UNCHANGED <<message, step, child, files, task, worked>>
        /\ Kind(d) \in {"claude-cli", "dirac-cli", "kimi-cli"}
        /\ at[d] = "wait" /\ child[d] \notin Alive
        /\ Fails(d, "protocol") \/ Return(d, d)
    BY <1>3 DEF claude_reply, dirac_reply, kimi_reply, TakesOutput, Exited, Alive
  <2> QED
    BY <1>1, <2>1, RunEnds DEF Runs
<1>4. CASE discover_artifacts(d)
  <2>1. /\ UNCHANGED <<message, step, child, files, task, worked>> /\ Kind(d) = "artifact-cli"
        /\ at[d] = "wait" /\ child[d] \notin Alive
        /\ Fails(d, "protocol") \/ Return(d, d)
    BY <1>4 DEF discover_artifacts, Exited, Alive
  <2> QED
    BY <1>1, <2>1, RunEnds DEF Runs
<1>5. CASE Timeout(d)
  <2>1. CASE Kind(d) # "cli"
    <3>1. /\ UNCHANGED <<message, step, files, task, worked>> /\ Kind(d) \in Runs
          /\ at[d] \in {"feed", "wait"} /\ child[d] \in Alive
          /\ child' = [child EXCEPT ![d] = "killed"]
          /\ \E why \in {"timeout", "unavailable"} : Fails(d, why)
      BY <1>5, <2>1 DEF Timeout, Timed, Kill
    <3>2. child' = [child EXCEPT ![d] = child'[d]] /\ child'[d] \notin Alive
      BY <3>1 DEF AdaptersInv, Alive
    <3> QED
      BY <3>1, <3>2, RunEnds
  <2>2. CASE Kind(d) = "cli"
    <3>1. /\ UNCHANGED <<message, step, child, files, task, worked>>
          /\ at[d] \in {"feed", "wait"} /\ Goto(d, "drain")
      BY <1>5, <2>2 DEF Timeout, Timed
    <3>2. Only(d)
      BY <1>1, <3>1, WaysAreOwn DEF Only, AdaptersInv
    <3>3. at'[d] = "drain" /\ result' = result /\ reply' = reply
      BY <3>1, Ways
    <3>4. DispatchInv(d)'
      BY <1>1, <2>2, <3>1, <3>3 DEF DispatchInv, RunsInv, AnswerInv, Kind, Path, Fresh, Asks,
        Runs
    <3> QED
      BY <3>2, <3>4, OthersKept
  <2> QED
    BY <2>1, <2>2
<1> QED
  BY <1>2, <1>3, <1>4, <1>5

\* codex-cli takes its answer from the file, and removes its own.
LEMMA LastMessageStep ==
  ASSUME AdaptersInv, NEW d \in Dispatches, message[d] # Nothing, read_last_message(d)
  PROVE  AdaptersInv'
<1>1. DispatchInv(d) /\ worked[d] \in Nat /\ RunsInv(d) /\ AnswerInv(d)
  BY DEF AdaptersInv, DispatchInv, read_last_message, Runs
<1>2. /\ UNCHANGED <<message, step, child, task, worked>> /\ Kind(d) = "codex-cli"
      /\ at[d] = "wait" /\ child[d] \in Exited
      /\ \/ UNCHANGED files /\ Fails(d, "protocol")
         \/ /\ files' = IF Path(d) = d THEN [files EXCEPT ![d] = Nothing] ELSE files
            /\ \/ Fails(d, "protocol")
               \/ files[Path(d)] # "blank" /\ files[Path(d)] # Nothing /\ Return(d, files[Path(d)])
  BY DEF read_last_message
<1>3. /\ \A e \in Dispatches \ {d} : files'[e] = files[e]
      /\ files'[d] \in {Nothing, files[d]}
      /\ files' = [p \in Dispatches \cup {"fixed"} |-> files'[p]]
  BY <1>2 DEF AdaptersInv
<1>4. \/ at'[d] = "over" /\ result'[d] # "ok"
      \/ /\ at'[d] = "scan" /\ result'[d] = "ok"
         /\ \/ reply'[d] = d /\ files'[d] = Nothing
            \/ Path(d) = "fixed" /\ files' = files
  <2>1. CASE Fails(d, "protocol")
    BY <2>1, Ways
  <2>2. CASE Return(d, files[Path(d)]) /\ Path(d) = "fixed"
    BY <1>2, <2>2, AdaptersAssumption, Ways
  <2>3. CASE Return(d, files[d]) /\ Path(d) = d /\ files[d] \notin {Nothing, "blank"}
    <3>1. files[d] = d /\ files' = [files EXCEPT ![d] = Nothing]
      BY <1>1, <1>2, <2>3, AdaptersAssumption, Ways DEF AnswerInv
    <3> QED
      BY <2>3, <3>1, Ways DEF AdaptersInv
  <2> QED
    BY <1>2, <2>1, <2>2, <2>3 DEF Path
<1>5. Only(d)
  BY <1>1, <1>2, <1>3, WaysAreOwn DEF Only, AdaptersInv
<1>6. Path(d) = "fixed" => files[d] = Nothing
  BY <1>1, AdaptersAssumption DEF AnswerInv
<1>7. AnswerInv(d)'
  BY <1>1, <1>2, <1>3, <1>4, <1>6 DEF AnswerInv, Kind, Path
<1>8. RunsInv(d)'
  BY <1>1, <1>2, <1>4 DEF RunsInv, Kind, Fresh, Exited, Alive, Before
<1> QED
  BY <1>2, <1>5, <1>7, <1>8, OthersKept DEF DispatchInv, Kind, Asks

\* acpx goes from one child to the next, or ends.
LEMMA SessionStep ==
  ASSUME AdaptersInv, NEW d \in Dispatches, message[d] # Nothing, session_prompt(d)
  PROVE  AdaptersInv'
<1>1. DispatchInv(d) /\ worked[d] \in Nat /\ RunsInv(d) /\ AnswerInv(d)
  BY DEF AdaptersInv, DispatchInv, session_prompt, Runs
<1>2. /\ UNCHANGED <<message, child, files, task, worked>> /\ Kind(d) = "acpx"
      /\ at[d] = "wait" /\ child[d] \notin Alive \cup {"up", "reads"}
  BY DEF session_prompt, Exited, Alive
<1>3. CASE /\ UNCHANGED step
           /\ Fails(d, "protocol") \/ \E whose \in {d, "blank"} : Return(d, whose)
  <2>1. child' = [child EXCEPT ![d] = child'[d]]
    BY <1>2 DEF AdaptersInv
  <2> QED
    BY <1>2, <1>3, <2>1, RunEnds DEF Runs
<1>4. ASSUME NEW what, Again(d, what),
             \/ step[d] = "list" /\ what \in {"again", "ensure"}
             \/ step[d] = "ensure" /\ what = "again"
             \/ step[d] = "prompt" /\ what = "list"
             \/ /\ step[d] \in {"prompt", "ensure", "again"} /\ what = "exec"
                /\ message[d].session = "none"
      PROVE  AdaptersInv'
  <2>1. at'[d] = "spawn" /\ step'[d] = what /\ result' = result /\ reply' = reply
        /\ step' = [step EXCEPT ![d] = step'[d]]
    BY <1>4, Ways DEF Again, AdaptersInv
  <2>2. Only(d)
    BY <1>1, <1>2, <1>4, <2>1, WaysAreOwn DEF Only, AdaptersInv, Again
  <2>3. worked[d] <= Before(what)
    BY <1>1, <1>4 DEF RunsInv, Before, Fresh
  <2>4. RunsInv(d)'
    BY <1>1, <1>2, <1>4, <2>1, <2>3 DEF RunsInv, Kind, Fresh, Before, Alive
  <2>5. AnswerInv(d)'
    BY <1>1, <1>2, <2>1 DEF AnswerInv, Kind, Path
  <2> QED
    BY <1>2, <2>2, <2>4, <2>5, OthersKept DEF DispatchInv, Kind, Asks
<1> QED
  BY <1>3, <1>4 DEF session_prompt, PromptFailed

\* A step of acp, as far as the invariant sees it.
LEMMA AcpGoesOn ==
  ASSUME AdaptersInv, NEW d \in Dispatches, message[d] # Nothing, Kind(d) = "acp",
         UNCHANGED <<message, step, files>>,
         child' = [child EXCEPT ![d] = child'[d]], child'[d] \notin {"reads", "worked"},
         task' = [task EXCEPT ![d] = task'[d]],
         worked' = [worked EXCEPT ![d] = worked'[d]],
         worked'[d] \in Nat, worked'[d] <= 1,
         at'[d] \in {"idle", "spawn"} => task'[d] = "none",
         task'[d] \in {"none", "initialize", "new"} => worked'[d] = 0,
         \/ \E why \in {"timeout", "unavailable", "protocol"} : Fails(d, why)
         \/ at[d] = "wait" /\ Return(d, d)
         \/ at[d] = "spawn" /\ Goto(d, "wait")
         \/ UNCHANGED <<at, result, reply>>
  PROVE  AdaptersInv'
<1>1. DispatchInv(d) /\ AcpInv(d) /\ AnswerInv(d)
  BY DEF AdaptersInv, DispatchInv
<1>0. /\ \/ \E why : Fails(d, why)
         \/ \E whose : Return(d, whose)
         \/ \E place : Goto(d, place)
         \/ UNCHANGED <<at, result, reply>>
      /\ step' = [step EXCEPT ![d] = step'[d]]
      /\ files' = [p \in Dispatches \cup {"fixed"} |-> files'[p]]
  BY DEF AdaptersInv
<1>2. Only(d)
  BY <1>0, WaysAreOwn DEF Only
<1>3. \/ at'[d] = "over" /\ result'[d] # "ok"
      \/ at'[d] = "scan" /\ result'[d] = "ok" /\ reply'[d] = d
      \/ at[d] = "spawn" /\ at'[d] = "wait" /\ result' = result
      \/ UNCHANGED <<at, result, reply>>
  BY Ways
<1>4. AcpInv(d)'
  BY <1>1, <1>3 DEF AcpInv
<1>5. AnswerInv(d)'
  BY <1>1, <1>3 DEF AnswerInv, Kind, Path
<1> QED
  BY <1>2, <1>4, <1>5, OthersKept DEF DispatchInv, Kind, Asks, Runs

\* acp: the task goes from one message of the protocol to the next.
LEMMA AcpStep ==
  ASSUME AdaptersInv, NEW d \in Dispatches, message[d] # Nothing,
         acp_spawn(d) \/ acp_timeout(d) \/ acp_agrees(d) \/ acp_answers(d) \/ acp_ends(d)
  PROVE  AdaptersInv'
<1>1. DispatchInv(d) /\ worked[d] \in Nat /\ Kind(d) \in Asks \cup Runs \cup {"acp"}
      /\ child = [child EXCEPT ![d] = child[d]] /\ task = [task EXCEPT ![d] = task[d]]
      /\ worked = [worked EXCEPT ![d] = worked[d]]
  BY DEF AdaptersInv, IsInput, Kind
<1>2. Kind(d) = "acp"
  BY <1>1 DEF acp_spawn, acp_timeout, acp_agrees, acp_answers, acp_ends, DispatchInv, RunsInv,
    AsksInv
<1>3. AcpInv(d) /\ worked[d] <= 1
  BY <1>1, <1>2 DEF DispatchInv, AcpInv
<1>4. CASE acp_spawn(d)
  <2>1. /\ UNCHANGED <<message, step, files, worked>> /\ at[d] = "spawn" /\ worked[d] = 0
        /\ \/ Fails(d, "unavailable") /\ UNCHANGED <<child, task>>
           \/ /\ child' = [child EXCEPT ![d] = "up"]
              /\ task' = [task EXCEPT ![d] = "initialize"]
              /\ Goto(d, "wait")
    BY <1>3, <1>4 DEF acp_spawn, AcpInv
  <2>2. /\ child' = [child EXCEPT ![d] = child'[d]] /\ child'[d] \notin {"reads", "worked"}
        /\ task' = [task EXCEPT ![d] = task'[d]]
        /\ at'[d] \in {"over", "wait"}
    BY <1>1, <1>3, <2>1, Ways DEF AcpInv, AdaptersInv
  <2> QED
    BY <1>1, <1>2, <1>3, <2>1, <2>2, AcpGoesOn
<1>5. CASE acp_timeout(d)
  <2>1. UNCHANGED <<message, step, files, worked, child, task>> /\ Fails(d, "timeout")
    BY <1>5 DEF acp_timeout
  <2>2. at'[d] = "over"
    BY <2>1, Ways
  <2> QED
    BY <1>1, <1>2, <1>3, <2>1, <2>2, AcpGoesOn DEF AcpInv
<1>6. CASE acp_agrees(d)
  <2>1. /\ UNCHANGED <<message, step, files, child, at, result, reply>>
        /\ task[d] \in {"initialize", "new"} /\ worked[d] = 0
        /\ IF task[d] = "initialize"
           THEN task' = [task EXCEPT ![d] = "new"] /\ UNCHANGED worked
           ELSE task' = [task EXCEPT ![d] = "prompt"] /\ worked' = [worked EXCEPT ![d] = @ + 1]
    BY <1>3, <1>6 DEF acp_agrees, AcpInv
  <2>2. /\ task' = [task EXCEPT ![d] = task'[d]] /\ worked' = [worked EXCEPT ![d] = worked'[d]]
        /\ worked'[d] \in Nat /\ worked'[d] <= 1
        /\ task'[d] \in {"none", "initialize", "new"} => worked'[d] = 0
    BY <2>1 DEF AdaptersInv
  <2> QED
    BY <1>1, <1>2, <1>3, <2>1, <2>2, AcpGoesOn DEF AcpInv
<1>7. CASE acp_answers(d)
  <2>1. /\ UNCHANGED <<message, step, files, child, worked>>
        /\ task[d] = "prompt" /\ task' = [task EXCEPT ![d] = "idle"]
        /\ \/ at[d] = "wait" /\ Return(d, d)
           \/ Fails(d, "protocol")
           \/ UNCHANGED <<at, result, reply>>
    BY <1>7 DEF acp_answers
  <2>2. task' = [task EXCEPT ![d] = task'[d]] /\ task'[d] = "idle"
        /\ at'[d] \in {at[d], "scan", "over"}
    BY <2>1, Ways DEF AdaptersInv
  <2> QED
    BY <1>1, <1>2, <1>3, <2>1, <2>2, AcpGoesOn DEF AcpInv
<1>8. CASE acp_ends(d)
  <2>1. /\ UNCHANGED <<message, step, files, worked>>
        /\ task[d] # "none" /\ task' = [task EXCEPT ![d] = "ended"]
        /\ \/ child' = [child EXCEPT ![d] = "bad"]
           \/ Kill(d)
        /\ \/ \E why \in {"unavailable", "protocol"} : Fails(d, why)
           \/ UNCHANGED <<at, result, reply>>
    BY <1>8 DEF acp_ends
  <2>2. task' = [task EXCEPT ![d] = task'[d]] /\ task'[d] = "ended"
        /\ at'[d] \in {at[d], "over"}
    BY <2>1, Ways DEF AdaptersInv
  <2>3. child' = [child EXCEPT ![d] = child'[d]] /\ child'[d] \notin {"reads", "worked"}
    BY <1>3, <2>1 DEF AdaptersInv, Kill, Alive, AcpInv
  <2> QED
    BY <1>1, <1>2, <1>3, <2>1, <2>2, <2>3, AcpGoesOn DEF AcpInv
<1> QED
  BY <1>4, <1>5, <1>6, <1>7, <1>8

\* What comes of a request is a text, a blank answer or an error.
LEMMA Answers ==
  ASSUME NEW d \in Dispatches, Kind(d) \in Asks, NEW e, Answer(d, e),
         e \in {"time", "unreachable", "cut", "status", "malformed", "error", "nothing", "text",
                "blank", "approval"}
  PROVE  \/ \E why \in {"timeout", "unavailable", "protocol", "approval"} : Fails(d, why)
         \/ \E whose \in {d, "blank"} : Return(d, whose)
<1> DEFINE errors == {"timeout", "unavailable", "protocol", "approval"}
<1>1. Outcomes(d, e) \subseteq errors \cup {"text", "blank"}
  BY DEF Outcomes, Asks, hermes_send_message, openai_compat_dispatch, ironclaw_send_message,
    zeroclaw_dispatch, zeroclaw_http_dispatch, zeroclaw_native_dispatch, Sent, Understood
<1>2. PICK r \in Outcomes(d, e) :
        CASE r = "text" -> Return(d, d)
          [] r = "blank" -> Return(d, "blank")
          [] OTHER -> Fails(d, r)
  BY DEF Answer
<1>3. CASE r = "text"
  BY <1>2, <1>3
<1>4. CASE r = "blank"
  BY <1>2, <1>4
<1>5. CASE r \in errors
  <2>1. Fails(d, r)
    BY <1>2, <1>5
  <2> QED
    BY <1>5, <2>1
<1> QED
  BY <1>1, <1>3, <1>4, <1>5

\* A request is answered, or its time is up.
LEMMA AskStep ==
  ASSUME AdaptersInv, NEW d \in Dispatches, message[d] # Nothing, ask_answered(d) \/ ask_timeout(d)
  PROVE  AdaptersInv'
<1>1. DispatchInv(d) /\ worked[d] \in Nat /\ Kind(d) \in Asks \cup Runs \cup {"acp"}
  BY DEF AdaptersInv, IsInput, Kind
<1>2. at[d] = "ask" /\ UNCHANGED <<message, step, child, files, task>>
  BY DEF ask_answered, ask_timeout
<1>3. Kind(d) \in Asks /\ AsksInv(d) /\ AnswerInv(d)
  BY <1>1, <1>2 DEF DispatchInv, RunsInv, AcpInv
<1>4. worked' = [worked EXCEPT ![d] = worked'[d]] /\ worked'[d] \in {worked[d], worked[d] + 1}
  BY DEF ask_answered, ask_timeout, AdaptersInv
<1>5. \/ \E why \in {"timeout", "unavailable", "protocol", "approval"} : Fails(d, why)
      \/ \E whose \in {d, "blank"} : Return(d, whose)
  BY <1>3, Answers DEF ask_answered, ask_timeout
<1>6. Only(d)
  <2>1. /\ step' = [step EXCEPT ![d] = step'[d]] /\ child' = [child EXCEPT ![d] = child'[d]]
        /\ files' = [p \in Dispatches \cup {"fixed"} |-> files'[p]]
        /\ task' = [task EXCEPT ![d] = task'[d]]
    BY <1>2 DEF AdaptersInv
  <2>2. worked'[d] \in Nat
    BY <1>1, <1>4
  <2>3. (\E why : Fails(d, why)) \/ (\E whose : Return(d, whose))
    BY <1>5
  <2> QED
    BY <1>2, <1>4, <2>1, <2>2, <2>3, WaysAreOwn DEF Only
<1>7. \/ at'[d] = "over" /\ result'[d] # "ok"
      \/ at'[d] = "scan" /\ result'[d] = "ok" /\ reply'[d] \in {d, "blank"}
  BY <1>5, Ways
<1>8. AsksInv(d)'
  BY <1>1, <1>2, <1>3, <1>4, <1>7 DEF AsksInv
<1>9. AnswerInv(d)'
  BY <1>2, <1>3, <1>7 DEF AnswerInv, Kind, Path, Asks
<1> QED
  BY <1>2, <1>3, <1>6, <1>8, <1>9, OthersKept DEF DispatchInv, Kind, Asks, Runs

-----------------------------------------------------------------------------

\* Each step of an adapter, a child, a server or the clock.
LEMMA AdaptersNextInv ==
  ASSUME AdaptersInv, [AdaptersNext]_avars
  PROVE  AdaptersInv'
<1>1. CASE UNCHANGED avars
  BY <1>1 DEF avars, AdaptersInv, DispatchInv, RunsInv, AcpInv, AsksInv, AnswerInv, Kind, Path,
    Fresh
<1>2. ASSUME NEW d \in Dispatches, AdapterStep(d) PROVE AdaptersInv'
  BY <1>2, RouterStep, StartStep, RunEndStep, LastMessageStep, SessionStep, AcpStep, AskStep
  DEF AdapterStep
<1>3. ASSUME NEW d \in Dispatches, ChildStep(d) PROVE AdaptersInv'
  BY <1>3, ChildWorksStep, AcpStep DEF ChildStep
<1>4. ASSUME NEW d \in Dispatches, ServerStep(d) PROVE AdaptersInv'
  BY <1>4, AskStep DEF ServerStep
<1>5. ASSUME NEW d \in Dispatches, Age(d) PROVE AdaptersInv'
  BY <1>5 DEF Age, AdaptersInv, DispatchInv, RunsInv, AcpInv, AsksInv, AnswerInv, Kind, Path,
    Fresh
<1> QED
  BY <1>1, <1>2, <1>3, <1>4, <1>5 DEF AdaptersNext

\* For any number of messages to any adapters: what is over has left no child
\* running, its answer is its own, its file is gone, and its agent worked on
\* it as often as the adapter tries at most (kill_on_drop, last_message_path,
\* session_prompt).
THEOREM DispatchesAreClean == AdaptersSpec => []DispatchIsClean
  BY AdaptersInitInv, AdaptersNextInv, InvClean, PTL DEF AdaptersSpec
=============================================================================
