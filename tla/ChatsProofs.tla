----------------------------- MODULE ChatsProofs -----------------------------
(***************************************************************************)
(* Proofs about what calciforge remembers of its chats: the conversations  *)
(* that are put in front of agents (ChatDispatch), and the selections of   *)
(* identities (ActiveSelections).                                          *)
(***************************************************************************)
EXTENDS ChatDispatch, ActiveSelections, FiniteSetTheorems, TLAPS

-----------------------------------------------------------------------------
(* The buffer of one chat.                                                 *)

Exchange == [seq : Nat, prompt : Message, agent_id : Agent]

Context == [exchanges : Seq(Exchange),
            next_seq : Nat,
            watermarks : [Agent -> Nat \cup {NoWatermark}]]

\* A recorded exchange is the new one or was there before, and a buffer with
\* places never holds more than it has (push).
LEMMA PushKeeps ==
  ASSUME NEW x \in Context, NEW m \in Message, NEW a \in Agent
  PROVE  LET y == push(x, m, a)
             e == [seq |-> x.next_seq, prompt |-> m, agent_id |-> a]
         IN  /\ y \in Context
             /\ \A i \in DOMAIN y.exchanges :
                  \/ y.exchanges[i] = e
                  \/ \E j \in DOMAIN x.exchanges : y.exchanges[i] = x.exchanges[j]
             /\ y.next_seq = x.next_seq + 1
             /\ y.watermarks = [x.watermarks EXCEPT ![a] = x.next_seq]
             /\ Capacity > 0 /\ Len(x.exchanges) <= Capacity =>
                  Len(y.exchanges) <= Capacity
  <1> DEFINE xs == x.exchanges
             drops == Len(xs) = Capacity /\ xs # <<>>
             kept == IF drops THEN Tail(xs) ELSE xs
             e == [seq |-> x.next_seq, prompt |-> m, agent_id |-> a]
             ys == Append(kept, e)
  <1>1. xs \in Seq(Exchange) /\ x.next_seq \in Nat
    BY DEF Context
  <1>2. e \in Exchange
    BY <1>1 DEF Exchange
  <1>3. /\ kept \in Seq(Exchange)
        /\ \A i \in 1..Len(kept) : \E j \in 1..Len(xs) : kept[i] = xs[j]
        /\ Len(kept) = IF drops THEN Len(xs) - 1 ELSE Len(xs)
    <2>1. CASE drops
      <3> HIDE DEF xs
      <3>1. Tail(xs) \in Seq(Exchange) /\ Len(Tail(xs)) = Len(xs) - 1
        BY <1>1, <2>1
      <3>2. \A i \in 1..Len(Tail(xs)) : Tail(xs)[i] = xs[i + 1] /\ i + 1 \in 1..Len(xs)
        BY <1>1, <2>1, <3>1
      <3> QED
        BY <2>1, <3>1, <3>2
    <2>2. CASE ~drops
      BY <1>1, <2>2
    <2> QED
      BY <2>1, <2>2
  <1> HIDE DEF kept
  <1>4. /\ ys \in Seq(Exchange)
        /\ Len(ys) = Len(kept) + 1
        /\ \A i \in 1..Len(ys) : ys[i] = e \/ \E j \in 1..Len(kept) : ys[i] = kept[j]
    BY <1>2, <1>3
  <1>5. \A i \in 1..Len(ys) : ys[i] = e \/ \E j \in 1..Len(xs) : ys[i] = xs[j]
    BY <1>3, <1>4
  <1>6. push(x, m, a) = [exchanges |-> ys, next_seq |-> x.next_seq + 1,
                         watermarks |-> [x.watermarks EXCEPT ![a] = x.next_seq]]
    BY DEF push, kept
  <1>7. [x.watermarks EXCEPT ![a] = x.next_seq] \in [Agent -> Nat \cup {NoWatermark}]
    BY <1>1 DEF Context
  <1>8. DOMAIN ys = 1..Len(ys) /\ DOMAIN xs = 1..Len(xs)
    BY <1>1, <1>4
  <1>9. Capacity > 0 /\ Len(xs) <= Capacity => Len(ys) <= Capacity
    BY <1>1, <1>3, <1>4, ContextAssumption
  <1> HIDE DEF ys
  <1> QED
    BY <1>1, <1>4, <1>5, <1>6, <1>7, <1>8, <1>9 DEF Context

\* A preamble holds nothing but unseen exchanges, and all of them if it has a
\* place for every exchange of the buffer (build_preamble).
LEMMA PreambleIsUnseen ==
  ASSUME NEW x \in Context, NEW a \in Agent
  PROVE  /\ \A e \in build_preamble(x, a) : \E i \in Unseen(x, a) : e = x.exchanges[i]
         /\ Len(x.exchanges) <= InjectDepth =>
              \A i \in Unseen(x, a) : x.exchanges[i] \in build_preamble(x, a)
  <1>1. \A e \in build_preamble(x, a) : \E i \in Unseen(x, a) : e = x.exchanges[i]
    BY DEF build_preamble
  <1>2. ASSUME Len(x.exchanges) <= InjectDepth, NEW i \in Unseen(x, a)
        PROVE  x.exchanges[i] \in build_preamble(x, a)
    <2> DEFINE later == {k \in Unseen(x, a) : k > i}
               n == Len(x.exchanges)
    <2>1. n \in Nat /\ Unseen(x, a) \subseteq 1..n
      BY DEF Context, Unseen
    <2>2. i \in 1..n /\ later \subseteq 2..n
      BY <2>1
    <2> HIDE DEF n
    <2>3. IsFiniteSet(2..n) /\ Cardinality(2..n) = n - 1
      <3>1. n \in Int /\ 2 \in Int /\ n >= 1
        BY <2>1, <2>2
      <3>2. Cardinality(2..n) = IF 2 > n THEN 0 ELSE n - 2 + 1
        BY <3>1, FS_Interval
      <3> QED
        BY <3>1, <3>2, FS_Interval
    <2>4. IsFiniteSet(later) /\ Cardinality(later) <= n - 1
      BY <2>2, <2>3, FS_Subset
    <2>5. Cardinality(later) \in Nat
      BY <2>4, FS_CardinalityType
    <2>6. Cardinality(later) < InjectDepth
      BY <1>2, <2>1, <2>4, <2>5, ContextAssumption DEF n
    <2>7. i \in {j \in Unseen(x, a) :
                  Cardinality({k \in Unseen(x, a) : k > j}) < InjectDepth}
      BY <2>6
    <2> QED
      BY <2>7 DEF build_preamble
  <1> QED
    BY <1>1, <1>2

-----------------------------------------------------------------------------
(* The conversations.                                                      *)

DispatchTypeOK ==
  /\ ctx \in [Chat -> Context]
  /\ active \in [Chat -> Agent]
  /\ pc \in [Message -> Position]
  /\ chat \in [Message -> Chat]
  /\ agent \in [Message -> Agent]
  /\ injected \in [Message -> SUBSET Message]
  /\ seen \in [Agent -> SUBSET Message]
  /\ overlapped \in [Agent -> SUBSET Message]

\* The exchange in place i of a chat's buffer.
Kept(c, i) == ctx[c].exchanges[i]
Places(c) == DOMAIN ctx[c].exchanges

\* A buffer holds answered messages of its own chat, numbered below the next.
BuffersAreOfTheirChat ==
  \A c \in Chat : \A i \in Places(c) :
    /\ Kept(c, i).seq < ctx[c].next_seq
    /\ pc[Kept(c, i).prompt] = "answered"
    /\ chat[Kept(c, i).prompt] = c

\* A preamble comes from the chat of its message; slash commands have none.
PreamblesAreOfTheirChat ==
  \A m \in Message :
    /\ \A q \in injected[m] : pc[q] = "answered" /\ chat[q] = chat[m]
    /\ pc[m] = "waiting" /\ PreservesNative(m) => injected[m] = {}

SeenIsAnswered == \A a \in Agent : \A q \in seen[a] : pc[q] = "answered"

\* Beyond its watermark nothing is known to an agent.
UnseenIsNew ==
  \A c \in Chat, a \in Agent : \A i \in Unseen(ctx[c], a) :
    Kept(c, i).prompt \notin seen[a]

BuffersAreBounded ==
  Capacity > 0 => \A c \in Chat : Len(ctx[c].exchanges) <= Capacity

\* An agent that is being asked was given everything in the buffer, knows it,
\* or the buffer got it meanwhile.
AskedAgentsKnow ==
  Capacity > 0 /\ InjectDepth >= Capacity =>
    \A m \in Message :
      pc[m] = "waiting" /\ ~PreservesNative(m) =>
        \A i \in Places(chat[m]) :
          Kept(chat[m], i).prompt \in injected[m] \cup seen[agent[m]]
                                        \cup overlapped[agent[m]]

\* A watermark is the number of a recorded exchange.
WatermarksAreGiven ==
  \A c \in Chat, a \in Agent : ctx[c].watermarks[a] < ctx[c].next_seq

DispatchInv ==
  /\ DispatchTypeOK /\ WatermarksAreGiven
  /\ BuffersAreOfTheirChat /\ PreamblesAreOfTheirChat
  /\ SeenIsAnswered /\ UnseenIsNew
  /\ BuffersAreBounded /\ AskedAgentsKnow
  /\ SkipsOnlyOverlaps

LEMMA ContextTypes ==
  ASSUME NEW x \in Context
  PROVE  /\ \A i \in DOMAIN x.exchanges :
              x.exchanges[i].seq \in Nat /\ x.exchanges[i].prompt \in Message
         /\ \A a \in Agent : x.watermarks[a] \in Int
         /\ x.next_seq \in Nat
         /\ Len(x.exchanges) \in Nat
  <1>1. x.exchanges \in Seq(Exchange)
    BY DEF Context
  <1>2. \A i \in DOMAIN x.exchanges : x.exchanges[i] \in Exchange
    BY <1>1
  <1>3. \A a \in Agent : x.watermarks[a] \in Int
    BY DEF Context, NoWatermark
  <1> QED
    BY <1>1, <1>2, <1>3 DEF Exchange, Context

LEMMA KeptTypes ==
  ASSUME DispatchTypeOK, NEW c \in Chat, NEW i \in Places(c)
  PROVE  Kept(c, i).seq \in Nat /\ Kept(c, i).prompt \in Message
  <1>1. ctx[c] \in Context
    BY DEF DispatchTypeOK
  <1> QED
    BY <1>1, ContextTypes DEF Places, Kept

LEMMA EmptyContextType == EmptyContext \in Context
  BY DEF EmptyContext, Context

LEMMA DispatchInitially == Init => DispatchInv
  <1> SUFFICES ASSUME Init PROVE DispatchInv
    OBVIOUS
  <1>1. DispatchTypeOK
    <2>1. ASSUME NEW m \in Message PROVE (CHOOSE a \in Agent : TRUE) \in Agent
      <3>1. active[chat[m]] \in Agent
        BY DEF Init
      <3> QED
        BY <3>1
    <2> QED
      BY <2>1, EmptyContextType DEF Init, DispatchTypeOK, Position
  <1>2. \A c \in Chat : Places(c) = {} /\ Len(ctx[c].exchanges) = 0
    BY DEF Init, Places, EmptyContext
  <1>3. BuffersAreBounded
    BY <1>2, ContextAssumption DEF BuffersAreBounded
  <1>4. UnseenIsNew
    BY <1>2 DEF UnseenIsNew, Unseen, Places
  <1>5. SkipsOnlyOverlaps
    BY <1>2 DEF SkipsOnlyOverlaps, Places
  <1>7. WatermarksAreGiven
    BY DEF Init, WatermarksAreGiven, EmptyContext, NoWatermark
  <1>6. PreamblesAreOfTheirChat /\ SeenIsAnswered /\ AskedAgentsKnow
    BY DEF Init, PreamblesAreOfTheirChat, SeenIsAnswered, AskedAgentsKnow
  <1> QED
    BY <1>1, <1>2, <1>3, <1>4, <1>5, <1>6, <1>7 DEF DispatchInv, BuffersAreOfTheirChat

\* Steps that touch neither buffers nor histories, and at which no message
\* comes to wait or to be new again.
LEMMA DispatchQuietly ==
  ASSUME DispatchInv, DispatchTypeOK',
         UNCHANGED <<ctx, chat, injected, seen, overlapped>>,
         \A m \in Message :
           /\ pc[m] = "answered" <=> pc'[m] = "answered"
           /\ pc'[m] = "waiting" => pc[m] = "waiting"
           /\ pc[m] = "waiting" => agent'[m] = agent[m]
  PROVE  DispatchInv'
  <1> USE DEF DispatchInv
  <1>1. BuffersAreOfTheirChat'
    <2> SUFFICES ASSUME NEW c \in Chat, NEW i \in Places(c)'
                 PROVE  /\ Kept(c, i)'.seq < ctx'[c].next_seq
                        /\ pc'[Kept(c, i)'.prompt] = "answered"
                        /\ chat'[Kept(c, i)'.prompt] = c
      BY DEF BuffersAreOfTheirChat
    <2>1. i \in Places(c) /\ Kept(c, i)' = Kept(c, i) /\ ctx'[c] = ctx[c]
      BY DEF Places, Kept
    <2>2. Kept(c, i) \in Exchange
      BY <2>1 DEF DispatchTypeOK, Context, Places, Kept
    <2>3. Kept(c, i).prompt \in Message
      BY <2>2 DEF Exchange
    <2> QED
      BY <2>1, <2>3 DEF BuffersAreOfTheirChat
  <1>2. PreamblesAreOfTheirChat'
    BY DEF PreamblesAreOfTheirChat, PreservesNative, DispatchTypeOK
  <1>3. SeenIsAnswered'
    BY DEF SeenIsAnswered, DispatchTypeOK
  <1>4. UnseenIsNew' /\ BuffersAreBounded' /\ SkipsOnlyOverlaps' /\ WatermarksAreGiven'
    BY DEF WatermarksAreGiven, UnseenIsNew, Unseen, Kept, BuffersAreBounded, SkipsOnlyOverlaps
  <1>5. AskedAgentsKnow'
    BY DEF AskedAgentsKnow, PreservesNative, Places, Kept, DispatchTypeOK
  <1> QED
    BY <1>1, <1>2, <1>3, <1>4, <1>5

LEMMA AugmentKeepsDispatch ==
  ASSUME DispatchInv, NEW m \in Message, augment_message(m)
  PROVE  DispatchInv' /\ injected'[m] \cap seen[agent[m]] = {}
  <1> USE DEF DispatchInv
  <1> DEFINE c == chat[m]
             x == ctx[c]
             a == agent[m]
             preamble == {e.prompt : e \in build_preamble(x, a)}
  <1>1. /\ c \in Chat /\ x \in Context /\ a \in Agent
        /\ pc' = [pc EXCEPT ![m] = "waiting"]
        /\ injected' = [injected EXCEPT ![m] = IF PreservesNative(m) THEN {} ELSE preamble]
        /\ UNCHANGED <<ctx, active, chat, agent, seen, overlapped>>
        /\ pc[m] = "spawned"
    BY DEF augment_message, DispatchTypeOK
  <1>2. \A i \in Places(c) : x.exchanges[i].prompt \in Message
    BY <1>1, ContextTypes DEF Places
  <1>3. \A q \in preamble : \E i \in Unseen(x, a) : q = x.exchanges[i].prompt
    BY <1>1, PreambleIsUnseen
  <1>4. \A q \in preamble :
          q \in Message /\ q \notin seen[a] /\ pc[q] = "answered" /\ chat[q] = c
    BY <1>1, <1>2, <1>3 DEF UnseenIsNew, BuffersAreOfTheirChat, Kept, Places, Unseen
  <1> HIDE DEF preamble
  <1>5. /\ injected'[m] = IF PreservesNative(m) THEN {} ELSE preamble
        /\ \A q \in Message \ {m} : injected'[q] = injected[q] /\ pc'[q] = pc[q]
        /\ pc'[m] = "waiting"
        /\ \A q \in Message : pc'[q] = "answered" <=> pc[q] = "answered"
    BY <1>1 DEF DispatchTypeOK
  <1>6. DispatchTypeOK'
    BY <1>1, <1>4 DEF DispatchTypeOK, Position
  <1>7. BuffersAreOfTheirChat'
    <2> SUFFICES ASSUME NEW d \in Chat, NEW i \in Places(d)
                 PROVE  /\ Kept(d, i).seq < ctx[d].next_seq
                        /\ pc'[Kept(d, i).prompt] = "answered"
                        /\ chat[Kept(d, i).prompt] = d
      BY <1>1 DEF BuffersAreOfTheirChat, Places, Kept
    <2>1. Kept(d, i).prompt \in Message
      BY KeptTypes
    <2> QED
      BY <1>5, <2>1 DEF BuffersAreOfTheirChat
  <1>8. PreamblesAreOfTheirChat'
    <2> SUFFICES ASSUME NEW p \in Message
                 PROVE  /\ \A q \in injected'[p] : pc'[q] = "answered" /\ chat[q] = chat[p]
                        /\ pc'[p] = "waiting" /\ PreservesNative(p) => injected'[p] = {}
      BY <1>1 DEF PreamblesAreOfTheirChat, PreservesNative
    <2>1. CASE p = m
      BY <1>4, <1>5, <2>1
    <2>2. CASE p # m
      <3>1. \A q \in injected[p] : q \in Message
        BY DEF DispatchTypeOK
      <3> QED
        BY <1>5, <2>2, <3>1 DEF PreamblesAreOfTheirChat
    <2> QED
      BY <2>1, <2>2
  <1>9. SeenIsAnswered'
    BY <1>1, <1>5 DEF SeenIsAnswered, DispatchTypeOK
  <1>10. UnseenIsNew' /\ BuffersAreBounded' /\ SkipsOnlyOverlaps' /\ WatermarksAreGiven'
    BY <1>1 DEF WatermarksAreGiven, UnseenIsNew, Unseen, Kept, BuffersAreBounded, SkipsOnlyOverlaps
  <1>11. AskedAgentsKnow'
    <2> SUFFICES ASSUME Capacity > 0, InjectDepth >= Capacity,
                        NEW p \in Message, pc'[p] = "waiting", ~PreservesNative(p),
                        NEW i \in Places(chat[p])
                 PROVE  Kept(chat[p], i).prompt \in injected'[p] \cup seen[agent[p]]
                                                      \cup overlapped[agent[p]]
      BY <1>1 DEF AskedAgentsKnow, PreservesNative, Places, Kept
    <2>1. CASE p # m
      BY <1>5, <2>1 DEF AskedAgentsKnow
    <2>2. CASE p = m
      <3>1. CASE i \in Unseen(x, a)
        <4>1. Len(x.exchanges) <= InjectDepth
          BY <1>1, ContextAssumption DEF BuffersAreBounded, Context
        <4>2. x.exchanges[i] \in build_preamble(x, a)
          BY <1>1, <3>1, <4>1, PreambleIsUnseen
        <4> QED
          BY <1>5, <2>2, <4>2 DEF Kept, preamble
      <3>2. CASE i \notin Unseen(x, a)
        <4>1. x.exchanges[i].seq <= x.watermarks[a]
          BY <1>1, <2>2, <3>2, ContextTypes DEF Unseen, Places
        <4> QED
          BY <1>1, <2>2, <4>1 DEF SkipsOnlyOverlaps, Kept, Places
      <3> QED
        BY <3>1, <3>2
    <2> QED
      BY <2>1, <2>2
  <1>12. injected'[m] \cap seen[a] = {}
    BY <1>4, <1>5
  <1> QED
    BY <1>6, <1>7, <1>8, <1>9, <1>10, <1>11, <1>12

LEMMA AnswerKeepsDispatch ==
  ASSUME DispatchInv, NEW m \in Message, answer(m)
  PROVE  DispatchInv'
  <1> USE DEF DispatchInv
  <1> DEFINE c == chat[m]
             x == ctx[c]
             a == agent[m]
             y == IF PreservesNative(m) THEN x ELSE push(x, m, a)
             e == [seq |-> x.next_seq, prompt |-> m, agent_id |-> a]
  <1>1. /\ c \in Chat /\ x \in Context /\ a \in Agent
        /\ pc[m] = "waiting"
        /\ UNCHANGED <<active, chat, agent, injected>>
    BY DEF answer, DispatchTypeOK
  <1>2. /\ pc'[m] = "answered"
        /\ \A q \in Message \ {m} : pc'[q] = pc[q]
        /\ seen'[a] = seen[a] \cup injected[m] \cup {m}
        /\ \A b \in Agent \ {a} : seen'[b] = seen[b]
        /\ \A b \in Agent : overlapped[b] \subseteq overlapped'[b]
        /\ \A q \in Message \ {m} :
             chat[q] = c /\ pc[q] = "waiting" => m \in overlapped'[agent[q]]
    <2>1. \A b \in Agent : overlapped'[b] =
            IF \E q \in Message \ {m} : /\ chat[q] = chat[m] /\ agent[q] = b
                                        /\ pc[q] = "waiting"
            THEN overlapped[b] \cup {m} ELSE overlapped[b]
      BY DEF answer
    <2>2. \A q \in Message : agent[q] \in Agent
      BY DEF DispatchTypeOK
    <2> QED
      BY <1>1, <2>1, <2>2 DEF answer, DispatchTypeOK
  <1>3. PreservesNative(m) => injected[m] = {}
    BY <1>1 DEF PreamblesAreOfTheirChat
  <1>4. /\ y \in Context
        /\ \A i \in DOMAIN y.exchanges :
             \/ y.exchanges[i] = e /\ ~PreservesNative(m)
             \/ \E j \in DOMAIN x.exchanges : y.exchanges[i] = x.exchanges[j]
        /\ ~PreservesNative(m) => y.next_seq = x.next_seq + 1
        /\ y.watermarks = IF PreservesNative(m) THEN x.watermarks
                          ELSE [x.watermarks EXCEPT ![a] = x.next_seq]
        /\ Capacity > 0 /\ Len(x.exchanges) <= Capacity => Len(y.exchanges) <= Capacity
    <2>1. CASE PreservesNative(m)
      BY <1>1, <2>1
    <2>2. CASE ~PreservesNative(m)
      <3>1. y = push(x, m, a)
        BY <2>2
      <3> HIDE DEF y, x, a
      <3> QED
        BY <1>1, <2>2, <3>1, PushKeeps
    <2> QED
      BY <2>1, <2>2
  <1>5. /\ ctx'[c] = y
        /\ \A d \in Chat \ {c} : ctx'[d] = ctx[d]
        /\ ctx' \in [Chat -> Context]
    BY <1>1, <1>4 DEF answer, DispatchTypeOK
  <1> HIDE DEF y
  <1>6. \A i \in DOMAIN x.exchanges :
          /\ x.exchanges[i].seq \in Nat /\ x.exchanges[i].prompt \in Message
          /\ x.exchanges[i].seq < x.next_seq
          /\ pc[x.exchanges[i].prompt] = "answered"
          /\ chat[x.exchanges[i].prompt] = c
    BY <1>1, ContextTypes DEF BuffersAreOfTheirChat, Kept, Places
  <1>7. x.next_seq \in Nat /\ y.next_seq \in Nat /\ x.next_seq <= y.next_seq
    BY <1>1, <1>4, ContextTypes DEF y
  <1>8. DispatchTypeOK'
    <2>1. seen' \in [Agent -> SUBSET Message]
      BY <1>1 DEF answer, DispatchTypeOK
    <2>2. overlapped' \in [Agent -> SUBSET Message]
      BY <1>1 DEF answer, DispatchTypeOK
    <2>3. pc' \in [Message -> Position]
      BY <1>1 DEF answer, DispatchTypeOK, Position
    <2> QED
      BY <1>1, <1>5, <2>1, <2>2, <2>3 DEF DispatchTypeOK
  <1>9. \A q \in Message : pc[q] = "answered" => pc'[q] = "answered"
    BY <1>2
  <1>10. BuffersAreOfTheirChat'
    <2> SUFFICES ASSUME NEW d \in Chat, NEW i \in DOMAIN ctx'[d].exchanges
                 PROVE  LET k == ctx'[d].exchanges[i]
                        IN  /\ k.seq < ctx'[d].next_seq
                            /\ pc'[k.prompt] = "answered"
                            /\ chat[k.prompt] = d
      BY <1>1 DEF BuffersAreOfTheirChat, Places, Kept
    <2>1. CASE d # c
      <3>1. ctx'[d] = ctx[d] /\ Kept(d, i).prompt \in Message
        BY <1>5, <2>1, KeptTypes DEF Places
      <3> QED
        BY <1>9, <3>1 DEF BuffersAreOfTheirChat, Places, Kept
    <2>2. CASE d = c
      <3>1. CASE \E j \in DOMAIN x.exchanges : y.exchanges[i] = x.exchanges[j]
        <4>1. PICK j \in DOMAIN x.exchanges : y.exchanges[i] = x.exchanges[j]
          BY <3>1
        <4> DEFINE k == x.exchanges[j]
        <4>2. /\ k.seq \in Nat /\ k.prompt \in Message /\ k.seq < x.next_seq
              /\ pc'[k.prompt] = "answered" /\ chat[k.prompt] = c
          BY <1>6, <1>9
        <4>3. ctx'[d].exchanges[i] = k /\ ctx'[d].next_seq = y.next_seq
          BY <1>5, <2>2, <4>1
        <4> HIDE DEF k, x
        <4>4. k.seq < ctx'[d].next_seq
          BY <1>7, <4>2, <4>3
        <4> QED
          BY <2>2, <4>2, <4>3, <4>4
      <3>2. CASE y.exchanges[i] = e /\ ~PreservesNative(m)
        BY <1>2, <1>4, <1>5, <1>7, <2>2, <3>2
      <3> QED
        BY <1>4, <1>5, <2>2, <3>1, <3>2
    <2> QED
      BY <2>1, <2>2
  <1>11. PreamblesAreOfTheirChat'
    <2>1. \A p \in Message : \A q \in injected[p] : q \in Message
      BY DEF DispatchTypeOK
    <2> QED
      BY <1>1, <1>2, <1>9, <2>1 DEF PreamblesAreOfTheirChat, PreservesNative
  <1>12. SeenIsAnswered'
    <2> SUFFICES ASSUME NEW b \in Agent, NEW q \in seen'[b]
                 PROVE  pc'[q] = "answered"
      BY DEF SeenIsAnswered
    <2>1. q \in Message
      BY <1>8 DEF DispatchTypeOK
    <2> QED
      BY <1>1, <1>2, <1>9, <2>1 DEF SeenIsAnswered, PreamblesAreOfTheirChat
  <1>13. UnseenIsNew'
    <2> SUFFICES ASSUME NEW d \in Chat, NEW b \in Agent,
                        NEW i \in DOMAIN ctx'[d].exchanges,
                        ctx'[d].exchanges[i].seq > ctx'[d].watermarks[b],
                        ctx'[d].exchanges[i].prompt \in seen'[b]
                 PROVE  FALSE
      BY DEF UnseenIsNew, Unseen, Kept
    <2>1. CASE d # c
      <3>1. /\ ctx'[d] = ctx[d] /\ Kept(d, i).prompt \in Message
            /\ pc[Kept(d, i).prompt] = "answered" /\ chat[Kept(d, i).prompt] = d
            /\ Kept(d, i).prompt \notin seen[b]
        BY <1>5, <2>1, KeptTypes
          DEF Places, Kept, BuffersAreOfTheirChat, UnseenIsNew, Unseen
      <3> QED
        BY <1>1, <1>2, <2>1, <3>1 DEF Kept, PreamblesAreOfTheirChat
    <2>2. CASE d = c /\ PreservesNative(m)
      <3>1. /\ y = x /\ i \in DOMAIN x.exchanges
            /\ x.exchanges[i].prompt \notin seen[b]
        BY <1>5, <2>2 DEF y, UnseenIsNew, Unseen, Kept
      <3>2. seen'[b] \subseteq seen[b] \cup {m}
        BY <1>2, <1>3, <2>2
      <3>3. ctx'[d].exchanges[i].prompt = x.exchanges[i].prompt
        BY <1>5, <2>2, <3>1
      <3>4. x.exchanges[i].prompt # m
        BY <1>1, <1>6, <3>1
      <3> QED
        BY <3>1, <3>2, <3>3, <3>4
    <2>3. CASE d = c /\ ~PreservesNative(m) /\ b = a
      <3>1. y.watermarks[b] = x.next_seq
        BY <1>1, <1>4, <2>3 DEF Context
      <3>2. y.exchanges[i].seq <= x.next_seq
        <4>1. CASE y.exchanges[i] = e
          BY <1>7, <4>1
        <4>2. CASE \E j \in DOMAIN x.exchanges : y.exchanges[i] = x.exchanges[j]
          <5>1. PICK j \in DOMAIN x.exchanges : y.exchanges[i] = x.exchanges[j]
            BY <4>2
          <5>2. x.exchanges[j].seq \in Nat /\ x.exchanges[j].seq < x.next_seq
            BY <1>6
          <5> QED
            BY <1>7, <5>1, <5>2
        <4>3. i \in DOMAIN y.exchanges
          BY <1>5, <2>3
        <4> QED
          BY <1>4, <4>1, <4>2, <4>3
      <3>3. y.exchanges[i].seq \in Nat
        BY <1>4, <1>5, <2>3, ContextTypes
      <3> QED
        BY <1>5, <1>7, <2>3, <3>1, <3>2, <3>3
    <2>4. CASE d = c /\ ~PreservesNative(m) /\ b # a
      <3>1. y.watermarks[b] = x.watermarks[b] /\ seen'[b] = seen[b]
        BY <1>1, <1>2, <1>4, <2>4 DEF Context
      <3>2. m \notin seen[b]
        BY <1>1 DEF SeenIsAnswered
      <3>3. PICK j \in DOMAIN x.exchanges : y.exchanges[i] = x.exchanges[j]
        BY <1>4, <1>5, <2>4, <3>1, <3>2
      <3>4. j \in Unseen(ctx[c], b)
        BY <1>5, <2>4, <3>1, <3>3 DEF Unseen
      <3> QED
        BY <1>1, <1>5, <2>4, <3>1, <3>3, <3>4 DEF UnseenIsNew, Kept
    <2> QED
      BY <2>1, <2>2, <2>3, <2>4
  <1>14. BuffersAreBounded'
    BY <1>1, <1>4, <1>5 DEF BuffersAreBounded
  <1>15. AskedAgentsKnow'
    <2> SUFFICES ASSUME Capacity > 0, InjectDepth >= Capacity,
                        NEW p \in Message, pc'[p] = "waiting", ~PreservesNative(p),
                        NEW i \in DOMAIN ctx'[chat[p]].exchanges
                 PROVE  ctx'[chat[p]].exchanges[i].prompt
                          \in injected[p] \cup seen'[agent[p]] \cup overlapped'[agent[p]]
      BY <1>1 DEF AskedAgentsKnow, PreservesNative, Places, Kept
    <2>1. /\ p # m /\ pc[p] = "waiting" /\ agent[p] \in Agent /\ chat[p] \in Chat
          /\ seen[agent[p]] \subseteq seen'[agent[p]]
          /\ overlapped[agent[p]] \subseteq overlapped'[agent[p]]
      BY <1>2 DEF DispatchTypeOK
    <2>2. \A j \in DOMAIN ctx[chat[p]].exchanges :
            ctx[chat[p]].exchanges[j].prompt
              \in injected[p] \cup seen[agent[p]] \cup overlapped[agent[p]]
      BY <2>1 DEF AskedAgentsKnow, Places, Kept
    <2>3. CASE chat[p] # c
      BY <1>5, <2>1, <2>2, <2>3
    <2>4. CASE chat[p] = c
      <3>1. i \in DOMAIN y.exchanges /\ ctx'[chat[p]].exchanges[i] = y.exchanges[i]
        BY <1>5, <2>4
      <3>2. CASE y.exchanges[i] = e
        BY <1>2, <2>1, <2>4, <3>1, <3>2
      <3>3. CASE \E j \in DOMAIN x.exchanges : y.exchanges[i] = x.exchanges[j]
        BY <2>1, <2>2, <2>4, <3>1, <3>3
      <3> QED
        BY <1>4, <3>1, <3>2, <3>3
    <2> QED
      BY <2>3, <2>4
  <1>16. SkipsOnlyOverlaps'
    <2> SUFFICES ASSUME Capacity > 0, InjectDepth >= Capacity,
                        NEW d \in Chat, NEW b \in Agent,
                        NEW i \in DOMAIN ctx'[d].exchanges,
                        ctx'[d].exchanges[i].seq <= ctx'[d].watermarks[b]
                 PROVE  ctx'[d].exchanges[i].prompt \in seen'[b] \cup overlapped'[b]
      BY DEF SkipsOnlyOverlaps
    <2>1. seen[b] \subseteq seen'[b] /\ overlapped[b] \subseteq overlapped'[b]
      BY <1>2
    <2>2. \A k \in Chat : \A j \in DOMAIN ctx[k].exchanges :
            ctx[k].exchanges[j].seq <= ctx[k].watermarks[b] =>
              ctx[k].exchanges[j].prompt \in seen[b] \cup overlapped[b]
      BY DEF SkipsOnlyOverlaps
    <2>3. CASE d # c
      BY <1>5, <2>1, <2>2, <2>3
    <2>4. CASE d = c /\ PreservesNative(m)
      BY <1>1, <1>5, <2>1, <2>2, <2>4 DEF y
    <2>5. CASE d = c /\ ~PreservesNative(m) /\ b = a
      <3>1. \A j \in DOMAIN x.exchanges :
              x.exchanges[j].prompt \in injected[m] \cup seen[a] \cup overlapped[a]
        BY <1>1, <2>5 DEF AskedAgentsKnow, Places, Kept
      <3>2. i \in DOMAIN y.exchanges /\ ctx'[d].exchanges[i] = y.exchanges[i]
        BY <1>5, <2>5
      <3>3. CASE y.exchanges[i] = e
        BY <1>2, <2>5, <3>2, <3>3
      <3>4. CASE \E j \in DOMAIN x.exchanges : y.exchanges[i] = x.exchanges[j]
        <4>1. PICK j \in DOMAIN x.exchanges : y.exchanges[i] = x.exchanges[j]
          BY <3>4
        <4> DEFINE k == x.exchanges[j].prompt
        <4>2. k \in injected[m] \cup seen[a] \cup overlapped[a]
          BY <3>1
        <4>3. ctx'[d].exchanges[i].prompt = k
          BY <3>2, <4>1
        <4>4. injected[m] \subseteq seen'[a] /\ seen[a] \subseteq seen'[a]
          BY <1>2
        <4> HIDE DEF k, a
        <4> QED
          BY <2>1, <2>5, <4>2, <4>3, <4>4
      <3> QED
        BY <1>4, <3>2, <3>3, <3>4
    <2>6. CASE d = c /\ ~PreservesNative(m) /\ b # a
      <3>1. y.watermarks[b] = x.watermarks[b] /\ x.watermarks[b] \in Int
        BY <1>1, <1>4, <2>6, ContextTypes DEF Context
      <3>2. CASE y.exchanges[i] = e
        <4>1. x.next_seq <= x.watermarks[b]
          BY <1>5, <2>6, <3>1, <3>2
        <4> QED
          BY <1>1, <1>7, <3>1, <4>1 DEF WatermarksAreGiven
      <3>3. CASE \E j \in DOMAIN x.exchanges : y.exchanges[i] = x.exchanges[j]
        BY <1>1, <1>5, <2>1, <2>2, <2>6, <3>1, <3>3
      <3> QED
        BY <1>4, <1>5, <2>6, <3>2, <3>3
    <2> QED
      BY <2>3, <2>4, <2>5, <2>6
  <1>17. WatermarksAreGiven'
    <2> SUFFICES ASSUME NEW d \in Chat, NEW b \in Agent
                 PROVE  ctx'[d].watermarks[b] < ctx'[d].next_seq
      BY DEF WatermarksAreGiven
    <2>1. CASE d # c
      BY <1>5, <2>1 DEF WatermarksAreGiven
    <2>2. CASE d = c
      <3>1. x.watermarks[b] < x.next_seq /\ x.watermarks[b] \in Int
        BY <1>1, ContextTypes DEF WatermarksAreGiven
      <3>2. x.watermarks \in [Agent -> Nat \cup {NoWatermark}]
        BY <1>1 DEF Context
      <3>3. CASE PreservesNative(m)
        BY <1>5, <2>2, <3>1, <3>3 DEF y
      <3>4. CASE ~PreservesNative(m)
        <4>1. y.watermarks[b] = IF b = a THEN x.next_seq ELSE x.watermarks[b]
          BY <1>4, <3>2, <3>4
        <4>2. y.next_seq = x.next_seq + 1 /\ x.next_seq \in Nat
          BY <1>4, <1>7, <3>4
        <4> HIDE DEF x, a
        <4>3. y.watermarks[b] < y.next_seq
          BY <3>1, <4>1, <4>2
        <4> QED
          BY <1>5, <2>2, <4>3
      <3> QED
        BY <3>3, <3>4
    <2> QED
      BY <2>1, <2>2
  <1> QED
    BY <1>17, <1>8, <1>10, <1>11, <1>12, <1>13, <1>14, <1>15, <1>16

LEMMA ClearKeepsDispatch ==
  ASSUME DispatchInv, NEW c \in Chat, clear(c)
  PROVE  DispatchInv'
  <1> USE DEF DispatchInv
  <1>1. /\ ctx'[c] = EmptyContext
        /\ \A d \in Chat \ {c} : ctx'[d] = ctx[d]
        /\ ctx' \in [Chat -> Context]
        /\ UNCHANGED <<active, pc, chat, agent, injected, seen, overlapped>>
    BY EmptyContextType DEF clear, DispatchTypeOK
  <1>2. DOMAIN EmptyContext.exchanges = {} /\ Len(EmptyContext.exchanges) = 0
    BY DEF EmptyContext
  <1>3. DispatchTypeOK'
    BY <1>1 DEF DispatchTypeOK
  <1>4. WatermarksAreGiven'
    <2> SUFFICES ASSUME NEW d \in Chat, NEW a \in Agent
                 PROVE  ctx'[d].watermarks[a] < ctx'[d].next_seq
      BY DEF WatermarksAreGiven
    <2>1. EmptyContext.watermarks[a] < EmptyContext.next_seq
      BY DEF EmptyContext, NoWatermark
    <2> QED
      BY <1>1, <2>1 DEF WatermarksAreGiven
  <1>5. BuffersAreOfTheirChat'
    BY <1>1, <1>2 DEF BuffersAreOfTheirChat, Places, Kept
  <1>6. PreamblesAreOfTheirChat' /\ SeenIsAnswered'
    BY <1>1 DEF PreamblesAreOfTheirChat, PreservesNative, SeenIsAnswered
  <1>7. UnseenIsNew'
    BY <1>1, <1>2 DEF UnseenIsNew, Unseen, Kept
  <1>8. BuffersAreBounded'
    BY <1>1, <1>2, ContextAssumption DEF BuffersAreBounded
  <1>9. AskedAgentsKnow' /\ SkipsOnlyOverlaps'
    BY <1>1, <1>2
      DEF AskedAgentsKnow, SkipsOnlyOverlaps, PreservesNative, Places, Kept, DispatchTypeOK
  <1> QED
    BY <1>3, <1>4, <1>5, <1>6, <1>7, <1>8, <1>9

\* Arrivals, pauses, failures and switches touch no buffer and no history.
LEMMA QuietStepsKeepDispatch ==
  ASSUME DispatchInv,
         \/ \E m \in Message : receive(m) \/ approval_pending(m) \/ dispatch_failed(m)
         \/ \E c \in Chat, a \in Agent : switch(c, a)
         \/ UNCHANGED vars
  PROVE  DispatchInv'
  <1>1. ASSUME NEW m \in Message, receive(m) PROVE DispatchInv'
    <2>1. DispatchTypeOK'
      BY <1>1 DEF receive, DispatchInv, DispatchTypeOK, Position
    <2>2. \A q \in Message :
            /\ pc[q] = "answered" <=> pc'[q] = "answered"
            /\ pc'[q] = "waiting" => pc[q] = "waiting"
            /\ pc[q] = "waiting" => agent'[q] = agent[q]
      BY <1>1 DEF receive, DispatchInv, DispatchTypeOK
    <2> QED
      BY <1>1, <2>1, <2>2, DispatchQuietly DEF receive
  <1>2. ASSUME NEW m \in Message, approval_pending(m) \/ dispatch_failed(m)
        PROVE  DispatchInv'
    <2>1. DispatchTypeOK'
      BY <1>2 DEF approval_pending, dispatch_failed, DispatchInv, DispatchTypeOK, Position
    <2>2. \A q \in Message :
            /\ pc[q] = "answered" <=> pc'[q] = "answered"
            /\ pc'[q] = "waiting" => pc[q] = "waiting"
            /\ pc[q] = "waiting" => agent'[q] = agent[q]
      BY <1>2 DEF approval_pending, dispatch_failed, DispatchInv, DispatchTypeOK
    <2> QED
      BY <1>2, <2>1, <2>2, DispatchQuietly DEF approval_pending, dispatch_failed
  <1>3. ASSUME (\E c \in Chat, a \in Agent : switch(c, a)) \/ UNCHANGED vars
        PROVE  DispatchInv'
    <2>1. DispatchTypeOK'
      BY <1>3 DEF switch, vars, DispatchInv, DispatchTypeOK
    <2> QED
      BY <1>3, <2>1, DispatchQuietly DEF switch, vars
  <1> QED
    BY <1>1, <1>2, <1>3

LEMMA DispatchIsInductive ==
  ASSUME DispatchInv, [Next]_vars
  PROVE  DispatchInv'
  BY AugmentKeepsDispatch, AnswerKeepsDispatch, ClearKeepsDispatch,
     QuietStepsKeepDispatch DEF Next

LEMMA DispatchAlways == Spec => []DispatchInv
  BY DispatchInitially, DispatchIsInductive, PTL DEF Spec

\* However messages, answers, switches and clears interleave, an agent's
\* watermark passes over nothing it was not given, except what was recorded
\* while it was being asked (augment_message_with_options, push_with_options).
THEOREM WatermarksSkipOverlapsOnly == Spec => []SkipsOnlyOverlaps
  BY DispatchAlways, PTL DEF DispatchInv

\* No preamble repeats what its agent was already given with a message it
\* answered (build_preamble, push_with_options).
THEOREM PreamblesAreFresh == Spec => NeverReinjected
  <1> DEFINE Fresh == \A m \in Message :
               pc[m] = "spawned" /\ pc'[m] = "waiting" =>
                 injected'[m] \cap seen[agent[m]] = {}
  <1>1. ASSUME DispatchInv, [Next]_vars
        PROVE  [Fresh]_vars
    <2> SUFFICES ASSUME NEW m \in Message, pc[m] = "spawned", pc'[m] = "waiting"
                 PROVE  injected'[m] \cap seen[agent[m]] = {}
      OBVIOUS
    <2>1. pc \in [Message -> Position]
      BY <1>1 DEF DispatchInv, DispatchTypeOK
    <2>2. PICK q \in Message : \/ receive(q) \/ augment_message(q) \/ answer(q)
                               \/ approval_pending(q) \/ dispatch_failed(q)
      BY <1>1, <2>1 DEF Next, vars, clear, switch
    <2>3. augment_message(m)
      BY <2>1, <2>2
        DEF receive, augment_message, answer, approval_pending, dispatch_failed
    <2> QED
      BY <1>1, <2>3, AugmentKeepsDispatch
  <1> QED
    BY <1>1, DispatchAlways, PTL DEF Spec, NeverReinjected

-----------------------------------------------------------------------------
(* The selections.                                                         *)

AnyMap == [Identity -> Agents \cup {None}]
            \cup [Identity -> [Agents -> Session \cup {None}]]
            \cup [Identity -> Model \cup {None}]

Operation == [identity : Identity \cup {None}, agent : Agents \cup {None},
              session : Session \cup {None}, file : File]

\* What a map may hold: no agent but the default one that was never allowed.
Maps(f) ==
  IF f = "agents"
  THEN {map \in [Identity -> Agents \cup {None}] :
          \A i \in Identity : map[i] \in granted[i] \cup {Default[i], None}}
  ELSE IF f = "sessions" THEN [Identity -> [Agents -> Session \cup {None}]]
  ELSE [Identity -> Model \cup {None}]

SelectionsTypeOK ==
  /\ allowed \in [Identity -> SUBSET Agents]
  /\ selectors \subseteq Model
  /\ granted \in [Identity -> SUBSET Agents]
  /\ disk \in [File -> [state : {"ok", "empty", "garbled"}, map : AnyMap]]
  /\ step \in [Command -> {"new", "session", "truncate", "fill", "done"}]
  /\ op \in [Command -> Operation]
  /\ snap \in [Command -> AnyMap]
  /\ raced \subseteq File

\* Maps hold what was selected, wherever they are: in memory, in a file or in
\* the hands of a command that writes it.
MapsAreSound ==
  /\ \A i \in Identity : allowed[i] \subseteq granted[i]
  /\ \A f \in File : Current(f) \in Maps(f) /\ disk[f].map \in Maps(f)
  /\ \A f \in File : \A c \in Writers(f) : snap[c] \in Maps(f)

OverridesAreListed ==
  selectors \cap Synthetic # {} =>
    \A i \in Identity : models[i] \in selectors \cup Matched \cup {None}

\* A file that two commands did not write at once has one writer at most; that
\* one holds the map in memory, and finds the file as it truncated it.
FileFollows(f) ==
  f \notin raced =>
    /\ \A c, d \in Writers(f) : c = d
    /\ \A c \in Writers(f) : /\ snap[c] = Current(f)
                             /\ step[c] = "fill" => disk[f].state = "empty"
    /\ Writers(f) = {} => read_json_map(f) = Current(f)

SelectionsInv ==
  /\ SelectionsTypeOK
  /\ MapsAreSound
  /\ OverridesAreListed
  /\ \A f \in File : FileFollows(f)

LEMMA MapTypes ==
  ASSUME NEW f \in File
  PROVE  Maps(f) \subseteq AnyMap /\ EmptyMap(f) \in Maps(f)
  <1>1. f \in {"agents", "sessions", "models"}
    BY DEF File
  <1>2. Maps(f) \subseteq AnyMap
    BY <1>1 DEF Maps, AnyMap
  <1>3. EmptyMap(f) \in Maps(f)
    BY <1>1 DEF Maps, EmptyMap
  <1> QED
    BY <1>2, <1>3

\* A map that holds one more selection of the right kind.
LEMMA MapSelections ==
  /\ \A map \in Maps("agents"), i \in Identity, a \in Agents :
       a \in granted[i] \cup {Default[i]} => [map EXCEPT ![i] = a] \in Maps("agents")
  /\ \A map \in Maps("models"), i \in Identity, m \in Model :
       [map EXCEPT ![i] = m] \in Maps("models")
  /\ \A map \in Maps("sessions"), i \in Identity \cup {None}, a \in Agents,
        s \in Session \cup {None} :
       [map EXCEPT ![i][a] = s] \in Maps("sessions")
  /\ \A map \in Maps("sessions"), i \in Identity \cup {None} :
       [map EXCEPT ![i] = [a \in Agents |-> None]] \in Maps("sessions")
  BY DEF Maps

LEMMA SelectionsInitially == SelectionsInit => SelectionsInv
  <1> SUFFICES ASSUME SelectionsInit PROVE SelectionsInv
    OBVIOUS
  <1>1. \A f \in File : EmptyMap(f) \in AnyMap /\ EmptyMap(f) \in Maps(f)
    BY MapTypes
  <1>2. "agents" \in File
    BY DEF File
  <1>3. SelectionsTypeOK
    BY <1>1, <1>2 DEF SelectionsInit, SelectionsTypeOK, Operation, NoOp, EmptyMap
  <1>4. \A f \in File : Writers(f) = {}
    BY DEF SelectionsInit, Writers
  <1>5. \A f \in File : Current(f) = EmptyMap(f) /\ disk[f].map = EmptyMap(f)
                        /\ disk[f].state = "ok"
    BY DEF SelectionsInit, Current, File, EmptyMap
  <1>6. MapsAreSound
    BY <1>1, <1>4, <1>5 DEF SelectionsInit, MapsAreSound
  <1>7. OverridesAreListed
    BY DEF SelectionsInit, OverridesAreListed, EmptyMap
  <1>8. \A f \in File : FileFollows(f)
    BY <1>4, <1>5 DEF FileFollows, read_json_map
  <1> QED
    BY <1>3, <1>6, <1>7, <1>8 DEF SelectionsInv

\* What a step leaves alone in a file, a command and the memory.
Untouched(f) ==
  /\ Writers(f)' = Writers(f)
  /\ \A c \in Writers(f) : step'[c] = step[c] /\ snap'[c] = snap[c]
  /\ disk'[f] = disk[f]
  /\ Current(f)' = Current(f)
  /\ f \in raced => f \in raced'

LEMMA UntouchedFiles ==
  ASSUME NEW f \in File, FileFollows(f), Untouched(f)
  PROVE  FileFollows(f)'
  BY DEF FileFollows, Untouched, read_json_map, EmptyMap

\* The effect of taking a copy of a map in order to write it.
LEMMA SavesCopies ==
  ASSUME SelectionsTypeOK, NEW c \in Command, NEW f \in File, NEW map \in Maps(f),
         NEW o \in Operation, Saves(c, f, map, o)
  PROVE  /\ snap' \in [Command -> AnyMap] /\ snap'[c] = map
         /\ op' \in [Command -> Operation] /\ op'[c] = [o EXCEPT !.file = f]
         /\ step' \in [Command -> {"new", "session", "truncate", "fill", "done"}]
         /\ step'[c] = "truncate"
         /\ \A d \in Command \ {c} :
              snap'[d] = snap[d] /\ op'[d] = op[d] /\ step'[d] = step[d]
         /\ raced' \subseteq File
         /\ raced' = IF Writers(f) \ {c} = {} THEN raced \ {f} ELSE raced \cup {f}
         /\ Writers(f)' = Writers(f) \cup {c}
         /\ \A g \in File \ {f} : Writers(g)' = Writers(g) \ {c}
  <1>1. /\ map \in AnyMap
        /\ [o EXCEPT !.file = f] \in Operation /\ [o EXCEPT !.file = f].file = f
    BY MapTypes DEF Operation
  <1>2. /\ snap' \in [Command -> AnyMap] /\ snap'[c] = map
        /\ op' \in [Command -> Operation] /\ op'[c] = [o EXCEPT !.file = f]
        /\ op'[c].file = f
        /\ step' \in [Command -> {"new", "session", "truncate", "fill", "done"}]
        /\ step'[c] = "truncate"
        /\ \A d \in Command \ {c} :
             snap'[d] = snap[d] /\ op'[d] = op[d] /\ step'[d] = step[d]
    BY <1>1 DEF Saves, SelectionsTypeOK
  <1>3. /\ raced' \subseteq File
        /\ raced' = IF Writers(f) \ {c} = {} THEN raced \ {f} ELSE raced \cup {f}
    BY DEF Saves, SelectionsTypeOK
  <1>4. Writers(f)' = Writers(f) \cup {c}
    BY <1>2 DEF Writers
  <1>5. \A g \in File \ {f} : Writers(g)' = Writers(g) \ {c}
    BY <1>2 DEF Writers
  <1> QED
    BY <1>2, <1>3, <1>4, <1>5

\* A command that writes nothing takes a copy of a map it just changed.
LEMMA SavesKeepsSelections ==
  ASSUME SelectionsInv, NEW c \in Command, NEW f \in File, NEW map \in Maps(f),
         NEW o \in Operation, Saves(c, f, map, o),
         \A g \in File : c \notin Writers(g),
         \A g \in File : Current(g)' = IF g = f THEN map ELSE Current(g),
         UNCHANGED <<config, disk, granted>>,
         OverridesAreListed'
  PROVE  SelectionsInv'
  <1>1. SelectionsTypeOK
    BY DEF SelectionsInv
  <1>2. /\ snap' \in [Command -> AnyMap] /\ snap'[c] = map
        /\ op' \in [Command -> Operation] /\ op'[c] = [o EXCEPT !.file = f]
        /\ step' \in [Command -> {"new", "session", "truncate", "fill", "done"}]
        /\ step'[c] = "truncate"
        /\ \A d \in Command \ {c} :
             snap'[d] = snap[d] /\ op'[d] = op[d] /\ step'[d] = step[d]
        /\ raced' \subseteq File
        /\ raced' = IF Writers(f) \ {c} = {} THEN raced \ {f} ELSE raced \cup {f}
        /\ Writers(f)' = Writers(f) \cup {c}
        /\ \A g \in File \ {f} : Writers(g)' = Writers(g) \ {c}
    BY <1>1, SavesCopies
  <1>3. \A g \in File : Maps(g)' = Maps(g)
    BY DEF Maps
  <1>4. SelectionsTypeOK'
    BY <1>1, <1>2 DEF SelectionsTypeOK, config
  <1>5. \A g \in File : Writers(g) \subseteq Command
    BY DEF Writers
  <1>6. MapsAreSound'
    <2>1. \A i \in Identity : allowed'[i] \subseteq granted'[i]
      BY DEF SelectionsInv, MapsAreSound, config
    <2>2. \A g \in File : Current(g)' \in Maps(g)' /\ disk'[g].map \in Maps(g)'
      BY <1>3 DEF SelectionsInv, MapsAreSound
    <2>3. ASSUME NEW g \in File, NEW d \in Writers(g)' PROVE snap'[d] \in Maps(g)'
      BY <1>2, <1>3, <1>5, <2>3 DEF SelectionsInv, MapsAreSound
    <2> QED
      BY <2>1, <2>2, <2>3 DEF MapsAreSound
  <1>7. ASSUME NEW g \in File, g # f PROVE FileFollows(g)'
    <2>1. Untouched(g)
      <3>1. c \notin Writers(g)
        OBVIOUS
      <3>2. Writers(g)' = Writers(g)
        BY <1>2, <1>7, <3>1 DEF Writers
      <3> QED
        BY <1>2, <1>5, <1>7, <3>1, <3>2 DEF Untouched
    <2> QED
      BY <2>1, UntouchedFiles DEF SelectionsInv
  <1>8. FileFollows(f)'
    <2>1. CASE Writers(f) \ {c} = {}
      BY <1>2, <2>1 DEF FileFollows
    <2>2. CASE Writers(f) \ {c} # {}
      BY <1>2, <2>2 DEF FileFollows
    <2> QED
      BY <2>1, <2>2
  <1> QED
    BY <1>4, <1>6, <1>7, <1>8 DEF SelectionsInv

LEMMA SwitchKeepsSelections ==
  ASSUME SelectionsInv, NEW c \in Command,
         handle_switch(c) \/ handle_default(c) \/ handle_model(c)
  PROVE  SelectionsInv'
  <1>1. \A g \in File : c \notin Writers(g)
    BY DEF handle_switch, handle_default, handle_model, Arrives, Writers
  <1>2. NoOp \in Operation /\ \A i \in Identity : [NoOp EXCEPT !.identity = i] \in Operation
    BY DEF NoOp, Operation, File
  <1>3. CASE handle_switch(c)
    <2>1. PICK i \in Identity, s \in Session \cup {None} : \E a \in switchable(i) :
            /\ agents' = [agents EXCEPT ![i] = a]
            /\ Saves(c, "agents", agents',
                     [identity |-> i, agent |-> a, session |-> s, file |-> "agents"])
      BY <1>3 DEF handle_switch
    <2>2. PICK a \in switchable(i) :
            /\ agents' = [agents EXCEPT ![i] = a]
            /\ Saves(c, "agents", agents',
                     [identity |-> i, agent |-> a, session |-> s, file |-> "agents"])
      BY <2>1
    <2> DEFINE o == [identity |-> i, agent |-> a, session |-> s, file |-> "agents"]
    <2>3. a \in Agents /\ a \in granted[i]
      BY <2>2 DEF switchable, SelectionsInv, SelectionsTypeOK, MapsAreSound
    <2>4. o \in Operation
      BY <2>3 DEF Operation, File
    <2>5. "agents" \in File /\ agents \in Maps("agents")
      BY DEF SelectionsInv, MapsAreSound, File, Current
    <2>6. [agents EXCEPT ![i] = a] \in Maps("agents")
      BY <2>3, <2>5, MapSelections
    <2>7. \A g \in File : Current(g)' = IF g = "agents" THEN [agents EXCEPT ![i] = a]
                                                       ELSE Current(g)
      BY <1>3, <2>2 DEF handle_switch, Current, EmptyMap
    <2>8. UNCHANGED <<config, disk, granted>> /\ OverridesAreListed'
      BY <1>3 DEF handle_switch, SelectionsInv, OverridesAreListed, config
    <2>9. Saves(c, "agents", [agents EXCEPT ![i] = a], o)
      BY <2>2
    <2> HIDE DEF o
    <2> QED
      BY <1>1, <2>4, <2>5, <2>6, <2>7, <2>8, <2>9, SavesKeepsSelections
  <1>4. CASE handle_default(c)
    <2>1. PICK i \in Identity :
            /\ agents' = [agents EXCEPT ![i] = Default[i]]
            /\ Saves(c, "agents", agents', [NoOp EXCEPT !.identity = i])
      BY <1>4 DEF handle_default
    <2>2. "agents" \in File /\ agents \in Maps("agents") /\ Default[i] \in Agents
      BY SelectionsAssumption DEF SelectionsInv, MapsAreSound, File, Current
    <2>3. [agents EXCEPT ![i] = Default[i]] \in Maps("agents")
      BY <2>2, MapSelections
    <2>4. \A g \in File : Current(g)' = IF g = "agents"
                                        THEN [agents EXCEPT ![i] = Default[i]]
                                        ELSE Current(g)
      BY <1>4, <2>1 DEF handle_default, Current, EmptyMap
    <2>5. UNCHANGED <<config, disk, granted>> /\ OverridesAreListed'
      BY <1>4 DEF handle_default, SelectionsInv, OverridesAreListed, config
    <2>6. Saves(c, "agents", [agents EXCEPT ![i] = Default[i]], [NoOp EXCEPT !.identity = i])
      BY <2>1
    <2> QED
      BY <1>1, <1>2, <2>2, <2>3, <2>4, <2>5, <2>6, SavesKeepsSelections
  <1>5. CASE handle_model(c)
    <2>1. PICK i \in Identity, m \in selectors \cup Matched :
            /\ models' = [models EXCEPT ![i] = m]
            /\ Saves(c, "models", models', [NoOp EXCEPT !.identity = i])
      BY <1>5 DEF handle_model
    <2>2. "models" \in File /\ models \in Maps("models") /\ m \in Model
      BY <2>1, SelectionsAssumption
        DEF SelectionsInv, SelectionsTypeOK, MapsAreSound, File, Current
    <2>3. [models EXCEPT ![i] = m] \in Maps("models")
      BY <2>2, MapSelections
    <2>4. \A g \in File : Current(g)' = IF g = "models" THEN [models EXCEPT ![i] = m]
                                                       ELSE Current(g)
      BY <1>5, <2>1 DEF handle_model, Current, EmptyMap, File
    <2>5. UNCHANGED <<config, disk, granted>>
      BY <1>5 DEF handle_model
    <2>6. OverridesAreListed'
      BY <2>1, <2>2, <2>5 DEF SelectionsInv, OverridesAreListed, config, Maps
    <2>7. Saves(c, "models", [models EXCEPT ![i] = m], [NoOp EXCEPT !.identity = i])
      BY <2>1
    <2> QED
      BY <1>1, <1>2, <2>2, <2>3, <2>4, <2>5, <2>6, <2>7, SavesKeepsSelections
  <1> QED
    BY <1>3, <1>4, <1>5

LEMMA SessionKeepsSelections ==
  ASSUME SelectionsInv, NEW c \in Command,
         handle_new_session(c) \/ set_active_session_for(c)
  PROVE  SelectionsInv'
  <1>1. \A g \in File : c \notin Writers(g)
    BY DEF handle_new_session, set_active_session_for, Arrives, Writers
  <1>2. CASE handle_new_session(c)
    <2>1. PICK i \in Identity, s \in Session :
            /\ active_agent_for(i) \in SessionAgent
            /\ op' = [op EXCEPT ![c] = [identity |-> i, agent |-> active_agent_for(i),
                                       session |-> s, file |-> "sessions"]]
      BY <1>2 DEF handle_new_session
    <2>2. [identity |-> i, agent |-> active_agent_for(i),
           session |-> s, file |-> "sessions"] \in Operation
      BY <2>1, SelectionsAssumption DEF Operation, File
    <2>3. /\ step' = [step EXCEPT ![c] = "session"]
          /\ UNCHANGED <<config, memory, disk, snap, raced, granted>>
      BY <1>2 DEF handle_new_session
    <2>4. SelectionsTypeOK'
      BY <2>1, <2>2, <2>3 DEF SelectionsInv, SelectionsTypeOK, config
    <2>5. ASSUME NEW g \in File PROVE Untouched(g)
      <3>1. Writers(g)' = Writers(g)
        BY <1>1, <2>1, <2>3 DEF Writers, SelectionsInv, SelectionsTypeOK
      <3> QED
        BY <1>1, <2>3, <3>1
          DEF Untouched, memory, Current, EmptyMap, SelectionsInv, SelectionsTypeOK
    <2>6. MapsAreSound'
      <3>1. \A g \in File : Writers(g)' = Writers(g) /\ Current(g)' = Current(g)
        BY <2>5 DEF Untouched
      <3> QED
        BY <2>3, <3>1 DEF MapsAreSound, SelectionsInv, Maps, config
    <2>7. OverridesAreListed'
      BY <2>3 DEF SelectionsInv, OverridesAreListed, config, memory
    <2> QED
      BY <2>4, <2>5, <2>6, <2>7, UntouchedFiles DEF SelectionsInv
  <1>3. CASE set_active_session_for(c)
    <2> DEFINE map == [sessions EXCEPT ![op[c].identity][op[c].agent] = op[c].session]
    <2>1. /\ sessions' = map /\ Saves(c, "sessions", map, op[c])
          /\ UNCHANGED <<config, agents, models, disk, granted>>
      BY <1>3 DEF set_active_session_for
    <2>2. /\ op[c] \in Operation
          /\ op[c].identity \in Identity \cup {None}
          /\ op[c].agent \in Agents \cup {None}
          /\ op[c].session \in Session \cup {None}
      BY DEF SelectionsInv, SelectionsTypeOK, Operation
    <2>3. "sessions" \in File /\ sessions \in Maps("sessions")
      BY DEF SelectionsInv, MapsAreSound, File, Current
    <2>4. map \in Maps("sessions")
      <3>1. CASE op[c].agent \in Agents
        BY <2>2, <2>3, <3>1, MapSelections
      <3>2. CASE op[c].agent = None
        <4> DEFINE row == sessions[op[c].identity]
                   changed == [row EXCEPT ![op[c].agent] = op[c].session]
        <4>1. sessions \in [Identity -> [Agents -> Session \cup {None}]]
          BY <2>3 DEF Maps
        <4>2. map = [sessions EXCEPT ![op[c].identity] = changed]
          OBVIOUS
        <4>3. ASSUME op[c].identity \in Identity PROVE changed = row
          <5>1. row \in [Agents -> Session \cup {None}] /\ op[c].agent \notin Agents
            BY <3>2, <4>1, <4>3, SelectionsAssumption
          <5> HIDE DEF row
          <5> QED BY <5>1
        <4> HIDE DEF map, changed
        <4>4. map = sessions
          BY <4>1, <4>2, <4>3
        <4> QED BY <2>3, <4>4
      <3> QED
        BY <2>2, <3>1, <3>2
    <2> HIDE DEF map
    <2>5. \A g \in File : Current(g)' = IF g = "sessions" THEN map ELSE Current(g)
      BY <2>1 DEF Current, EmptyMap, File
    <2>6. UNCHANGED <<config, disk, granted>> /\ OverridesAreListed'
      BY <2>1 DEF SelectionsInv, OverridesAreListed, config
    <2> QED
      BY <1>1, <2>1, <2>2, <2>3, <2>4, <2>5, <2>6, SavesKeepsSelections
  <1> QED
    BY <1>2, <1>3

LEMMA TruncateKeepsSelections ==
  ASSUME SelectionsInv, NEW c \in Command, truncate(c)
  PROVE  SelectionsInv'
  <1>0. PICK f \in File : f = op[c].file
    BY DEF SelectionsInv, SelectionsTypeOK, Operation
  <1>1. /\ c \in Writers(f)
        /\ \A g \in File \ {f} : c \notin Writers(g)
    BY <1>0 DEF truncate, Writers
  <1>2. /\ disk' = [disk EXCEPT ![f] = [state |-> "empty", map |-> EmptyMap(f)]]
        /\ step' = [step EXCEPT ![c] = "fill"]
        /\ UNCHANGED <<config, memory, op, snap, restarts, raced, granted>>
    BY <1>0 DEF truncate
  <1>3. EmptyMap(f) \in AnyMap /\ EmptyMap(f) \in Maps(f)
    BY <1>1, MapTypes
  <1>4. /\ disk'[f] = [state |-> "empty", map |-> EmptyMap(f)]
        /\ \A g \in File \ {f} : disk'[g] = disk[g]
        /\ \A d \in Command \ {c} : step'[d] = step[d]
    BY <1>1, <1>2 DEF SelectionsInv, SelectionsTypeOK
  <1>5. \A g \in File : /\ Current(g)' = Current(g)
                        /\ Writers(g)' = Writers(g)
                        /\ Maps(g)' = Maps(g)
    <2>1. \A g \in File : Current(g)' = Current(g) /\ Maps(g)' = Maps(g)
      BY <1>2 DEF memory, Current, Maps
    <2>2. \A d \in Command : step'[d] \in {"truncate", "fill"}
                               <=> step[d] \in {"truncate", "fill"}
      BY <1>2 DEF truncate, SelectionsInv, SelectionsTypeOK
    <2> QED
      BY <1>2, <2>1, <2>2 DEF Writers
  <1>6. SelectionsTypeOK'
    BY <1>1, <1>2, <1>3 DEF SelectionsInv, SelectionsTypeOK, config
  <1>7. MapsAreSound'
    BY <1>2, <1>3, <1>4, <1>5 DEF SelectionsInv, MapsAreSound, config
  <1>8. OverridesAreListed'
    BY <1>2 DEF SelectionsInv, OverridesAreListed, config, memory
  <1>9. ASSUME NEW g \in File \ {f} PROVE FileFollows(g)'
    <2>1. Untouched(g)
      <3>1. \A d \in Writers(g) : d \in Command /\ d # c
        BY <1>1 DEF Writers
      <3>2. Current(g)' = Current(g) /\ Writers(g)' = Writers(g)
        BY <1>5 DEF Current, Writers
      <3> QED
        BY <1>2, <1>4, <3>1, <3>2 DEF Untouched
    <2> QED
      BY <2>1, UntouchedFiles DEF SelectionsInv
  <1>10. FileFollows(f)'
    <2>1. Current(f)' = Current(f) /\ Writers(f)' = Writers(f)
      BY <1>1, <1>5 DEF Current, Writers
    <2>2. f \notin raced => Writers(f) = {c}
      BY <1>1 DEF SelectionsInv, FileFollows
    <2> QED
      BY <1>1, <1>2, <1>4, <2>1, <2>2 DEF SelectionsInv, FileFollows
  <1> QED
    BY <1>6, <1>7, <1>8, <1>9, <1>10 DEF SelectionsInv

\* What the file holds when a command has written it.
LEMMA FillWrites ==
  ASSUME SelectionsInv, NEW c \in Command, fill(c)
  PROVE  LET f == op[c].file
         IN  /\ f \in File /\ c \in Writers(f)
             /\ \A g \in File \ {f} : c \notin Writers(g) /\ disk'[g] = disk[g]
             /\ disk' \in [File -> [state : {"ok", "empty", "garbled"}, map : AnyMap]]
             /\ disk'[f].map \in Maps(f)
             /\ f \notin raced =>
                  /\ Writers(f) = {c}
                  /\ disk'[f] = [state |-> "ok", map |-> Current(f)]
  <1> DEFINE f == op[c].file
  <1>1. /\ f \in File /\ c \in Writers(f)
        /\ \A g \in File \ {f} : c \notin Writers(g)
    BY DEF fill, Writers, SelectionsInv, SelectionsTypeOK, Operation
  <1>2. PICK content \in Filled(f, snap[c]) : disk' = [disk EXCEPT ![f] = content]
    BY DEF fill
  <1> HIDE DEF f
  <1>3. snap[c] \in Maps(f) /\ EmptyMap(f) \in Maps(f)
    BY <1>1, MapTypes DEF SelectionsInv, MapsAreSound
  <1>4. Maps(f) \subseteq AnyMap
    BY <1>1, MapTypes
  <1>5. /\ content \in [state : {"ok", "empty", "garbled"}, map : AnyMap]
        /\ content.map \in Maps(f)
        /\ disk[f].state = "empty" => content = [state |-> "ok", map |-> snap[c]]
    BY <1>2, <1>3, <1>4 DEF Filled
  <1>6. /\ disk' \in [File -> [state : {"ok", "empty", "garbled"}, map : AnyMap]]
        /\ disk'[f] = content
        /\ \A g \in File \ {f} : disk'[g] = disk[g]
    BY <1>1, <1>2, <1>5 DEF SelectionsInv, SelectionsTypeOK
  <1>7. f \notin raced => /\ Writers(f) = {c}
                          /\ disk'[f] = [state |-> "ok", map |-> Current(f)]
    BY <1>1, <1>5, <1>6 DEF SelectionsInv, FileFollows, fill
  <1> QED
    BY <1>1, <1>5, <1>6, <1>7 DEF f

LEMMA FillKeepsSelections ==
  ASSUME SelectionsInv, NEW c \in Command, fill(c)
  PROVE  SelectionsInv'
  <1>0. PICK f \in File : f = op[c].file
    BY DEF SelectionsInv, SelectionsTypeOK, Operation
  <1>1. /\ c \in Writers(f)
        /\ \A g \in File \ {f} : c \notin Writers(g) /\ disk'[g] = disk[g]
        /\ disk' \in [File -> [state : {"ok", "empty", "garbled"}, map : AnyMap]]
        /\ disk'[f].map \in Maps(f)
        /\ f \notin raced => /\ Writers(f) = {c}
                             /\ disk'[f] = [state |-> "ok", map |-> Current(f)]
    BY <1>0, FillWrites
  <1>2. /\ UNCHANGED <<config, agents, models, granted>>
        /\ \A g \in File : Maps(g)' = Maps(g)
    BY DEF fill, Maps
  <1>3. \A g \in File : Writers(g) \subseteq Command
    BY DEF Writers
  <1>4. OverridesAreListed'
    BY <1>2 DEF SelectionsInv, OverridesAreListed, config
  <1>5. op[c] \in Operation
    BY DEF SelectionsInv, SelectionsTypeOK
  <1>6. CASE f = "agents"
    <2> DEFINE map == SessionsAfter(op[c])
    <2>1. sessions' = map /\ Saves(c, "sessions", map, op[c])
      BY <1>0, <1>6 DEF fill, After
    <2>2. map \in Maps("sessions")
      <3>1. sessions \in Maps("sessions")
        BY DEF SelectionsInv, MapsAreSound, File, Current
      <3>2. /\ op[c].identity \in Identity \cup {None}
            /\ op[c].agent \in Agents \cup {None}
            /\ op[c].session \in Session \cup {None}
        BY <1>5 DEF Operation
      <3> QED
        BY <3>1, <3>2, MapSelections DEF SessionsAfter
    <2> HIDE DEF map
    <2>3. "sessions" \in File /\ SelectionsTypeOK
      BY DEF File, SelectionsInv
    <2>4. /\ snap' \in [Command -> AnyMap] /\ snap'[c] = map
          /\ op' \in [Command -> Operation] /\ op'[c] = [op[c] EXCEPT !.file = "sessions"]
          /\ step' \in [Command -> {"new", "session", "truncate", "fill", "done"}]
          /\ step'[c] = "truncate"
          /\ \A d \in Command \ {c} :
               snap'[d] = snap[d] /\ op'[d] = op[d] /\ step'[d] = step[d]
          /\ raced' \subseteq File
          /\ raced' = IF Writers("sessions") \ {c} = {} THEN raced \ {"sessions"}
                                                       ELSE raced \cup {"sessions"}
          /\ Writers("sessions")' = Writers("sessions") \cup {c}
          /\ \A g \in File \ {"sessions"} : Writers(g)' = Writers(g) \ {c}
      BY <1>5, <2>1, <2>2, <2>3, SavesCopies
    <2>5. /\ Current("sessions")' = map
          /\ \A g \in File \ {"sessions"} : Current(g)' = Current(g)
      BY <1>2, <2>1 DEF Current, File
    <2>6. SelectionsTypeOK'
      BY <1>1, <1>2, <2>3, <2>4 DEF SelectionsTypeOK, config
    <2>7. MapsAreSound'
      <3>1. \A i \in Identity : allowed'[i] \subseteq granted'[i]
        BY <1>2 DEF SelectionsInv, MapsAreSound, config
      <3>2. ASSUME NEW g \in File PROVE disk'[g].map \in Maps(g)'
        BY <1>1, <1>2 DEF SelectionsInv, MapsAreSound, Maps
      <3>3. ASSUME NEW g \in File PROVE Current(g)' \in Maps(g)'
        <4>1. CASE g = "sessions"
          BY <2>1, <2>2, <4>1 DEF Current, Maps
        <4>2. CASE g # "sessions"
          BY <1>2, <4>2 DEF Current, Maps, SelectionsInv, MapsAreSound, File
        <4> QED
          BY <4>1, <4>2
      <3>4. ASSUME NEW g \in File, NEW d \in Writers(g)' PROVE snap'[d] \in Maps(g)'
        <4>1. d \in Command /\ (d = c => g = "sessions") /\ (d # c => d \in Writers(g))
          BY <1>6, <2>4, <3>4 DEF Writers
        <4>2. CASE d = c
          BY <2>2, <2>4, <4>1, <4>2 DEF Maps
        <4>3. CASE d # c
          BY <1>2, <2>4, <4>1, <4>3 DEF SelectionsInv, MapsAreSound, Maps
        <4> QED
          BY <4>2, <4>3
      <3> QED
        BY <3>1, <3>2, <3>3, <3>4 DEF MapsAreSound
    <2>8. FileFollows("sessions")'
      BY <2>4, <2>5 DEF FileFollows
    <2>9. FileFollows("agents")'
      <3>1. Writers("agents")' = Writers("agents") \ {c}
        BY <2>4 DEF File, Writers
      <3>2. Current("agents")' = Current("agents")
        BY <2>5 DEF File, Current
      <3>3. "agents" \notin raced' =>
              /\ Writers("agents")' = {}
              /\ disk'["agents"] = [state |-> "ok", map |-> Current("agents")]
        BY <1>1, <1>6, <2>4, <3>1
      <3> QED
        BY <3>2, <3>3 DEF FileFollows, read_json_map
    <2>10. FileFollows("models")'
      <3>1. "models" \in File \ {"sessions"} /\ "models" \in File \ {f}
        BY <1>6 DEF File
      <3>2. Writers("models")' = Writers("models")
        BY <1>1, <2>4, <3>1 DEF Writers
      <3>3. Current("models")' = Current("models")
        BY <1>2 DEF Current
      <3>4. Untouched("models")
        BY <1>1, <1>3, <2>4, <3>1, <3>2, <3>3 DEF Untouched
      <3> QED
        BY <3>1, <3>4, UntouchedFiles DEF SelectionsInv
    <2> QED
      BY <1>4, <2>6, <2>7, <2>8, <2>9, <2>10 DEF SelectionsInv, File
  <1>7. CASE f # "agents"
    <2>1. /\ step' = [step EXCEPT ![c] = "done"]
          /\ UNCHANGED <<sessions, snap, op, raced>>
      BY <1>0, <1>7 DEF fill, After
    <2>2. /\ step'[c] = "done"
          /\ \A d \in Command \ {c} : step'[d] = step[d]
      BY <2>1 DEF SelectionsInv, SelectionsTypeOK
    <2>3. \A g \in File : Writers(g)' = Writers(g) \ {c} /\ Current(g)' = Current(g)
      BY <1>2, <2>1, <2>2 DEF Writers, Current
    <2>4. SelectionsTypeOK'
      BY <1>1, <1>2, <2>1 DEF SelectionsInv, SelectionsTypeOK, config
    <2>5. MapsAreSound'
      <3>1. \A i \in Identity : allowed'[i] \subseteq granted'[i]
        BY <1>2 DEF SelectionsInv, MapsAreSound, config
      <3>2. \A g \in File : disk'[g].map \in Maps(g)
        BY <1>1 DEF SelectionsInv, MapsAreSound
      <3> QED
        BY <1>2, <2>1, <2>3, <3>1, <3>2 DEF SelectionsInv, MapsAreSound
    <2>6. ASSUME NEW g \in File \ {f} PROVE FileFollows(g)'
      <3>1. Writers(g)' = Writers(g) /\ Current(g)' = Current(g)
        BY <1>1, <1>2, <2>1, <2>2 DEF Writers, Current
      <3>2. Untouched(g)
        BY <1>1, <1>3, <2>1, <2>2, <3>1 DEF Untouched
      <3> QED
        BY <3>2, UntouchedFiles DEF SelectionsInv
    <2>7. FileFollows(f)'
      <3>2. Writers(f)' = Writers(f) \ {c} /\ Current(f)' = Current(f)
        BY <1>2, <2>1, <2>2 DEF Writers, Current
      <3>3. f \notin raced => Writers(f)' = {}
        BY <1>1, <3>2
      <3> QED
        BY <1>1, <2>1, <3>2, <3>3 DEF FileFollows, read_json_map
    <2> QED
      BY <1>4, <2>4, <2>5, <2>6, <2>7 DEF SelectionsInv
  <1> QED
    BY <1>6, <1>7

\* What a restart reads: every file, and the models the configuration has.
LEMMA RestartKeepsSelections ==
  ASSUME SelectionsInv, restart
  PROVE  SelectionsInv'
  <1>1. /\ agents' = read_json_map("agents")
        /\ sessions' = read_json_map("sessions")
        /\ models' = retained(read_json_map("models"), selectors')
        /\ disk' = IF selectors' \cap Synthetic = {} THEN disk
                   ELSE [disk EXCEPT !["models"] = [state |-> "ok", map |-> models']]
        /\ step' = [c \in Command |-> IF c \in Busy THEN "done" ELSE step[c]]
        /\ raced' = {}
        /\ granted' = [i \in Identity |-> granted[i] \cup allowed'[i]]
        /\ UNCHANGED <<op, snap>>
    BY DEF restart
  <1>2. selectors' \subseteq Model /\ allowed' \in [Identity -> SUBSET Agents]
    BY SelectionsAssumption DEF restart, config, SelectionsInv, SelectionsTypeOK
  <1>3. /\ granted' \in [Identity -> SUBSET Agents]
        /\ \A i \in Identity : allowed'[i] \subseteq granted'[i]
        /\ \A i \in Identity : granted[i] \subseteq granted'[i]
    BY <1>1, <1>2 DEF SelectionsInv, SelectionsTypeOK
  <1>4. "agents" \in File /\ "sessions" \in File /\ "models" \in File
    BY DEF File
  <1>5. /\ agents' \in Maps("agents") /\ sessions' \in Maps("sessions")
        /\ models' \in Maps("models")
    <2>1. \A g \in File : read_json_map(g) \in Maps(g)
      BY MapTypes DEF read_json_map, SelectionsInv, MapsAreSound
    <2>2. retained(read_json_map("models"), selectors') \in Maps("models")
      BY <1>4, <2>1 DEF retained, Maps
    <2> QED
      BY <1>1, <1>4, <2>1, <2>2
  <1>6. \A g \in File : \A map \in Maps(g) : map \in Maps(g)'
    BY <1>3 DEF Maps
  <1>7. /\ disk' \in [File -> [state : {"ok", "empty", "garbled"}, map : AnyMap]]
        /\ \A g \in File : disk'[g].map \in Maps(g)
    <2>1. models' \in AnyMap
      BY <1>4, <1>5, MapTypes
    <2> QED
      BY <1>1, <1>4, <1>5, <2>1 DEF SelectionsInv, SelectionsTypeOK, MapsAreSound
  <1>8. SelectionsTypeOK'
    <2>1. step' \in [Command -> {"new", "session", "truncate", "fill", "done"}]
      BY <1>1 DEF SelectionsInv, SelectionsTypeOK
    <2> QED
      BY <1>1, <1>2, <1>3, <1>7, <2>1 DEF SelectionsInv, SelectionsTypeOK
  <1>9. \A g \in File : Writers(g)' = {}
    BY <1>1 DEF Writers, Busy
  <1>10. MapsAreSound'
    <2>1. \A g \in File : Current(g)' \in Maps(g)
      BY <1>5 DEF Current, File
    <2> QED
      BY <1>3, <1>6, <1>7, <1>9, <2>1 DEF MapsAreSound
  <1>11. OverridesAreListed'
    BY <1>1 DEF OverridesAreListed, retained
  <1>12. ASSUME NEW g \in File PROVE FileFollows(g)'
    <2>1. Writers(g)' = {}
      BY <1>9 DEF Writers
    <2>2. read_json_map(g)' = Current(g)'
      <3>1. CASE g = "agents"
        BY <1>1, <3>1 DEF read_json_map, Current, EmptyMap, SelectionsInv, SelectionsTypeOK
      <3>2. CASE g = "sessions"
        BY <1>1, <3>2 DEF read_json_map, Current, EmptyMap, SelectionsInv, SelectionsTypeOK
      <3>3. CASE g = "models"
        <4>1. CASE selectors' \cap Synthetic = {}
          BY <1>1, <3>3, <4>1 DEF read_json_map, Current, EmptyMap, retained
        <4>2. CASE selectors' \cap Synthetic # {}
          BY <1>1, <1>4, <3>3, <4>2
            DEF read_json_map, Current, SelectionsInv, SelectionsTypeOK
        <4> QED
          BY <4>1, <4>2
      <3> QED
        BY <3>1, <3>2, <3>3 DEF File
    <2> QED
      BY <2>1, <2>2 DEF FileFollows
  <1> QED
    BY <1>8, <1>10, <1>11, <1>12 DEF SelectionsInv

LEMMA SelectionsStutter ==
  ASSUME SelectionsInv, UNCHANGED selectionVars
  PROVE  SelectionsInv'
  <1>1. SelectionsTypeOK' /\ OverridesAreListed'
    BY DEF selectionVars, config, memory, SelectionsInv, SelectionsTypeOK, OverridesAreListed
  <1>2. MapsAreSound'
    BY DEF selectionVars, config, memory, SelectionsInv, MapsAreSound, Writers, Current,
           Maps, EmptyMap
  <1>3. ASSUME NEW f \in File PROVE FileFollows(f)'
    BY DEF selectionVars, config, memory, SelectionsInv, FileFollows, Writers, Current,
           read_json_map
  <1> QED
    BY <1>1, <1>2, <1>3 DEF SelectionsInv

LEMMA SelectionsAreInductive ==
  ASSUME SelectionsInv, [SelectionsNext]_selectionVars
  PROVE  SelectionsInv'
  BY SwitchKeepsSelections, SessionKeepsSelections, TruncateKeepsSelections,
     FillKeepsSelections, RestartKeepsSelections, SelectionsStutter DEF SelectionsNext

LEMMA SelectionsInvImplies == SelectionsInv => SelectionsAllowed
  <1> SUFFICES ASSUME SelectionsInv PROVE SelectionsAllowed
    OBVIOUS
  <1>1. agents \in Maps("agents")
    BY DEF SelectionsInv, MapsAreSound, File, Current
  <1>2. \A i \in Identity : active_agent_for(i) \in granted[i] \cup {Default[i]}
    BY <1>1 DEF Maps, active_agent_for
  <1>3. FilesCurrent
    BY DEF SelectionsInv, FileFollows, FilesCurrent
  <1> QED
    BY <1>2, <1>3 DEF SelectionsAllowed, SelectionsInv, OverridesAreListed

\* However commands race and restarts interrupt them, messages go to an agent
\* the identity was allowed, overrides name models the configuration has, and
\* a file no two commands wrote at once is what is in memory (write_json_map).
THEOREM SelectionsStayAllowed == SelectionsSpec => []SelectionsAllowed
  BY SelectionsInitially, SelectionsAreInductive, SelectionsInvImplies, PTL
  DEF SelectionsSpec
=============================================================================
