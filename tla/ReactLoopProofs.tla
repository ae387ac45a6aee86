-------------------------- MODULE ReactLoopProofs --------------------------
(***************************************************************************)
(* Four facts about the agents' turns for any number of turns, sessions,   *)
(* rounds and tools.                                                       *)
(*                                                                         *)
(* HistoryPaired is inductive once the history is known to be a sequence   *)
(* of messages: the one action that writes it, Reply, adds a pair, and the *)
(* limit, which is even, drops whole pairs.  BucketBound is inductive with *)
(* the types of the counters.                                              *)
(*                                                                         *)
(* AnswersComplete needs to know of a turn that is running its tools how   *)
(* many answers its newest request still awaits, and RateKept needs to     *)
(* know that the calls of the present minute that the guard remembers are  *)
(* at least those that were run.                                           *)
(***************************************************************************)
EXTENDS ReactLoop, FiniteSetTheorems, TLAPS

Paired(h) ==
  \A i \in 1..Len(h) :
    IF i % 2 = 1
      THEN h[i].kind = "user" /\ i < Len(h)
      ELSE h[i].kind = "reply" /\ h[i].turn = h[i-1].turn

\* A history of exchanges has an even number of messages.
LEMMA PairedIsEven ==
  ASSUME NEW h \in Seq(Message), Paired(h)
  PROVE  Len(h) % 2 = 0
  <1>1. CASE Len(h) = 0
    BY <1>1
  <1>2. CASE Len(h) # 0
    BY <1>2 DEF Paired
  <1>3. QED
    BY <1>1, <1>2

\* An even number of newest messages of a history of exchanges is one, too.
LEMMA NewestPaired ==
  ASSUME NEW h \in Seq(Message), Paired(h),
         NEW n \in Nat \ {0}, n % 2 = 0
  PROVE  /\ Newest(h, n) \in Seq(Message)
         /\ Paired(Newest(h, n))
  <1>1. CASE Len(h) <= n
    BY <1>1 DEF Newest
  <1>2. CASE Len(h) > n
    <2> DEFINE d == Len(h) - n
               w == SubSeq(h, d + 1, Len(h))
    <2>1. Newest(h, n) = w
      BY <1>2 DEF Newest
    <2>2. d \in Nat /\ d % 2 = 0 /\ d + n = Len(h)
      BY <1>2, PairedIsEven
    <2>3. /\ w \in Seq(Message)
          /\ Len(w) = n
          /\ \A i \in 1..n : w[i] = h[d + i]
      BY <1>2, <2>2
    <2>4. ASSUME NEW i \in 1..n
          PROVE  IF i % 2 = 1
                   THEN w[i].kind = "user" /\ i < n
                   ELSE w[i].kind = "reply" /\ w[i].turn = w[i-1].turn
      <3>1. d + i \in 1..Len(h) /\ (d + i) % 2 = i % 2
        BY <2>2
      <3>2. CASE i % 2 = 1
        <4>1. h[d + i].kind = "user" /\ d + i < Len(h)
          BY <3>1, <3>2 DEF Paired
        <4>2. QED
          BY <2>2, <2>3, <3>2, <4>1
      <3>3. CASE i % 2 # 1
        <4>1. h[d + i].kind = "reply" /\ h[d + i].turn = h[d + i - 1].turn
          BY <3>1, <3>3 DEF Paired
        <4>2. i - 1 \in 1..n
          BY <3>3
        <4>3. w[i - 1] = h[d + i - 1]
          BY <2>2, <2>3, <4>2
        <4>4. QED
          BY <2>3, <3>3, <4>1, <4>3
      <3>4. QED
        BY <3>2, <3>3
    <2> HIDE DEF w
    <2>5. QED
      BY <2>1, <2>3, <2>4 DEF Paired
  <1>3. QED
    BY <1>1, <1>2

\* What LocalMemory keeps of a history of exchanges and one more is one again.
LEMMA RememberPaired ==
  ASSUME NEW h \in Seq(Message), Paired(h), NEW t \in Turn
  PROVE  LET kept == Remember(h, <<Said("user", t, 0), Said("reply", t, 0)>>)
         IN kept \in Seq(Message) /\ Paired(kept)
  <1> DEFINE q == Said("user", t, 0)
             r == Said("reply", t, 0)
             g == h \o <<q, r>>
  <1>1. q \in Message /\ r \in Message
    BY ReactAssumption DEF Said, Message
  <1>2. /\ g \in Seq(Message)
        /\ Len(g) = Len(h) + 2
        /\ \A i \in 1..Len(h) : g[i] = h[i]
        /\ g[Len(h) + 1] = q
        /\ g[Len(h) + 2] = r
    BY <1>1
  <1>3. q.kind = "user" /\ r.kind = "reply" /\ q.turn = r.turn
    BY DEF Said
  <1> HIDE DEF q, r, g
  <1>4. Len(h) % 2 = 0 /\ Len(h) \in Nat
    BY PairedIsEven
  <1>5. Paired(g)
    <2> SUFFICES ASSUME NEW i \in 1..Len(g)
                 PROVE  IF i % 2 = 1
                          THEN g[i].kind = "user" /\ i < Len(g)
                          ELSE g[i].kind = "reply" /\ g[i].turn = g[i-1].turn
      BY DEF Paired
    <2>1. CASE i \in 1..Len(h)
      <3>1. CASE i % 2 = 1
        BY <1>2, <1>4, <2>1, <3>1 DEF Paired
      <3>2. CASE i % 2 # 1
        <4>1. i - 1 \in 1..Len(h)
          BY <1>4, <2>1, <3>2
        <4>2. QED
          BY <1>2, <2>1, <3>2, <4>1 DEF Paired
      <3>3. QED
        BY <3>1, <3>2
    <2>2. CASE i = Len(h) + 1
      BY <1>2, <1>3, <1>4, <2>2
    <2>3. CASE i = Len(h) + 2
      <3>1. i - 1 = Len(h) + 1 /\ i % 2 # 1
        BY <1>4, <2>3
      <3>2. QED
        BY <1>2, <1>3, <2>3, <3>1
    <2>4. QED
      BY <1>2, <1>4, <2>1, <2>2, <2>3
  <1>6. MaxMessages \in Nat \ {0} /\ MaxMessages % 2 = 0
    BY ReactAssumption
  <1>7. Newest(g, MaxMessages) \in Seq(Message) /\ Paired(Newest(g, MaxMessages))
    BY <1>2, <1>5, <1>6, NewestPaired
  <1>8. QED
    BY <1>7 DEF Remember, g, q, r

-----------------------------------------------------------------------------
\* The inductive invariant of the history.
HInv ==
  /\ history \in [Session -> Seq(Message)]
  /\ \A s \in Session : Paired(history[s])

LEMMA HInvInit == Init => HInv
  BY DEF Init, HInv, Paired

LEMMA ReplyKeeps ==
  ASSUME HInv, NEW t \in Turn, Reply(t)
  PROVE  HInv'
  <1> DEFINE s == SessionOf[t]
             kept == Remember(history[s], <<Said("user", t, 0), Said("reply", t, 0)>>)
  <1>1. s \in Session
    BY ReactAssumption
  <1>2. history' = [history EXCEPT ![s] = kept]
    BY DEF Reply
  <1>3. kept \in Seq(Message) /\ Paired(kept)
    BY <1>1, RememberPaired DEF HInv
  <1> HIDE DEF s, kept
  <1>4. QED
    BY <1>1, <1>2, <1>3 DEF HInv

LEMMA HInvNext == HInv /\ [Next]_vars => HInv'
  <1> SUFFICES ASSUME HInv, [Next]_vars PROVE HInv'
    OBVIOUS
  <1>1. CASE UNCHANGED history
    BY <1>1 DEF HInv
  <1>2. ASSUME NEW t \in Turn, GiveUp(t) PROVE HInv'
    BY <1>2, ReplyKeeps DEF GiveUp
  <1>3. ASSUME NEW t \in Turn, ReceiveText(t) PROVE HInv'
    BY <1>3, ReplyKeeps DEF ReceiveText
  <1>4. ASSUME NEW t \in Turn, ReachLimit(t) PROVE HInv'
    BY <1>4, ReplyKeeps DEF ReachLimit
  <1>5. ASSUME NEW t \in Turn,
               \/ Load(t) \/ Ask(t) \/ Wake(t) \/ ReceiveRequest(t) \/ TimeOut(t)
               \/ Refuse(t) \/ StartTool(t) \/ EndTool(t) \/ BadArguments(t)
               \/ NextRound(t)
        PROVE  UNCHANGED history
    BY <1>5 DEF Load, Ask, Wake, ReceiveRequest, TimeOut, Refuse, StartTool, EndTool,
       BadArguments, NextRound
  <1>6. ASSUME Tick \/ Refill \/ ThreadCall PROVE UNCHANGED history
    BY <1>6 DEF Tick, Refill, ThreadCall
  <1>7. ASSUME UNCHANGED vars PROVE UNCHANGED history
    BY <1>7 DEF vars
  <1>8. QED
    BY <1>1, <1>2, <1>3, <1>4, <1>5, <1>6, <1>7 DEF Next, Advance

\* The histories of all sessions are sequences of exchanges, however many turns
\* of however many agents overlap in a session, fail, or push old messages out.
THEOREM HistoriesStayPaired == Spec => []HistoryPaired
  <1>1. HInv => HistoryPaired
    BY DEF HInv, HistoryPaired, Paired
  <1>2. QED
    BY HInvInit, HInvNext, <1>1, PTL DEF Spec

-----------------------------------------------------------------------------
\* The inductive invariant of the bucket.
BInv ==
  /\ tokens \in Nat
  /\ sent \in Nat
  /\ refilled \in Nat
  /\ BucketBound

LEMMA BInvInit == Init => BInv
  BY ReactAssumption DEF Init, BInv, BucketBound

LEMMA BInvNext == BInv /\ [Next]_vars => BInv'
  <1> SUFFICES ASSUME BInv, [Next]_vars PROVE BInv'
    OBVIOUS
  <1>1. CASE UNCHANGED <<tokens, sent, refilled>>
    BY <1>1 DEF BInv, BucketBound
  <1>2. ASSUME TakeToken, UNCHANGED refilled PROVE BInv'
    BY <1>2, ReactAssumption DEF BInv, BucketBound, TakeToken
  <1>3. CASE Refill
    BY <1>3, ReactAssumption DEF BInv, BucketBound, Refill
  <1>4. CASE ThreadCall
    BY <1>2, <1>4 DEF ThreadCall
  <1>5. ASSUME NEW t \in Turn, Ask(t) \/ Wake(t) PROVE BInv'
    BY <1>1, <1>2, <1>5 DEF Ask, Wake
  <1>6. ASSUME NEW t \in Turn,
               \/ Load(t) \/ GiveUp(t) \/ ReceiveText(t) \/ ReceiveRequest(t)
               \/ TimeOut(t) \/ Refuse(t) \/ StartTool(t) \/ EndTool(t)
               \/ BadArguments(t) \/ NextRound(t) \/ ReachLimit(t)
        PROVE  UNCHANGED <<tokens, sent, refilled>>
    BY <1>6 DEF Load, GiveUp, ReceiveText, ReceiveRequest, TimeOut, Refuse, StartTool,
       EndTool, BadArguments, NextRound, ReachLimit, bucket
  <1>7. CASE Tick \/ UNCHANGED vars
    BY <1>1, <1>7 DEF Tick, vars
  <1>8. QED
    BY <1>1, <1>3, <1>4, <1>5, <1>6, <1>7 DEF Next, Advance

\* However the agents and the other threads compete for tokens, the calls sent
\* never exceed the tokens there were at first and those that came in.
THEOREM BucketNeverOverdrawn == Spec => []BucketBound
  <1>1. BInv => BucketBound
    BY DEF BInv
  <1>2. QED
    BY BInvInit, BInvNext, <1>1, PTL DEF Spec

-----------------------------------------------------------------------------
(***************************************************************************)
(* The answers to requests.  Of a request whose tools have not all been    *)
(* run, the answers so far follow it and the rest are still to come: k of  *)
(* them at the end of the context.                                         *)
(***************************************************************************)

Awaited(c, k) ==
  \A i \in 1..Len(c) : c[i].kind = "request" =>
    /\ i + c[i].n <= Len(c) + k
    /\ \A j \in 1..Len(c) : i < j /\ j <= i + c[i].n => c[j].kind = "answer"

LEMMA CountIsNat == ASSUME NEW a \in Message PROVE a.n \in Nat
  BY ReactAssumption DEF Message

\* A newest part of a context without answers to come is one, too: it keeps
\* whatever follows a request that it keeps.
LEMMA NewestAwaited ==
  ASSUME NEW c \in Seq(Message), NEW n \in Nat \ {0}, Awaited(c, 0)
  PROVE  Newest(c, n) \in Seq(Message) /\ Awaited(Newest(c, n), 0)
  <1>1. CASE Len(c) <= n
    BY <1>1 DEF Newest
  <1>2. CASE Len(c) > n
    <2> DEFINE d == Len(c) - n
               w == SubSeq(c, d + 1, Len(c))
    <2>1. Newest(c, n) = w
      BY <1>2 DEF Newest
    <2>2. d \in Nat /\ d + n = Len(c)
      BY <1>2
    <2>3. /\ w \in Seq(Message)
          /\ Len(w) = n
          /\ \A i \in 1..n : w[i] = c[d + i]
      BY <1>2, <2>2
    <2> HIDE DEF w, d
    <2>4. ASSUME NEW i \in 1..n, w[i].kind = "request"
          PROVE  /\ i + w[i].n <= n
                 /\ \A j \in 1..n : i < j /\ j <= i + w[i].n => w[j].kind = "answer"
      <3>0. d + i \in 1..Len(c) /\ c[d + i] \in Message
        BY <2>2
      <3>1. w[i] = c[d + i] /\ c[d + i].n \in Nat
        BY <2>3, <3>0, CountIsNat
      <3>2. /\ d + i + c[d + i].n <= Len(c)
            /\ \A j \in 1..Len(c) : d + i < j /\ j <= d + i + c[d + i].n => c[j].kind = "answer"
        <4>1. /\ d + i + c[d + i].n <= Len(c) + 0
              /\ \A j \in 1..Len(c) : d + i < j /\ j <= d + i + c[d + i].n => c[j].kind = "answer"
          BY <2>4, <3>0, <3>1 DEF Awaited
        <4>2. QED
          BY <4>1
      <3>3. ASSUME NEW j \in 1..n, i < j, j <= i + w[i].n
            PROVE  w[j].kind = "answer"
        <4>1. d + j \in 1..Len(c) /\ w[j] = c[d + j]
          BY <2>2, <2>3
        <4>2. d + i < d + j /\ d + j <= d + i + c[d + i].n
          BY <2>2, <3>1, <3>3
        <4>3. QED
          BY <3>2, <4>1, <4>2
      <3>4. QED
        BY <2>2, <3>1, <3>2, <3>3
    <2>5. QED
      BY <2>1, <2>3, <2>4 DEF Awaited
  <1>3. QED
    BY <1>1, <1>2

\* A part of a history has no requests.
LEMMA NewestOfHistory ==
  ASSUME NEW h \in Seq(Message), Paired(h), NEW n \in Nat \ {0}
  PROVE  /\ Newest(h, n) \in Seq(Message)
         /\ \A i \in 1..Len(Newest(h, n)) : Newest(h, n)[i].kind # "request"
  <1>1. \A i \in 1..Len(h) : h[i].kind # "request"
    BY DEF Paired
  <1>2. CASE Len(h) <= n
    BY <1>1, <1>2 DEF Newest
  <1>3. CASE Len(h) > n
    <2>1. /\ Newest(h, n) \in Seq(Message)
          /\ Len(Newest(h, n)) = n
          /\ \A i \in 1..n : Newest(h, n)[i] = h[Len(h) - n + i] /\ Len(h) - n + i \in 1..Len(h)
      BY <1>3 DEF Newest
    <2>2. QED
      BY <1>1, <2>1
  <1>4. QED
    BY <1>2, <1>3

\* An answer fulfils one of those to come.
LEMMA AnswerAwaited ==
  ASSUME NEW c \in Seq(Message), NEW k \in Nat \ {0}, Awaited(c, k), NEW a \in Message,
         a.kind = "answer"
  PROVE  Append(c, a) \in Seq(Message) /\ Awaited(Append(c, a), k - 1)
  <1> DEFINE b == Append(c, a)
  <1>1. /\ b \in Seq(Message) /\ Len(b) = Len(c) + 1
        /\ \A i \in 1..Len(c) : b[i] = c[i]
        /\ b[Len(c) + 1] = a
    OBVIOUS
  <1>2. \A i \in 1..Len(c) : c[i].n \in Nat
    BY CountIsNat
  <1> HIDE DEF b
  <1>3. Awaited(b, k - 1)
    <2> SUFFICES ASSUME NEW i \in 1..Len(b), b[i].kind = "request"
                 PROVE  /\ i + b[i].n <= Len(b) + (k - 1)
                        /\ \A j \in 1..Len(b) : i < j /\ j <= i + b[i].n => b[j].kind = "answer"
      BY DEF Awaited
    <2>1. i \in 1..Len(c) /\ b[i] = c[i]
      BY <1>1
    <2>2. /\ i + c[i].n <= Len(c) + k
          /\ \A j \in 1..Len(c) : i < j /\ j <= i + c[i].n => c[j].kind = "answer"
      BY <2>1 DEF Awaited
    <2>3. c[i].n \in Nat /\ k \in Nat /\ k - 1 \in Nat
      BY <1>2, <2>1
    <2>4. i + b[i].n <= Len(b) + (k - 1)
      BY <1>1, <2>1, <2>2, <2>3
    <2>5. ASSUME NEW j \in 1..Len(b), i < j, j <= i + b[i].n
          PROVE  b[j].kind = "answer"
      <3>1. CASE j \in 1..Len(c)
        BY <1>1, <2>1, <2>2, <2>5, <3>1
      <3>2. CASE j = Len(c) + 1
        BY <1>1, <3>2
      <3>3. QED
        BY <1>1, <3>1, <3>2
    <2>6. QED
      BY <2>4, <2>5
  <1>4. QED
    BY <1>1, <1>3 DEF b

\* A request without others before it that wait for answers.
LEMMA RequestAwaited ==
  ASSUME NEW c \in Seq(Message), Awaited(c, 0), NEW a \in Message
  PROVE  /\ Append(c, a) \in Seq(Message)
         /\ a.kind = "request" => Awaited(Append(c, a), a.n)
         /\ a.kind # "request" => Awaited(Append(c, a), 0)
  <1> DEFINE b == Append(c, a)
  <1>1. /\ b \in Seq(Message) /\ Len(b) = Len(c) + 1
        /\ \A i \in 1..Len(c) : b[i] = c[i]
        /\ b[Len(c) + 1] = a
    OBVIOUS
  <1>2. a.n \in Nat /\ \A i \in 1..Len(c) : c[i].n \in Nat
    BY CountIsNat
  <1> HIDE DEF b
  <1>3. ASSUME NEW i \in 1..Len(c), b[i].kind = "request"
        PROVE  /\ i + b[i].n <= Len(c)
               /\ \A j \in 1..Len(b) : i < j /\ j <= i + b[i].n => b[j].kind = "answer"
    <2>1. b[i] = c[i] /\ c[i].n \in Nat
      BY <1>1, <1>2
    <2>2. /\ i + c[i].n <= Len(c) + 0
          /\ \A j \in 1..Len(c) : i < j /\ j <= i + c[i].n => c[j].kind = "answer"
      BY <1>3, <2>1 DEF Awaited
    <2>3. i + b[i].n <= Len(c)
      BY <2>1, <2>2
    <2>4. ASSUME NEW j \in 1..Len(b), i < j, j <= i + b[i].n
          PROVE  b[j].kind = "answer"
      <3>1. j \in 1..Len(c) /\ b[j] = c[j]
        BY <1>1, <2>1, <2>3, <2>4
      <3>2. QED
        BY <2>1, <2>2, <2>4, <3>1
    <2>5. QED
      BY <2>3, <2>4
  <1>4. ASSUME NEW i \in 1..Len(b), b[i].kind = "request"
        PROVE  /\ i + b[i].n <= Len(b) + (IF a.kind = "request" THEN a.n ELSE 0)
               /\ \A j \in 1..Len(b) : i < j /\ j <= i + b[i].n => b[j].kind = "answer"
    <2>1. CASE i \in 1..Len(c)
      BY <1>1, <1>2, <1>3, <1>4, <2>1
    <2>2. CASE i = Len(c) + 1
      BY <1>1, <1>2, <1>4, <2>2
    <2>3. QED
      BY <1>1, <2>1, <2>2
  <1>5. Awaited(b, IF a.kind = "request" THEN a.n ELSE 0)
    BY <1>4 DEF Awaited
  <1>6. QED
    BY <1>1, <1>5 DEF b

\* The inductive invariant of the contexts.  Who sleeps in the event loop, or
\* is about to ask, has no tools to run.
CInv ==
  /\ context \in [Turn -> Seq(Message)]
  /\ todo \in [Turn -> Seq(Tool)]
  /\ pc \in [Turn -> {"new", "ready", "asked", "tools", "running", "done", "failed"}]
  /\ \A t \in Turn :
       /\ Awaited(context[t], Len(todo[t]))
       /\ pc[t] \in {"new", "ready", "asked"} => todo[t] = <<>>
       /\ pc[t] = "running" => todo[t] # <<>>
       /\ sleeper = t => pc[t] = "ready"

LEMMA CInvInit == Init => CInv
  BY ReactAssumption DEF Init, CInv, Awaited

\* A step that sets the context, the tools to run and the place of one turn.
LEMMA ContextSet ==
  ASSUME CInv, NEW t \in Turn, NEW c \in Seq(Message), NEW k \in Seq(Tool),
         NEW l \in {"new", "ready", "asked", "tools", "running", "done", "failed"},
         context' = [context EXCEPT ![t] = c], todo' = [todo EXCEPT ![t] = k],
         pc' = [pc EXCEPT ![t] = l], sleeper' \in {sleeper, t, NoTurn},
         Awaited(c, Len(k)), l \in {"new", "ready", "asked"} => k = <<>>,
         l = "running" => k # <<>>, sleeper' = t => l = "ready"
  PROVE  CInv'
  <1>1. /\ \A u \in Turn : context'[u] = IF u = t THEN c ELSE context[u]
        /\ \A u \in Turn : todo'[u] = IF u = t THEN k ELSE todo[u]
        /\ \A u \in Turn : pc'[u] = IF u = t THEN l ELSE pc[u]
    BY DEF CInv
  <1>2. NoTurn \notin Turn
    BY ReactAssumption
  <1>3. ASSUME NEW u \in Turn
        PROVE  /\ Awaited(context'[u], Len(todo'[u]))
               /\ pc'[u] \in {"new", "ready", "asked"} => todo'[u] = <<>>
               /\ pc'[u] = "running" => todo'[u] # <<>>
               /\ sleeper' = u => pc'[u] = "ready"
    BY <1>1, <1>2 DEF CInv
  <1>4. /\ context' \in [Turn -> Seq(Message)] /\ todo' \in [Turn -> Seq(Tool)]
        /\ pc' \in [Turn -> {"new", "ready", "asked", "tools", "running", "done", "failed"}]
    BY DEF CInv
  <1>5. QED
    BY <1>3, <1>4 DEF CInv, Awaited

LEMMA TrimmedAwaited ==
  ASSUME NEW c \in Seq(Message), Awaited(c, 0), NEW s \in Trimmed(c)
  PROVE  s \in Seq(Message) /\ Awaited(s, 0)
  <1>1. KeepMin \in Nat \ {0} /\ Len(c) \div 2 \in Nat
    BY ReactAssumption
  <1>2. \/ s = c \/ s = Newest(c, KeepMin)
        \/ Len(c) \div 2 > KeepMin /\ s = Newest(c, Len(c) \div 2)
    BY DEF Trimmed
  <1>3. \A n \in Nat \ {0} : Newest(c, n) \in Seq(Message) /\ Awaited(Newest(c, n), 0)
    BY NewestAwaited
  <1>4. Len(c) \div 2 > KeepMin => Len(c) \div 2 \in Nat \ {0}
    BY <1>1
  <1>5. QED
    BY <1>1, <1>2, <1>3, <1>4

\* The context a turn begins with has no requests.
LEMMA LoadedAwaited ==
  ASSUME HInv, NEW t \in Turn
  PROVE  Loaded(t) \in Seq(Message) /\ Awaited(Loaded(t), 0)
  <1> DEFINE h == Newest(history[SessionOf[t]], Window)
             q == Said("user", t, 0)
  <1>1. /\ h \in Seq(Message)
        /\ \A i \in 1..Len(h) : h[i].kind # "request"
    BY NewestOfHistory, ReactAssumption DEF HInv
  <1>2. q \in Message /\ q.kind = "user"
    BY ReactAssumption DEF Said, Message
  <1> HIDE DEF h, q
  <1>3. Awaited(h, 0)
    BY <1>1 DEF Awaited
  <1>4. QED
    BY <1>1, <1>2, <1>3, RequestAwaited DEF Loaded, h, q

\* Requests to run are answered one at a time.
LEMMA ToolAnswered ==
  ASSUME CInv, NEW t \in Turn, todo[t] # <<>>,
         context' = [context EXCEPT ![t] = Append(@, Said("answer", t, 0))],
         todo' = [todo EXCEPT ![t] = Tail(@)],
         pc' = [pc EXCEPT ![t] = "tools"], sleeper' = sleeper, Awake
  PROVE  CInv'
  <1> DEFINE a == Said("answer", t, 0)
  <1>1. a \in Message /\ a.kind = "answer"
    BY ReactAssumption DEF Said, Message
  <1>2. context[t] \in Seq(Message) /\ todo[t] \in Seq(Tool) /\ Awaited(context[t], Len(todo[t]))
    BY DEF CInv
  <1>3. /\ Tail(todo[t]) \in Seq(Tool) /\ Len(todo[t]) \in Nat \ {0}
        /\ Len(Tail(todo[t])) = Len(todo[t]) - 1
    BY <1>2
  <1> HIDE DEF a
  <1>4. /\ Append(context[t], a) \in Seq(Message)
        /\ Awaited(Append(context[t], a), Len(Tail(todo[t])))
    BY <1>1, <1>2, <1>3, AnswerAwaited
  <1>5. /\ context' = [context EXCEPT ![t] = Append(context[t], a)]
        /\ todo' = [todo EXCEPT ![t] = Tail(todo[t])]
        /\ sleeper' # t
    BY ReactAssumption DEF a, Awake
  <1>6. QED
    BY <1>3, <1>4, <1>5, ContextSet

\* A step that leaves the context and the tools to run of turn t alone.
LEMMA PlaceSet ==
  ASSUME CInv, NEW t \in Turn,
         NEW l \in {"new", "ready", "asked", "tools", "running", "done", "failed"},
         UNCHANGED <<context, todo>>, pc' = [pc EXCEPT ![t] = l],
         sleeper' \in {sleeper, NoTurn}, sleeper' # t,
         l \in {"new", "ready", "asked"} => todo[t] = <<>>,
         l = "running" => todo[t] # <<>>
  PROVE  CInv'
  <1>1. /\ context' = [context EXCEPT ![t] = context[t]]
        /\ todo' = [todo EXCEPT ![t] = todo[t]]
    BY DEF CInv
  <1>2. context[t] \in Seq(Message) /\ todo[t] \in Seq(Tool) /\ Awaited(context[t], Len(todo[t]))
    BY DEF CInv
  <1>3. QED
    BY <1>1, <1>2, ContextSet

LEMMA CInvNext == HInv /\ CInv /\ [Next]_vars => CInv'
  <1> SUFFICES ASSUME HInv, CInv, [Next]_vars PROVE CInv'
    OBVIOUS
  <1>1. CASE UNCHANGED <<pc, context, todo, sleeper>>
    BY <1>1 DEF CInv, Awaited
  <1>2. ASSUME NEW t \in Turn, Load(t) PROVE CInv'
    <2>1. todo[t] = <<>> /\ todo' = [todo EXCEPT ![t] = todo[t]] /\ todo[t] \in Seq(Tool)
      BY <1>2 DEF Load, CInv
    <2>2. /\ context' = [context EXCEPT ![t] = Loaded(t)]
          /\ pc' = [pc EXCEPT ![t] = "ready"] /\ sleeper' = sleeper
      BY <1>2 DEF Load, Goto, bucket
    <2>3. QED
      BY <2>1, <2>2, LoadedAwaited, ContextSet
  <1>3. ASSUME NEW t \in Turn, Ask(t) PROVE CInv'
    <2>1. todo[t] = <<>> /\ todo' = [todo EXCEPT ![t] = todo[t]] /\ todo[t] \in Seq(Tool)
      BY <1>3 DEF Ask, CInv
    <2>2. PICK s \in Trimmed(context[t]) : context' = [context EXCEPT ![t] = s]
      BY <1>3 DEF Ask
    <2>3. Awaited(context[t], 0) /\ context[t] \in Seq(Message)
      BY <2>1 DEF CInv
    <2>4. s \in Seq(Message) /\ Awaited(s, 0)
      BY <2>2, <2>3, TrimmedAwaited
    <2>5. CASE pc' = [pc EXCEPT ![t] = "asked"] /\ sleeper' = sleeper
      <3>1. sleeper' # t
        BY <1>3, <2>5, ReactAssumption DEF Ask, Awake
      <3>2. QED
        BY <2>1, <2>2, <2>4, <2>5, <3>1, ContextSet
    <2>6. CASE pc' = pc /\ sleeper' = t
      <3>1. pc' = [pc EXCEPT ![t] = "ready"]
        BY <1>3, <2>6 DEF Ask, CInv
      <3>2. QED
        BY <2>1, <2>2, <2>4, <2>6, <3>1, ContextSet
    <2>7. QED
      BY <1>3, <2>5, <2>6 DEF Ask, Goto
  <1>4. ASSUME NEW t \in Turn, Wake(t) \/ GiveUp(t) PROVE CInv'
    <2>1. pc[t] = "ready" /\ todo[t] = <<>>
      BY <1>4 DEF Wake, GiveUp, CInv
    <2>2. /\ UNCHANGED <<context, todo>> /\ sleeper' = NoTurn
          /\ \E l \in {"asked", "done"} : pc' = [pc EXCEPT ![t] = l]
      BY <1>4 DEF Wake, GiveUp, Goto, Reply
    <2>3. NoTurn # t
      BY ReactAssumption
    <2>4. QED
      BY <2>1, <2>2, <2>3, PlaceSet
  <1>5. ASSUME NEW t \in Turn, ReceiveText(t) \/ TimeOut(t) \/ BadArguments(t) \/ ReachLimit(t)
        PROVE  CInv'
    <2>1. /\ UNCHANGED <<context, todo, sleeper>> /\ sleeper = NoTurn
          /\ \E l \in {"done", "failed"} : pc' = [pc EXCEPT ![t] = l]
      BY <1>5 DEF ReceiveText, TimeOut, BadArguments, ReachLimit, Goto, Reply, bucket, Awake
    <2>2. NoTurn # t
      BY ReactAssumption
    <2>3. QED
      BY <2>1, <2>2, PlaceSet
  <1>6. ASSUME NEW t \in Turn, StartTool(t) \/ NextRound(t) PROVE CInv'
    <2>1. /\ UNCHANGED <<context, todo, sleeper>> /\ sleeper = NoTurn
          /\ \/ pc' = [pc EXCEPT ![t] = "running"] /\ todo[t] # <<>>
             \/ pc' = [pc EXCEPT ![t] = "ready"] /\ todo[t] = <<>>
      BY <1>6 DEF StartTool, NextRound, Goto, bucket, Awake
    <2>2. NoTurn # t
      BY ReactAssumption
    <2>3. QED
      BY <2>1, <2>2, PlaceSet
  <1>7. ASSUME NEW t \in Turn, ReceiveRequest(t) PROVE CInv'
    <2>0. PICK n \in 1..MaxRequested : \E calls \in [1..n -> Tool] :
            /\ todo' = [todo EXCEPT ![t] = calls]
            /\ context' = [context EXCEPT ![t] = Append(@, Said("request", t, n))]
      BY <1>7 DEF ReceiveRequest
    <2>1. PICK calls \in [1..n -> Tool] :
            /\ todo' = [todo EXCEPT ![t] = calls]
            /\ context' = [context EXCEPT ![t] = Append(@, Said("request", t, n))]
      BY <2>0
    <2> DEFINE a == Said("request", t, n)
    <2>2. /\ calls \in Seq(Tool) /\ Len(calls) = n
          /\ a \in Message /\ a.kind = "request" /\ a.n = n
      BY ReactAssumption DEF Said, Message
    <2> HIDE DEF a
    <2>3. context[t] \in Seq(Message) /\ Awaited(context[t], 0)
      BY <1>7 DEF ReceiveRequest, CInv
    <2>4. Append(context[t], a) \in Seq(Message) /\ Awaited(Append(context[t], a), Len(calls))
      BY <2>2, <2>3, RequestAwaited
    <2>5. /\ context' = [context EXCEPT ![t] = Append(context[t], a)]
          /\ pc' = [pc EXCEPT ![t] = "tools"] /\ sleeper' = sleeper /\ sleeper # t
      BY <1>7, <2>1, ReactAssumption DEF ReceiveRequest, Goto, bucket, Awake, a
    <2>6. QED
      BY <2>1, <2>2, <2>4, <2>5, ContextSet
  <1>8. ASSUME NEW t \in Turn, Refuse(t) PROVE CInv'
    <2>1. /\ todo[t] # <<>> /\ Awake /\ sleeper' = sleeper
          /\ pc' = [pc EXCEPT ![t] = "tools"]
      BY <1>8 DEF Refuse, bucket, CInv
    <2>2. QED
      BY <1>8, <2>1, ToolAnswered DEF Refuse
  <1>9. ASSUME NEW t \in Turn, EndTool(t) PROVE CInv'
    <2>1. /\ todo[t] # <<>> /\ Awake /\ sleeper' = sleeper
          /\ pc' = [pc EXCEPT ![t] = "tools"]
      BY <1>9 DEF EndTool, bucket, CInv, Goto
    <2>2. QED
      BY <1>9, <2>1, ToolAnswered DEF EndTool
  <1>10. CASE Tick \/ Refill \/ ThreadCall \/ UNCHANGED vars
    BY <1>1, <1>10 DEF Tick, Refill, ThreadCall, TakeToken, vars
  <1>11. QED
    BY <1>2, <1>3, <1>4, <1>5, <1>6, <1>7, <1>8, <1>9, <1>10 DEF Next, Advance

\* Wherever a context is cut, whatever is refused and whichever messages other
\* turns push out of the history: every request the model sees has its answers
\* right after it.
THEOREM RequestsAreAnswered == Spec => []AnswersComplete
  <1>1. CInv => AnswersComplete
    <2> SUFFICES ASSUME CInv, NEW t \in Turn, pc[t] = "asked",
                        NEW i \in 1..Len(context[t]), context[t][i].kind = "request"
                 PROVE  /\ i + context[t][i].n <= Len(context[t])
                        /\ \A j \in i+1 .. i+context[t][i].n : context[t][j].kind = "answer"
      BY DEF AnswersComplete
    <2>1. /\ context[t] \in Seq(Message) /\ Awaited(context[t], 0)
          /\ Len(context[t]) \in Nat
      BY DEF CInv
    <2>2. context[t][i].n \in Nat
      BY <2>1, CountIsNat
    <2>3. /\ i + context[t][i].n <= Len(context[t]) + 0
          /\ \A j \in 1..Len(context[t]) :
               i < j /\ j <= i + context[t][i].n => context[t][j].kind = "answer"
      BY <2>1 DEF Awaited
    <2>4. \A j \in i+1 .. i+context[t][i].n :
            j \in 1..Len(context[t]) /\ i < j /\ j <= i + context[t][i].n
      BY <2>1, <2>2, <2>3
    <2>5. QED
      BY <2>1, <2>3, <2>4
  <1>2. QED
    BY HInvInit, HInvNext, CInvInit, CInvNext, <1>1, PTL DEF Spec

-----------------------------------------------------------------------------
(***************************************************************************)
(* The guard.  Its history has every call of this minute, because only     *)
(* older ones are ever forgotten: the tools a turn ran in this minute are  *)
(* among them, and one more runs only while there are fewer than the       *)
(* limit.  A minute that is over gets no more calls.                       *)
(***************************************************************************)

Now(rec) == {c \in rec : c.at = clock}

\* The calls of one tool in one minute are numbered from 0, so a new number is
\* the number of a call the history does not have.
Numbered(rec) ==
  \A c \in rec : c.n < Cardinality(Like(rec, c.tool, c.at))

Rated(t) ==
  /\ IsFiniteSet(recorded[t]) /\ Numbered(recorded[t])
  /\ \A m \in Minute : executed[t][m] <= CallLimit /\ (m > clock => executed[t][m] = 0)
  /\ executed[t][clock] <= Cardinality(Now(recorded[t]))
  /\ pc[t] = "running" => executed[t][clock] < CallLimit

RInv ==
  /\ clock \in Minute
  /\ recorded \in [Turn -> SUBSET Call]
  /\ executed \in [Turn -> [Minute -> Nat]]
  /\ \A t \in Turn : Rated(t)

LEMMA RInvInit == Init => RInv
  <1> SUFFICES ASSUME Init PROVE RInv
    OBVIOUS
  <1>1. CallLimit \in Nat /\ 0 <= CallLimit /\ clock \in Minute
    BY ReactAssumption DEF Init, Minute
  <1>2. IsFiniteSet({}) /\ Cardinality({}) = 0 /\ Now({}) = {} /\ Numbered({})
    BY FS_EmptySet DEF Now, Numbered
  <1>3. ASSUME NEW t \in Turn PROVE Rated(t)
    <2>1. recorded[t] = {} /\ pc[t] # "running" /\ \A m \in Minute : executed[t][m] = 0
      BY DEF Init
    <2>2. QED
      BY <1>1, <1>2, <2>1 DEF Rated
  <1>4. QED
    BY <1>1, <1>3 DEF Init, RInv

\* A new call is one more of its tool and minute, and the history stays numbered.
LEMMA RecordAdds ==
  ASSUME clock \in Minute, NEW rec \in SUBSET Call, IsFiniteSet(rec), Numbered(rec),
         NEW x \in Tool
  PROVE  /\ Record(rec, x) \in SUBSET Call
         /\ IsFiniteSet(Record(rec, x)) /\ Numbered(Record(rec, x))
         /\ Cardinality(Now(Record(rec, x))) = Cardinality(Now(rec)) + 1
  <1> DEFINE like == Like(rec, x, clock)
             c == [tool |-> x, at |-> clock, n |-> Cardinality(like)]
             new == rec \cup {c}
  <1>1. Record(rec, x) = new
    BY DEF Record
  <1>2. like \subseteq rec /\ IsFiniteSet(like) /\ Cardinality(like) \in Nat
    BY FS_Subset, FS_CardinalityType DEF Like
  <1>3. c \in Call /\ c.tool = x /\ c.at = clock /\ c.n = Cardinality(like)
    BY <1>2 DEF Call
  <1>4. \A e \in like : e.n < Cardinality(like)
    BY DEF Numbered, Like
  <1>5. c \notin rec
    <2> SUFFICES ASSUME c \in rec PROVE FALSE
      OBVIOUS
    <2>1. c \in like
      BY <1>3 DEF Like
    <2>2. QED
      BY <1>2, <1>3, <1>4, <2>1
  <1> HIDE DEF c
  <1>6. new \subseteq Call /\ IsFiniteSet(new)
    BY <1>3, FS_AddElement
  <1>7. Cardinality(Now(new)) = Cardinality(Now(rec)) + 1
    <2>1. Now(new) = Now(rec) \cup {c} /\ c \notin Now(rec)
      BY <1>3, <1>5 DEF Now
    <2>2. IsFiniteSet(Now(rec))
      BY FS_Subset DEF Now
    <2>3. QED
      BY <2>1, <2>2, FS_AddElement
  <1>8. Numbered(new)
    <2>1. Like(new, x, clock) = like \cup {c} /\ c \notin like
      BY <1>2, <1>3, <1>5 DEF Like
    <2>2. Cardinality(Like(new, x, clock)) = Cardinality(like) + 1
      BY <1>2, <2>1, FS_AddElement
    <2>3. ASSUME NEW e \in new PROVE e.n < Cardinality(Like(new, e.tool, e.at))
      <3>1. CASE e.tool = x /\ e.at = clock
        <4>1. e = c \/ e \in like
          BY <2>3, <3>1 DEF Like
        <4>2. e.n \in Nat /\ e.n < Cardinality(like) + 1
          BY <1>2, <1>3, <1>4, <1>6, <4>1 DEF Call
        <4>3. QED
          BY <2>2, <3>1, <4>2
      <3>2. CASE ~(e.tool = x /\ e.at = clock)
        <4>1. e \in rec
          BY <1>3, <2>3, <3>2
        <4>2. Like(new, e.tool, e.at) = Like(rec, e.tool, e.at)
          BY <1>3, <3>2 DEF Like
        <4>3. QED
          BY <4>1, <4>2 DEF Numbered
      <3>3. QED
        BY <3>1, <3>2
    <2>4. QED
      BY <2>3 DEF Numbered
  <1>9. QED
    BY <1>1, <1>6, <1>7, <1>8

\* Whatever is forgotten, the calls of this minute are not, and those of one
\* tool and minute are forgotten together.
LEMMA CheckedKeeps ==
  ASSUME NEW t \in Turn, recorded[t] \in SUBSET Call, IsFiniteSet(recorded[t]),
         Numbered(recorded[t]), NEW x \in Tool
  PROVE  /\ Checked(t, x) \in SUBSET Call /\ IsFiniteSet(Checked(t, x))
         /\ Numbered(Checked(t, x))
         /\ Now(Checked(t, x)) = Now(recorded[t])
  <1>1. CASE x \in ConfirmTool
    BY <1>1 DEF Checked
  <1>2. CASE x \notin ConfirmTool
    <2>1. Checked(t, x) = Pruned(t, x) /\ Pruned(t, x) \subseteq recorded[t]
      BY <1>2 DEF Checked, Pruned
    <2>2. IsFiniteSet(Pruned(t, x))
      BY <2>1, FS_Subset
    <2>3. Now(Pruned(t, x)) = Now(recorded[t])
      BY DEF Now, Pruned
    <2>4. ASSUME NEW e \in Pruned(t, x)
          PROVE  e.n < Cardinality(Like(Pruned(t, x), e.tool, e.at))
      <3>1. Like(Pruned(t, x), e.tool, e.at) = Like(recorded[t], e.tool, e.at)
        BY <2>4 DEF Like, Pruned
      <3>2. QED
        BY <2>1, <3>1 DEF Numbered
    <2>5. QED
      BY <2>1, <2>2, <2>3, <2>4 DEF Numbered
  <1>3. QED
    BY <1>1, <1>2

\* Another turn's guard is not touched, and neither is a turn's own by a step
\* that does not begin a tool.
LEMMA GuardAlone ==
  ASSUME RInv, NEW t \in Turn, UNCHANGED clock,
         recorded'[t] = recorded[t], executed'[t] = executed[t],
         pc'[t] = "running" => pc[t] = "running"
  PROVE  Rated(t)'
  BY DEF RInv, Rated, Now, Numbered, Like

\* A step that sets the guard of one turn.
LEMMA GuardSet ==
  ASSUME RInv, NEW t \in Turn, UNCHANGED clock,
         NEW rec \in SUBSET Call, NEW ran \in [Minute -> Nat],
         recorded' = [recorded EXCEPT ![t] = rec], executed' = [executed EXCEPT ![t] = ran],
         \A u \in Turn : u # t => pc'[u] = pc[u],
         Rated(t)'
  PROVE  RInv'
  <1>1. ASSUME NEW u \in Turn, u # t PROVE Rated(u)'
    BY <1>1, GuardAlone DEF RInv
  <1>2. QED
    BY <1>1 DEF RInv, Minute, Call

LEMMA RefuseKeeps ==
  ASSUME CInv, RInv, NEW t \in Turn, Refuse(t) PROVE RInv'
  <1> DEFINE x == Head(todo[t])
             was == Checked(t, x)
             rec == Record(was, x)
  <1>1. x \in Tool
    BY DEF Refuse, CInv
  <1>2. /\ recorded[t] \in SUBSET Call /\ Rated(t) /\ executed[t] \in [Minute -> Nat]
        /\ clock \in Minute
    BY DEF RInv
  <1>3. /\ was \in SUBSET Call /\ IsFiniteSet(was) /\ Numbered(was)
        /\ Now(was) = Now(recorded[t])
    BY <1>1, <1>2, CheckedKeeps DEF Rated
  <1>4. /\ rec \in SUBSET Call /\ IsFiniteSet(rec) /\ Numbered(rec)
        /\ Cardinality(Now(rec)) = Cardinality(Now(recorded[t])) + 1
    BY <1>1, <1>2, <1>3, RecordAdds
  <1>5. /\ recorded' = [recorded EXCEPT ![t] = rec]
        /\ UNCHANGED <<pc, clock, executed>> /\ pc[t] = "tools"
    BY DEF Refuse
  <1> HIDE DEF x, was, rec
  <1>6. recorded'[t] = rec /\ executed' = [executed EXCEPT ![t] = executed[t]]
    BY <1>5 DEF RInv
  <1>7. Cardinality(Now(recorded[t])) \in Nat /\ executed[t][clock] \in Nat
    BY <1>2, FS_Subset, FS_CardinalityType DEF Rated, Now
  <1>8. Rated(t)'
    BY <1>2, <1>4, <1>5, <1>6, <1>7 DEF Rated, Now, Numbered, Like
  <1>9. QED
    BY <1>2, <1>4, <1>5, <1>6, <1>8, GuardSet

LEMMA StartKeeps ==
  ASSUME CInv, RInv, NEW t \in Turn, StartTool(t) PROVE RInv'
  <1> DEFINE x == Head(todo[t])
             rec == Checked(t, x)
  <1>1. x \in Tool /\ ~Refused(t, x)
    BY DEF StartTool, CInv
  <1>2. /\ recorded[t] \in SUBSET Call /\ Rated(t) /\ executed[t] \in [Minute -> Nat]
        /\ clock \in Minute
    BY DEF RInv
  <1>3. /\ rec \in SUBSET Call /\ IsFiniteSet(rec) /\ Numbered(rec)
        /\ Now(rec) = Now(recorded[t])
    BY <1>1, <1>2, CheckedKeeps DEF Rated
  <1>4. Cardinality(Now(rec)) < CallLimit
    <2>1. rec = Pruned(t, x) /\ ~(Cardinality(rec) >= CallLimit)
      BY <1>1 DEF Refused, Checked
    <2>2. Now(rec) \subseteq rec
      BY DEF Now
    <2>3. Cardinality(Now(rec)) <= Cardinality(rec) /\ Cardinality(rec) \in Nat
      BY <1>3, <2>2, FS_Subset, FS_CardinalityType
    <2>4. Cardinality(Now(rec)) \in Nat /\ CallLimit \in Nat
      BY <1>3, <2>2, FS_Subset, FS_CardinalityType, ReactAssumption
    <2> HIDE DEF rec
    <2>5. QED
      BY <2>1, <2>3, <2>4
  <1>5. /\ recorded' = [recorded EXCEPT ![t] = rec]
        /\ pc' = [pc EXCEPT ![t] = "running"] /\ UNCHANGED <<clock, executed>>
    BY DEF StartTool, Goto
  <1> HIDE DEF x, rec
  <1>6. /\ recorded'[t] = rec /\ executed' = [executed EXCEPT ![t] = executed[t]]
        /\ \A u \in Turn : u # t => pc'[u] = pc[u]
    BY <1>5 DEF RInv, CInv
  <1>7. Cardinality(Now(rec)) \in Nat /\ executed[t][clock] \in Nat /\ CallLimit \in Nat
    BY <1>2, <1>3, FS_Subset, FS_CardinalityType, ReactAssumption DEF Rated, Now
  <1>8. Rated(t)'
    <2>1. executed[t][clock] <= Cardinality(Now(rec)) /\ executed[t][clock] < CallLimit
      BY <1>2, <1>3, <1>4, <1>7 DEF Rated
    <2>2. QED
      BY <1>2, <1>3, <1>5, <1>6, <2>1 DEF Rated, Now, Numbered, Like
  <1>9. QED
    BY <1>2, <1>3, <1>5, <1>6, <1>8, GuardSet

LEMMA EndKeeps ==
  ASSUME CInv, RInv, NEW t \in Turn, EndTool(t) PROVE RInv'
  <1> DEFINE x == Head(todo[t])
             rec == Record(recorded[t], x)
             ran == [executed[t] EXCEPT ![clock] = @ + 1]
  <1>1. x \in Tool
    BY DEF EndTool, CInv
  <1>2. /\ recorded[t] \in SUBSET Call /\ Rated(t) /\ executed[t] \in [Minute -> Nat]
        /\ clock \in Minute
    BY DEF RInv
  <1>3. /\ rec \in SUBSET Call /\ IsFiniteSet(rec) /\ Numbered(rec)
        /\ Cardinality(Now(rec)) = Cardinality(Now(recorded[t])) + 1
    BY <1>1, <1>2, RecordAdds DEF Rated
  <1>4. /\ recorded' = [recorded EXCEPT ![t] = rec] /\ executed' = [executed EXCEPT ![t] = ran]
        /\ pc' = [pc EXCEPT ![t] = "tools"] /\ pc[t] = "running" /\ UNCHANGED clock
    BY DEF EndTool, Goto, RInv
  <1>5. /\ ran \in [Minute -> Nat] /\ ran[clock] = executed[t][clock] + 1
        /\ \A m \in Minute : m # clock => ran[m] = executed[t][m]
    BY <1>2
  <1> HIDE DEF x, rec, ran
  <1>6. /\ recorded'[t] = rec /\ executed'[t] = ran /\ pc'[t] = "tools"
        /\ \A u \in Turn : u # t => pc'[u] = pc[u]
    BY <1>4 DEF RInv, CInv
  <1>7. /\ Cardinality(Now(recorded[t])) \in Nat /\ executed[t][clock] \in Nat
        /\ CallLimit \in Nat /\ clock \in Nat /\ Minute \subseteq Nat
    BY <1>2, FS_Subset, FS_CardinalityType, ReactAssumption DEF Rated, Now, Minute
  <1>8. Rated(t)'
    <2>1. executed[t][clock] < CallLimit
      BY <1>2, <1>4 DEF Rated
    <2>2. \A m \in Minute : ran[m] <= CallLimit /\ (m > clock => ran[m] = 0)
      BY <1>2, <1>5, <1>7, <2>1 DEF Rated
    <2>3. ran[clock] <= Cardinality(Now(rec))
      BY <1>2, <1>3, <1>5, <1>7 DEF Rated
    <2>4. QED
      BY <1>3, <1>4, <1>6, <2>2, <2>3 DEF Rated, Now, Numbered, Like, Minute
  <1>9. QED
    BY <1>3, <1>4, <1>5, <1>6, <1>8, GuardSet

\* With the minute over, no tool has run in the new one.
LEMMA TickKeeps == ASSUME RInv, Tick PROVE RInv'
  <1>1. /\ clock \in Nat /\ clock' = clock + 1 /\ clock' \in Minute /\ Minute \subseteq Nat
        /\ UNCHANGED <<pc, recorded, executed>>
    BY ReactAssumption DEF Tick, RInv, Minute
  <1>2. ASSUME NEW t \in Turn PROVE Rated(t)'
    <2>1. Rated(t) /\ executed[t] \in [Minute -> Nat] /\ recorded[t] \in SUBSET Call
      BY DEF RInv
    <2>2. executed[t][clock'] = 0 /\ CallLimit \in Nat \ {0}
      BY <1>1, <2>1, ReactAssumption DEF Rated
    <2>3. \A m \in Minute : executed[t][m] <= CallLimit /\ (m > clock' => executed[t][m] = 0)
      BY <1>1, <2>1 DEF Rated
    <2>4. Cardinality(Now(recorded[t])') \in Nat
      <3>1. Now(recorded[t])' \subseteq recorded[t]
        BY <1>1 DEF Now
      <3>2. QED
        BY <2>1, <3>1, FS_Subset, FS_CardinalityType DEF Rated
    <2>5. executed[t][clock'] <= Cardinality(Now(recorded[t])')
      BY <2>2, <2>4
    <2>6. Numbered(recorded[t])' /\ IsFiniteSet(recorded'[t])
      BY <1>1, <2>1 DEF Numbered, Like, Rated
    <2>7. QED
      BY <1>1, <2>2, <2>3, <2>5, <2>6 DEF Rated, Minute
  <1>3. QED
    BY <1>1, <1>2 DEF RInv, Minute, Call

LEMMA RInvNext == CInv /\ RInv /\ [Next]_vars => RInv'
  <1> SUFFICES ASSUME CInv, RInv, [Next]_vars PROVE RInv'
    OBVIOUS
  <1>1. ASSUME UNCHANGED <<clock, recorded, executed>>,
               \A t \in Turn : pc'[t] = "running" => pc[t] = "running"
        PROVE  RInv'
    <2>1. \A t \in Turn : Rated(t)'
      BY <1>1, GuardAlone
    <2>2. QED
      BY <1>1, <2>1 DEF RInv, Minute, Call
  <1>2. ASSUME NEW t \in Turn,
               \/ Load(t) \/ Ask(t) \/ Wake(t) \/ GiveUp(t) \/ ReceiveText(t)
               \/ ReceiveRequest(t) \/ TimeOut(t) \/ BadArguments(t)
               \/ NextRound(t) \/ ReachLimit(t)
        PROVE  RInv'
    <2>1. /\ UNCHANGED <<clock, recorded, executed>>
          /\ \/ pc' = pc
             \/ \E l \in {"ready", "asked", "tools", "done", "failed"} :
                  pc' = [pc EXCEPT ![t] = l]
      BY <1>2 DEF Load, Ask, Wake, GiveUp, ReceiveText, ReceiveRequest, TimeOut,
         BadArguments, NextRound, ReachLimit, Goto, Reply
    <2>2. QED
      BY <1>1, <2>1 DEF CInv
  <1>3. CASE Refill \/ ThreadCall \/ UNCHANGED vars
    BY <1>1, <1>3 DEF Refill, ThreadCall, vars
  <1>4. QED
    BY <1>2, <1>3, RefuseKeeps, StartKeeps, EndKeeps, TickKeeps DEF Next, Advance

\* However long a tool takes, and whichever calls the guard forgets or counts
\* although it refused them: no turn ever runs more tools in one minute than
\* the limit, the tool that crosses from one minute to the next included.
THEOREM GuardKeepsRate == Spec => []RateKept
  <1>1. RInv => RateKept
    BY DEF RInv, Rated, RateKept
  <1>2. QED
    BY HInvInit, HInvNext, CInvInit, CInvNext, RInvInit, RInvNext, <1>1, PTL DEF Spec
=============================================================================
