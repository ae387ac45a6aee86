----------------------------- MODULE ReactLoop -----------------------------
(***************************************************************************)
(* The agents' turns: load the history, ask the model, run the tools it    *)
(* requests under a guard, ask again, save the exchange.                   *)
(*                                                                         *)
(* All agents of the application share one LocalMemory, so the turns of    *)
(* one session, the classifier's and the executor's, meet in its history.  *)
(* A turn is a coroutine of the event loop and suspends in the model's     *)
(* call and in a tool.  The token bucket of the model's calls is shared    *)
(* with other threads, and a turn that waits for a token sleeps without    *)
(* giving the event loop back.                                             *)
(*                                                                         *)
(* Left out: system messages (never trimmed), the content of a message,    *)
(* the result of a tool.  Whether a context is over the threshold depends  *)
(* on contents, so it is left open.                                        *)
(***************************************************************************)
EXTENDS Naturals, Sequences, FiniteSets

CONSTANTS
  Turn,          \* calls of chat
  Tasks,         \* those of a TaskAgent; the others are a ChatAgent's
  Session,
  SessionOf,     \* the session of each turn
  AutoTool,      \* tools the model may call, unknown ones included
  ConfirmTool,   \* tools that need a person's consent
  MaxRounds,     \* max_tool_rounds
  MaxRequested,  \* bound: tools the model requests in one answer
  CallLimit,     \* max_calls_per_minute
  Window,        \* memory_window_size
  MaxMessages,   \* max_messages of LocalMemory
  KeepMin,       \* MIN_MESSAGES_AFTER_TRIM
  Capacity,      \* capacity of the token bucket
  MaxClock,      \* bound: minutes that pass
  MaxRefills,    \* bound: tokens that come in
  NoTurn         \* nobody sleeps in the event loop

ASSUME ReactAssumption ==
  /\ Tasks \subseteq Turn
  /\ NoTurn \notin Turn
  /\ SessionOf \in [Turn -> Session]
  /\ AutoTool \cap ConfirmTool = {}
  /\ {MaxRounds, MaxRequested, CallLimit, Window, MaxMessages, KeepMin, Capacity}
       \subseteq Nat \ {0}
  /\ MaxMessages % 2 = 0
  /\ {MaxClock, MaxRefills} \subseteq Nat

VARIABLES
  pc,        \* where a turn is
  round,     \* rounds of the loop begun
  context,   \* messages, the system's left out
  todo,      \* requested tools not run yet
  recorded,  \* the guard's _call_history: calls with the minutes of their times
  history,   \* LocalMemory, per session
  tokens,    \* tokens in the bucket
  clock,     \* in minutes
  sleeper,   \* the turn that blocks the event loop, or NoTurn
  executed,  \* history: how many tools a turn ran in each minute
  refilled,  \* history: tokens that came in
  sent       \* history: calls that were sent

vars == <<pc, round, context, todo, recorded, history, tokens, clock, sleeper,
          executed, refilled, sent>>

bucket == <<tokens, sleeper, refilled, sent>>

Tool == AutoTool \cup ConfirmTool

Minute == 0..MaxClock

\* Calls of one tool in one minute are told apart by n.
Call == [tool : Tool, at : Minute, n : Nat]

\* n is the number of tools a request asks for.
Message == [kind : {"user", "reply", "request", "answer"}, turn : Turn,
            n : 0..MaxRequested]

Said(kind, t, n) == [kind |-> kind, turn |-> t, n |-> n]

\* A slice s[-n:].
Newest(s, n) == IF Len(s) <= n THEN s ELSE SubSeq(s, Len(s) - n + 1, Len(s))

Init ==
  /\ pc = [t \in Turn |-> "new"]
  /\ round = [t \in Turn |-> 0]
  /\ context = [t \in Turn |-> <<>>]
  /\ todo = [t \in Turn |-> <<>>]
  /\ recorded = [t \in Turn |-> {}]
  /\ history = [s \in Session |-> <<>>]
  /\ tokens = Capacity
  /\ clock = 0
  /\ sleeper = NoTurn
  /\ executed = [t \in Turn |-> [m \in Minute |-> 0]]
  /\ refilled = 0
  /\ sent = 0

Awake == sleeper = NoTurn

Goto(t, l) == pc' = [pc EXCEPT ![t] = l]

-----------------------------------------------------------------------------
\* LocalMemory.add, once for each message added.
Remember(h, added) == Newest(h \o added, MaxMessages)

\* Chat ends with content to return: _save_history adds the question and the
\* reply, without a suspension between the two.
Reply(t) ==
  /\ Goto(t, "done")
  /\ history' = [history EXCEPT ![SessionOf[t]] =
                   Remember(@, <<Said("user", t, 0), Said("reply", t, 0)>>)]

\* trim_context.  Under the threshold nothing is cut; over it the newer half
\* stays; and if that is over it too, the newest KeepMin messages.
Trimmed(s) ==
  LET half == Len(s) \div 2
  IN {s, Newest(s, IF half > KeepMin THEN half ELSE KeepMin), Newest(s, KeepMin)}

\* ToolGuard.check for a tool that needs no consent: the calls of this tool
\* older than a minute are forgotten, those of the others are not.
Pruned(t, x) == {c \in recorded[t] : c.tool = x => c.at = clock}

\* Planted fault: one call more than the limit.
Refused_OffByOne(t, x) == x \in ConfirmTool \/ Cardinality(Pruned(t, x)) > CallLimit

Refused(t, x) == x \in ConfirmTool \/ Cardinality(Pruned(t, x)) >= CallLimit

\* What check and, for a refused call, record leave in the call history.
Checked(t, x) == IF x \in ConfirmTool THEN recorded[t] ELSE Pruned(t, x)
Like(rec, x, m) == {c \in rec : c.tool = x /\ c.at = m}
Record(rec, x) ==
  rec \cup {[tool |-> x, at |-> clock, n |-> Cardinality(Like(rec, x, clock))]}

-----------------------------------------------------------------------------
(***************************************************************************)
(* A turn.  Only Load, Ask, Wake and the steps that reply touch what turns *)
(* share, so it does not matter that the others are steps of their own.    *)
(***************************************************************************)

\* _load_history and the question: what the context begins with.
Loaded(t) == Append(Newest(history[SessionOf[t]], Window), Said("user", t, 0))

\* Planted fault: the question is saved when the turn begins, and again with
\* the reply.
Load_SavesQuestion(t) ==
  /\ pc[t] = "new" /\ Awake
  /\ context' = [context EXCEPT ![t] = Loaded(t)]
  /\ history' = [history EXCEPT ![SessionOf[t]] = Remember(@, <<Said("user", t, 0)>>)]
  /\ Goto(t, "ready")
  /\ UNCHANGED <<round, todo, recorded, clock, executed, bucket>>

Load(t) ==
  /\ pc[t] = "new" /\ Awake
  /\ context' = [context EXCEPT ![t] = Loaded(t)]
  /\ Goto(t, "ready")
  /\ UNCHANGED <<round, todo, recorded, history, clock, executed, bucket>>

\* TokenBucket.consume.
TakeToken ==
  /\ tokens > 0
  /\ tokens' = tokens - 1
  /\ sent' = sent + 1

\* The context is trimmed and the model's call takes a token, or the turn
\* falls asleep in wait_and_consume, and the event loop with it.
Ask(t) ==
  /\ pc[t] = "ready" /\ Awake
  /\ \E s \in Trimmed(context[t]) : context' = [context EXCEPT ![t] = s]
  /\ round' = [round EXCEPT ![t] = @ + 1]
  /\ \/ /\ TakeToken
        /\ Goto(t, "asked")
        /\ UNCHANGED sleeper
     \/ /\ tokens = 0
        /\ sleeper' = t
        /\ UNCHANGED <<pc, tokens, sent>>
  /\ UNCHANGED <<todo, recorded, history, clock, executed, refilled>>

Wake(t) ==
  /\ sleeper = t
  /\ TakeToken
  /\ sleeper' = NoTurn
  /\ Goto(t, "asked")
  /\ UNCHANGED <<round, context, todo, recorded, history, clock, executed, refilled>>

\* Planted fault: the wait for a token has no end.
GiveUp_Never(t) == FALSE /\ UNCHANGED vars

\* Planted fault: a wait that timed out counts as a token.
GiveUp_Sends(t) ==
  /\ sleeper = t
  /\ tokens = 0
  /\ sleeper' = NoTurn
  /\ sent' = sent + 1
  /\ Goto(t, "asked")
  /\ UNCHANGED <<round, context, todo, recorded, history, tokens, clock, executed, refilled>>

\* The wait times out.  The client turns the error into the text of a reply.
GiveUp(t) ==
  /\ sleeper = t
  /\ tokens = 0
  /\ sleeper' = NoTurn
  /\ Reply(t)
  /\ UNCHANGED <<round, context, todo, recorded, tokens, clock, executed, sent, refilled>>

\* The model, or the client for it, replies with a text.
ReceiveText(t) ==
  /\ pc[t] = "asked" /\ Awake
  /\ Reply(t)
  /\ UNCHANGED <<round, context, todo, recorded, clock, executed, bucket>>

ReceiveRequest(t) ==
  /\ t \in Tasks
  /\ pc[t] = "asked" /\ Awake
  /\ \E n \in 1..MaxRequested : \E calls \in [1..n -> Tool] :
       /\ todo' = [todo EXCEPT ![t] = calls]
       /\ context' = [context EXCEPT ![t] = Append(@, Said("request", t, n))]
  /\ Goto(t, "tools")
  /\ UNCHANGED <<round, recorded, history, clock, executed, bucket>>

\* No answer within 120 seconds: chat raises and nothing is saved.
TimeOut(t) ==
  /\ pc[t] = "asked" /\ Awake
  /\ Goto(t, "failed")
  /\ UNCHANGED <<round, context, todo, recorded, history, clock, executed, bucket>>

\* Planted fault: a refused tool leaves the request without its answer.
Refuse_Silently(t) ==
  /\ pc[t] = "tools" /\ Awake
  /\ todo[t] # <<>>
  /\ LET x == Head(todo[t]) IN
       /\ Refused(t, x)
       /\ recorded' = [recorded EXCEPT ![t] = Record(Checked(t, x), x)]
  /\ todo' = [todo EXCEPT ![t] = Tail(@)]
  /\ UNCHANGED <<pc, round, context, history, clock, executed, bucket>>

\* The guard refuses a tool: the refusal is recorded as a call and is the
\* answer to the request.
Refuse(t) ==
  /\ pc[t] = "tools" /\ Awake
  /\ todo[t] # <<>>
  /\ LET x == Head(todo[t]) IN
       /\ Refused(t, x)
       /\ recorded' = [recorded EXCEPT ![t] = Record(Checked(t, x), x)]
  /\ todo' = [todo EXCEPT ![t] = Tail(@)]
  /\ context' = [context EXCEPT ![t] = Append(@, Said("answer", t, 0))]
  /\ UNCHANGED <<pc, round, history, clock, executed, bucket>>

StartTool(t) ==
  /\ pc[t] = "tools" /\ Awake
  /\ todo[t] # <<>>
  /\ LET x == Head(todo[t]) IN
       /\ ~Refused(t, x)
       /\ recorded' = [recorded EXCEPT ![t] = Checked(t, x)]
  /\ Goto(t, "running")
  /\ UNCHANGED <<round, context, todo, history, clock, executed, bucket>>

\* The tool ends; safe_execute makes a failure of the tool a result.
EndTool(t) ==
  /\ pc[t] = "running" /\ Awake
  /\ recorded' = [recorded EXCEPT ![t] = Record(@, Head(todo[t]))]
  /\ executed' = [executed EXCEPT ![t][clock] = @ + 1]
  /\ todo' = [todo EXCEPT ![t] = Tail(@)]
  /\ context' = [context EXCEPT ![t] = Append(@, Said("answer", t, 0))]
  /\ Goto(t, "tools")
  /\ UNCHANGED <<round, history, clock, bucket>>

\* Arguments that parse, but not to an object: the call itself raises, outside
\* safe_execute, and with it chat.
BadArguments(t) ==
  /\ pc[t] = "running" /\ Awake
  /\ Goto(t, "failed")
  /\ UNCHANGED <<round, context, todo, recorded, history, clock, executed, bucket>>

NextRound(t) ==
  /\ pc[t] = "tools" /\ Awake
  /\ todo[t] = <<>>
  /\ round[t] < MaxRounds
  /\ Goto(t, "ready")
  /\ UNCHANGED <<round, context, todo, recorded, history, clock, executed, bucket>>

\* The rounds are used up: a fixed text takes the place of the request.
ReachLimit(t) ==
  /\ pc[t] = "tools" /\ Awake
  /\ todo[t] = <<>>
  /\ round[t] >= MaxRounds
  /\ Reply(t)
  /\ UNCHANGED <<round, context, todo, recorded, clock, executed, bucket>>

\* A minute passes.
Tick ==
  /\ clock < MaxClock
  /\ clock' = clock + 1
  /\ UNCHANGED <<pc, round, context, todo, recorded, history, tokens, sleeper,
                 executed, refilled, sent>>

\* TokenBucket._refill: the time that has passed is worth a token.
Refill ==
  /\ refilled < MaxRefills
  /\ tokens < Capacity
  /\ tokens' = tokens + 1
  /\ refilled' = refilled + 1
  /\ UNCHANGED <<pc, round, context, todo, recorded, history, clock, sleeper,
                 executed, sent>>

\* A thread with an event loop of its own, a bad rating's, calls the model.
ThreadCall ==
  /\ TakeToken
  /\ UNCHANGED <<pc, round, context, todo, recorded, history, clock, sleeper, executed,
                 refilled>>

Advance(t) ==
  \/ Ask(t) \/ Wake(t) \/ GiveUp(t)
  \/ ReceiveText(t) \/ ReceiveRequest(t) \/ TimeOut(t)
  \/ Refuse(t) \/ StartTool(t) \/ EndTool(t) \/ BadArguments(t)
  \/ NextRound(t) \/ ReachLimit(t)

Next ==
  \/ \E t \in Turn : Load(t) \/ Advance(t)
  \/ Tick
  \/ Refill
  \/ ThreadCall

Spec == Init /\ [][Next]_vars

\* The event loop serves its ready coroutines in turn, the model's call has a
\* timeout, and a tool is assumed to return.
FairSpec == Spec /\ \A t \in Turn : WF_vars(Advance(t))

-----------------------------------------------------------------------------
TypeOK ==
  /\ pc \in [Turn -> {"new", "ready", "asked", "tools", "running", "done", "failed"}]
  /\ round \in [Turn -> 0..MaxRounds]
  /\ context \in [Turn -> Seq(Message)]
  /\ todo \in [Turn -> Seq(Tool)]
  /\ recorded \in [Turn -> SUBSET Call]
  /\ history \in [Session -> Seq(Message)]
  /\ tokens \in 0..Capacity
  /\ clock \in 0..MaxClock
  /\ sleeper \in Turn \cup {NoTurn}
  /\ executed \in [Turn -> [Minute -> Nat]]
  /\ refilled \in 0..MaxRefills
  /\ sent \in Nat

\* However the turns of a session overlap, fail or push out old messages, its
\* history is a sequence of exchanges: a question, then the reply of the same
\* turn.
HistoryPaired ==
  \A s \in Session :
    \A i \in 1..Len(history[s]) :
      LET m == history[s][i] IN
      IF i % 2 = 1
        THEN m.kind = "user" /\ i < Len(history[s])
        ELSE m.kind = "reply" /\ m.turn = history[s][i-1].turn

\* The model never sees a request for tools without all of its answers right
\* after it, whatever was refused, cut off or failed: the provider rejects
\* such a context.
AnswersComplete ==
  \A t \in Turn : pc[t] = "asked" =>
    \A i \in 1..Len(context[t]) :
      LET m == context[t][i] IN
      m.kind = "request" =>
        /\ i + m.n <= Len(context[t])
        /\ \A j \in i+1 .. i+m.n : context[t][j].kind = "answer"

\* No turn runs more tools in a minute than the guard allows, although only
\* the checked tool's calls are ever forgotten, and a call is recorded when it
\* ends and may end in another minute than it began.
RateKept == \A t \in Turn, m \in Minute : executed[t][m] <= CallLimit

\* All callers together send no more than the bucket held at first and got
\* since, waits that time out included.
BucketBound == sent + tokens <= Capacity + refilled

\* A turn that has begun ends, also when the bucket is empty and the whole
\* event loop waits for it.
TurnsEnd == \A t \in Turn : pc[t] = "ready" ~> pc[t] \in {"done", "failed"}

=============================================================================
