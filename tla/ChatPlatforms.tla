--------------------------- MODULE ChatPlatforms ---------------------------
(***************************************************************************)
(* The adapters for Feishu, DingTalk and WeCom: a platform calls back with *)
(* a message, the handler runs the pipeline and sends the reply through    *)
(* the platform's API with a cached access token.                          *)
(*                                                                         *)
(* One coroutine for each delivery of a message; a step runs from one      *)
(* await to the next: the pipeline, the request for a token, the request   *)
(* that sends.  A platform that gets no acknowledgement in time delivers   *)
(* the message again.  A token is represented by the moment it dies.       *)
(* Sessions, and what the pipeline does, are in Coordinator.               *)
(***************************************************************************)
EXTENDS Naturals, FiniteSets

CONSTANTS Message,        \* messages users send
          Traffic,        \* what the messages may be: see mail
          MaxDeliveries,  \* bound: times a platform delivers each message
          Secured,        \* platforms whose callback token and key are configured
          DingTalkEnabled, \* the enabled of DingTalkConfig
          Life,           \* how long a token lives
          Margin,         \* the 60 seconds a cached token must have left
          Timeout,        \* the timeout of a request to a platform
          MaxClock,       \* bound: time
          MaxFaults       \* bound: requests that fail or are refused

Delivery == UNION {{m} \X (1 .. MaxDeliveries[m]) : m \in Message}
Channel == {"feishu", "feishu_hook", "dingtalk", "wecom", "wecom_hook"}
Platform == {"feishu", "dingtalk", "wecom"}

\* What a callback carries: text, nothing to work on, the platform's check of
\* the callback's address, or what cannot be parsed or decrypted; and whether
\* it matches the token configured for the platform.
Form == {"text", "blank", "challenge", "garbled"}
Letter == [channel : Channel, form : Form, matches : BOOLEAN]

ASSUME ChatAssumption ==
  /\ {Life, Margin, Timeout, MaxClock, MaxFaults} \subseteq Nat
  /\ MaxDeliveries \in [Message -> Nat]
  /\ Timeout < Margin /\ Margin < Life /\ 2 * Timeout < Life
  /\ Traffic \subseteq [Message -> Letter]
  /\ Secured \subseteq Platform
  /\ DingTalkEnabled \in BOOLEAN

VARIABLES mail,    \* per message, where it comes from and what its callback carries
          clock,
          cache,   \* _token_cache of each platform's client
          task,    \* per delivery, its coroutine
          ack,     \* per delivery, the answer to the platform's callback
          faults

vars == <<mail, clock, cache, task, ack, faults>>

\* at: the await, doing: the pipeline or the message being sent, since: when
\* a request began, bearer: the token in use, heard: whether the user got a
\* message, failed and refused: how often the task's requests did.
Idle == [at |-> "none", doing |-> "none", since |-> 0, bearer |-> 0,
         heard |-> FALSE, failed |-> 0, refused |-> 0]

From(d) == mail[d[1]].channel

Init ==
  /\ mail \in Traffic
  /\ clock = 0
  /\ cache = [p \in Platform |-> [token |-> 0, expires |-> 0]]
  /\ task = [d \in Delivery |-> Idle]
  /\ ack = [d \in Delivery |-> "none"]
  /\ faults = 0

-----------------------------------------------------------------------------
(* Callbacks. *)

\* External.  A message is delivered once, and again when the last delivery was
\* answered with an error, or has waited long enough for an answer.
Delivers(d) ==
  /\ ack[d] = "none"
  /\ d[2] > 1 => ack[<<d[1], d[2] - 1>>] \in {"owed", "lost", "error"}

\* The answer 200 goes out; it may be lost on its way.
Answer200(d) == \E a \in {"ok", "lost"} : ack' = [ack EXCEPT ![d] = a]

\* An answer that has to wait, or an error status.
Answer(d, a) == ack' = [ack EXCEPT ![d] = a]

Begin(d) == task' = [task EXCEPT ![d].at = "process", ![d].doing = "process"]
Skip(d) == task' = [task EXCEPT ![d].at = "done"]

\* How a handler reads a letter: "work" to do, nothing to do, or an error status.
Plainly(l) ==
  CASE l.form = "garbled" -> "error" [] l.form = "text" -> "work" [] OTHER -> "none"

\* Feishu's address is checked with GET, by the token, or with POST, without it.
FeishuChallenged(l) ==
  IF "feishu" \in Secured /\ ~l.matches THEN {"none", "error"} ELSE {"none"}

\* An event whose token is wrong is answered with success, to be rid of it.
FeishuReads(l) ==
  IF l.form = "challenge" THEN FeishuChallenged(l)
  ELSE IF l.form # "garbled" /\ "feishu" \in Secured /\ ~l.matches THEN {"none"}
  ELSE {Plainly(l)}

WecomChallenged(l) == IF l.matches THEN {"none"} ELSE {"error"}

\* With a key every message is verified and decrypted; without one, a text that
\* is no XML is a message without content.
WecomReads(l) ==
  IF l.form = "challenge" THEN WecomChallenged(l)
  ELSE IF "wecom" \in Secured THEN IF l.matches THEN {Plainly(l)} ELSE {"error"}
  ELSE IF l.form = "garbled" THEN {"none"} ELSE {Plainly(l)}

\* The router of DingTalk is mounted whether or not the platform is enabled.
DingTalkReads(l) == IF DingTalkEnabled THEN {Plainly(l)} ELSE {"error"}

Reads(m) ==
  LET l == mail[m] IN
  CASE l.channel = "feishu"   -> FeishuReads(l)
    [] l.channel = "wecom"    -> WecomReads(l)
    [] l.channel = "dingtalk" -> DingTalkReads(l)
    [] OTHER -> {Plainly(l)}

\* What all handlers do with a callback without work in it.
NoWork(d) == \/ "none" \in Reads(d[1]) /\ Skip(d) /\ Answer200(d)
             \/ "error" \in Reads(d[1]) /\ Skip(d) /\ Answer(d, "error")

Inline(d) == \/ "work" \in Reads(d[1]) /\ Begin(d) /\ Answer(d, "owed")
             \/ NoWork(d)

FeishuEvent_Waits(d) == From(d) = "feishu" /\ Inline(d)

\* Feishu's callback is answered at once, the work is a task of its own.
FeishuEvent(d) ==
  /\ From(d) = "feishu"
  /\ \/ "work" \in Reads(d[1]) /\ Begin(d) /\ Answer200(d)
     \/ NoWork(d)

\* The others are answered when the work is done.
FeishuWebhook(d)    == From(d) = "feishu_hook" /\ Inline(d)
DingTalkCallback(d) == From(d) = "dingtalk" /\ Inline(d)
WecomCallback(d)    == From(d) = "wecom" /\ Inline(d)
WecomWebhook(d)     == From(d) = "wecom_hook" /\ Inline(d)

Callback(d) ==
  /\ Delivers(d)
  /\ \/ FeishuEvent(d) \/ FeishuWebhook(d) \/ DingTalkCallback(d)
     \/ WecomCallback(d) \/ WecomWebhook(d)
  /\ UNCHANGED <<mail, clock, cache, faults>>

-----------------------------------------------------------------------------
(* What a handler does when an await has ended: send the result, or the    *)
(* apology, which needs no more than the user's identifier; return; or let *)
(* the exception go, which makes the answer an error.                      *)

FeishuThen(doing, outcome) ==
  CASE doing = "process" /\ outcome = "ok" -> "result"
    [] doing # "apology" /\ outcome = "raised" -> "apology"
    [] OTHER -> "return"

DingTalkThen_NoInnerTry(doing, outcome) ==
  CASE doing = "process" /\ outcome = "ok" -> "result"
    [] doing = "result" /\ outcome = "refused" -> "fallback"
    [] doing # "apology" /\ outcome = "raised" -> "apology"
    [] doing = "apology" /\ outcome = "raised" -> "raise"
    [] OTHER -> "return"

\* A result that DingTalk refuses is sent again as plain text, and an apology
\* that fails is given up.
DingTalkThen(doing, outcome) ==
  CASE doing = "process" /\ outcome = "ok" -> "result"
    [] doing = "result" /\ outcome = "refused" -> "fallback"
    [] doing # "apology" /\ outcome = "raised" -> "apology"
    [] OTHER -> "return"

WecomThen_NoApology(doing, outcome) ==
  CASE doing = "process" /\ outcome = "ok" -> "result"
    [] OTHER -> "return"

\* The apology is sent outside of the try.
WecomThen(doing, outcome) ==
  CASE doing = "process" /\ outcome = "ok" -> "result"
    [] doing # "apology" /\ outcome = "raised" -> "apology"
    [] doing = "apology" /\ outcome = "raised" -> "raise"
    [] OTHER -> "return"

\* The group robot's reply needs a key from the environment.
WecomHookThen(doing, outcome) ==
  IF doing = "process" /\ outcome = "ok" THEN {"hook", "return"} ELSE {"return"}

Then(d, outcome) ==
  LET doing == task[d].doing IN
  CASE From(d) = "feishu"      -> {FeishuThen(doing, outcome)}
    [] From(d) = "dingtalk"    -> {DingTalkThen(doing, outcome)}
    [] From(d) = "wecom"       -> {WecomThen(doing, outcome)}
    [] From(d) = "wecom_hook"  -> WecomHookThen(doing, outcome)
    [] From(d) = "feishu_hook" -> {"return"}

-----------------------------------------------------------------------------
(* The clients. *)

Usable_NoMargin(p) == cache[p].token # 0 /\ clock < cache[p].expires

\* A cached token is used while it has more than a minute left.
Usable(p) == cache[p].token # 0 /\ clock + Margin < cache[p].expires

\* Sending takes the cached token, or asks for one.
Send(d, what, w) ==
  IF what = "hook"
  THEN [w EXCEPT !.at = "post", !.doing = what, !.since = clock, !.bearer = 0]
  ELSE IF Usable(From(d))
  THEN [w EXCEPT !.at = "post", !.doing = what, !.since = clock, !.bearer = cache[From(d)].token]
  ELSE [w EXCEPT !.at = "token", !.doing = what, !.since = clock, !.bearer = 0]

Over(w) == [w EXCEPT !.at = "done", !.doing = "none", !.since = 0, !.bearer = 0]

\* The handler runs on with outcome; w is its state with that outcome noted.
Proceed(d, outcome, w) ==
  \E next \in Then(d, outcome) :
    CASE next = "return" ->
           /\ task' = [task EXCEPT ![d] = Over(w)]
           /\ IF ack[d] = "owed" THEN Answer200(d) ELSE UNCHANGED ack
      [] next = "raise" ->
           /\ task' = [task EXCEPT ![d] = Over(w)]
           /\ Answer(d, "error")
      [] OTHER ->
           /\ task' = [task EXCEPT ![d] = Send(d, next, w)]
           /\ UNCHANGED ack

\* An await ends with an outcome other than an error.
Ends(d, outcome, w) == Proceed(d, outcome, w) /\ UNCHANGED faults

\* It ends with an exception, or the platform says no.
Fails(d, outcome, w) ==
  /\ faults < MaxFaults /\ faults' = faults + 1
  /\ Proceed(d, outcome, w)

Failed(w)  == [w EXCEPT !.failed = @ + 1]
Refused(w) == [w EXCEPT !.refused = @ + 1]
Heard(w)   == [w EXCEPT !.heard = TRUE]

\* The pipeline returns, or raises.
Processed(d) ==
  /\ task[d].at = "process"
  /\ \/ Ends(d, "ok", task[d])
     \/ Fails(d, "raised", Failed(task[d]))
  /\ UNCHANGED <<mail, clock, cache>>

\* A new token, issued at some moment since the request, is cached with a
\* lifetime counted from before the request, and used.
GetToken(d, p) ==
  /\ task[d].at = "token" /\ From(d) = p
  /\ \/ \E issued \in task[d].since .. clock :
          /\ cache' = [cache EXCEPT ![p] = [token |-> issued + Life,
                                            expires |-> task[d].since + Life]]
          /\ task' = [task EXCEPT ![d].at = "post", ![d].since = clock,
                                  ![d].bearer = issued + Life]
          /\ UNCHANGED <<ack, faults>>
     \/ /\ Fails(d, "raised", Failed(task[d]))
        /\ UNCHANGED cache
  /\ UNCHANGED <<mail, clock>>

FeishuToken(d)   == GetToken(d, "feishu")
DingTalkToken(d) == GetToken(d, "dingtalk")
WecomToken(d)    == GetToken(d, "wecom")

\* The request that sends: the user has the message, the platform refuses, or
\* the request raises, with or without the message having arrived.
Posts(d, ch, what) ==
  /\ task[d].at = "post" /\ From(d) = ch /\ task[d].doing = what
  /\ \/ Ends(d, "ok", Heard(task[d]))
     \/ Fails(d, "refused", Refused(task[d]))
     \/ Fails(d, "raised", Failed(task[d]))
     \/ Fails(d, "raised", Heard(Failed(task[d])))
  /\ UNCHANGED <<mail, clock, cache>>

FeishuCard(d)       == Posts(d, "feishu", "result")
FeishuText(d)       == Posts(d, "feishu", "apology")
DingTalkMarkdown(d) == Posts(d, "dingtalk", "result")
DingTalkText(d)     == \E what \in {"fallback", "apology"} : Posts(d, "dingtalk", what)
WecomCard(d)        == Posts(d, "wecom", "result")
WecomText(d)        == Posts(d, "wecom", "apology")
WecomHook(d)        == Posts(d, "wecom_hook", "hook")

\* Time passes; no request to a platform outlives its timeout.  httpx counts its 10
\* seconds anew for each phase of a request and each piece of the answer: Timeout
\* stands for all of them, which is assumed to be less than the margin of 60.
Tick ==
  /\ clock < MaxClock
  /\ \A d \in Delivery : task[d].at \in {"token", "post"} => clock < task[d].since + Timeout
  /\ clock' = clock + 1
  /\ UNCHANGED <<mail, cache, task, ack, faults>>

Step(d) ==
  \/ Processed(d)
  \/ FeishuToken(d) \/ DingTalkToken(d) \/ WecomToken(d)
  \/ FeishuCard(d) \/ FeishuText(d)
  \/ DingTalkMarkdown(d) \/ DingTalkText(d)
  \/ WecomCard(d) \/ WecomText(d) \/ WecomHook(d)

Next == \/ \E d \in Delivery : Callback(d) \/ Step(d)
        \/ Tick

Spec == Init /\ [][Next]_vars

-----------------------------------------------------------------------------
(* Properties. *)

TypeOK ==
  /\ clock \in 0 .. MaxClock /\ faults \in 0 .. MaxFaults
  /\ cache \in [Platform -> [token : Nat, expires : Nat]]
  /\ task \in [Delivery -> [at : {"none", "process", "token", "post", "done"},
                doing : {"none", "process", "result", "fallback", "apology", "hook"},
                since : Nat, bearer : Nat, heard : BOOLEAN,
                failed : Nat, refused : Nat]]
  /\ ack \in [Delivery -> {"none", "owed", "ok", "lost", "error"}]

\* A token is alive for as long as a request that carries it may be on its way:
\* the margin of the cache covers the timeout of the request, although several
\* coroutines refresh the token at once and the slowest writes last.
TokenAliveInUse ==
  \A d \in Delivery :
    task[d].at = "post" /\ From(d) \in Platform => clock < task[d].bearer

\* Answering Feishu at once keeps it from delivering a message twice: unless an
\* answer is lost, the pipeline runs once for each message (bot.py:221).
FeishuRunsOnce ==
  \A m \in Message :
    /\ mail[m].channel = "feishu"
    /\ \A k \in 1 .. MaxDeliveries[m] : ack[<<m, k>>] # "lost"
    => Cardinality({k \in 1 .. MaxDeliveries[m] :
                        task[<<m, k>>].at # "none" /\ "work" \in Reads(m)}) <= 1

\* One failure is forgiven: whoever wrote on a personal channel has heard from
\* the handler when it ends, unless two steps of it failed, or Feishu or WeCom
\* refused a message; DingTalk's refusal of the result is made good.
OneFailureIsForgiven ==
  \A d \in Delivery :
    /\ From(d) \in Platform /\ Reads(d[1]) = {"work"} /\ task[d].at = "done"
    /\ task[d].failed + task[d].refused <= 1
    /\ (From(d) = "dingtalk" \/ task[d].refused = 0)
    => task[d].heard

\* A handler that has ended has answered its callback, and with success
\* whatever failed, so that a failure does not bring the message back: except
\* WeCom's, whose apology is not guarded.
DoneIsAnswered ==
  \A d \in Delivery :
    task[d].at = "done" /\ Reads(d[1]) = {"work"} =>
      \/ ack[d] \in {"ok", "lost"}
      \/ ack[d] = "error" /\ From(d) = "wecom"
=============================================================================
