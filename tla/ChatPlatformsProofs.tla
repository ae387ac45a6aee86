------------------------ MODULE ChatPlatformsProofs ------------------------
(***************************************************************************)
(* What the adapters of the chat platforms promise, for any messages,      *)
(* redeliveries, lifetimes and timeouts that satisfy ChatAssumption.       *)
(*                                                                         *)
(* Tokens: no request is sent with a dead one.  The cache never promises   *)
(* more than the token has, and a request began with a token that outlives *)
(* its timeout: a cached one because the margin is longer than the         *)
(* timeout, a new one because it was issued at most a timeout ago.         *)
(*                                                                         *)
(* Callbacks: AckInv says when a delivery still owes its answer, and that  *)
(* Feishu was told "received" before any work.  ToldInv follows a delivery *)
(* through its steps: either somebody was told, or what is still to come   *)
(* will tell them, or more than one of its steps has failed.               *)
(***************************************************************************)
EXTENDS ChatPlatforms, FiniteSetTheorems, TLAPS

Tasks == [at : {"none", "process", "token", "post", "done"},
          doing : {"none", "process", "result", "fallback", "apology", "hook"},
          since : Nat, bearer : Nat, heard : BOOLEAN, failed : Nat, refused : Nat]

\* A request under way has not outlived its timeout, and its token will not die
\* before it does.
Current(w, ch) ==
  /\ w.at \in {"token", "post"} => w.since <= clock /\ clock <= w.since + Timeout
  /\ w.at = "post" /\ ch \in Platform => w.since + Timeout < w.bearer

TokenInv ==
  /\ clock \in Nat
  /\ mail \in [Message -> Letter]
  /\ cache \in [Platform -> [token : Nat, expires : Nat]]
  /\ \A p \in Platform : cache[p].expires <= cache[p].token
  /\ task \in [Delivery -> Tasks]
  /\ \A d \in Delivery : Current(task[d], From(d))

LEMMA DeliveryFacts == ASSUME NEW d \in Delivery PROVE d[1] \in Message
  BY DEF Delivery

LEMMA TokenInit == Init => TokenInv
<1> SUFFICES ASSUME Init PROVE TokenInv
  OBVIOUS
<1>1. mail \in [Message -> Letter]
  BY ChatAssumption DEF Init
<1>2. Idle \in Tasks /\ Idle.at = "none"
  BY DEF Idle, Tasks
<1>3. \A d \in Delivery : task[d] = Idle
  BY DEF Init
<1> QED
  BY <1>1, <1>2, <1>3 DEF Init, TokenInv, Current

\* A task that is set anew leaves the others as they were.
LEMMA TaskSet ==
  ASSUME TokenInv, NEW d \in Delivery, NEW w \in Tasks,
         task' = [task EXCEPT ![d] = w], Current(w, From(d)),
         UNCHANGED <<mail, clock, cache>>
  PROVE  TokenInv'
<1>1. \A e \in Delivery : task'[e] = IF e = d THEN w ELSE task[e]
  BY DEF TokenInv
<1>2. task' \in [Delivery -> Tasks]
  BY DEF TokenInv
<1> QED
  BY <1>1, <1>2 DEF TokenInv, Current, From

\* Sending begins a request, with a token that outlives it.
LEMMA SendIsCurrent ==
  ASSUME TokenInv, NEW d \in Delivery, NEW w \in Tasks,
         NEW what \in {"result", "fallback", "apology", "hook"},
         From(d) \in Platform \/ what = "hook",
         what = "hook" => From(d) \notin Platform
  PROVE  Send(d, what, w) \in Tasks /\ Current(Send(d, what, w), From(d))
<1> USE ChatAssumption
<1>0. clock \in Nat
  BY DEF TokenInv
<1>1. CASE what = "hook"
  <2> DEFINE v == [w EXCEPT !.at = "post", !.doing = what, !.since = clock, !.bearer = 0]
  <2>1. v \in Tasks /\ v.at = "post" /\ v.since = clock
    BY <1>0, <1>1 DEF Tasks
  <2>2. Send(d, what, w) = v
    BY <1>1 DEF Send
  <2> HIDE DEF v
  <2> QED
    BY <1>0, <1>1, <2>1, <2>2 DEF Current
<1>2. CASE what # "hook" /\ Usable(From(d))
  <2>1. From(d) \in Platform
    BY <1>2
  <2>2. /\ cache[From(d)].token \in Nat /\ cache[From(d)].expires \in Nat
        /\ cache[From(d)].expires <= cache[From(d)].token
        /\ clock + Margin < cache[From(d)].expires
    BY <1>2, <2>1 DEF TokenInv, Usable
  <2> DEFINE v == [w EXCEPT !.at = "post", !.doing = what, !.since = clock,
                            !.bearer = cache[From(d)].token]
  <2>3. v \in Tasks /\ v.at = "post" /\ v.since = clock /\ v.bearer = cache[From(d)].token
    BY <2>2 DEF Tasks, TokenInv
  <2>4. Send(d, what, w) = v
    BY <1>2 DEF Send
  <2> HIDE DEF v
  <2> QED
    BY <2>2, <2>3, <2>4 DEF Current, TokenInv
<1>3. CASE what # "hook" /\ ~Usable(From(d))
  <2> DEFINE v == [w EXCEPT !.at = "token", !.doing = what, !.since = clock, !.bearer = 0]
  <2>1. v \in Tasks /\ v.at = "token" /\ v.since = clock
    BY <1>0, <1>3 DEF Tasks
  <2>2. Send(d, what, w) = v
    BY <1>3 DEF Send
  <2> HIDE DEF v
  <2> QED
    BY <1>0, <2>1, <2>2 DEF Current
<1> QED
  BY <1>1, <1>2, <1>3

\* However the handler runs on, the invariant holds.
LEMMA ProceedKeeps ==
  ASSUME TokenInv, NEW d \in Delivery, NEW outcome, NEW w \in Tasks,
         w.doing = task[d].doing,
         Proceed(d, outcome, w), UNCHANGED <<mail, clock, cache>>
  PROVE  TokenInv'
<1>1. PICK next \in Then(d, outcome) :
        CASE next = "return" -> task' = [task EXCEPT ![d] = Over(w)]
          [] next = "raise"  -> task' = [task EXCEPT ![d] = Over(w)]
          [] OTHER           -> task' = [task EXCEPT ![d] = Send(d, next, w)]
  BY DEF Proceed
<1>2. Over(w) \in Tasks /\ Current(Over(w), From(d))
  BY DEF Over, Tasks, Current
<1>3. From(d) \in Channel
  BY DeliveryFacts DEF From, TokenInv, Letter
<1>4. /\ next \in {"result", "fallback", "apology", "hook", "return", "raise"}
      /\ next = "hook" => From(d) = "wecom_hook"
      /\ next \in {"result", "fallback", "apology"} => From(d) \in Platform
  BY <1>3 DEF Then, FeishuThen, DingTalkThen, WecomThen, WecomHookThen, Channel, Platform
<1>5. CASE next \in {"return", "raise"}
  BY <1>1, <1>2, <1>5, TaskSet
<1>6. CASE next \notin {"return", "raise"}
  <2>1. Send(d, next, w) \in Tasks /\ Current(Send(d, next, w), From(d))
    BY <1>4, <1>6, SendIsCurrent DEF Platform
  <2> QED
    BY <1>1, <1>6, <2>1, TaskSet
<1> QED
  BY <1>5, <1>6

\* What is noted of an await that has ended.
LEMMA NotedIsTask ==
  ASSUME NEW w \in Tasks
  PROVE  /\ {Failed(w), Refused(w), Heard(w), Heard(Failed(w))} \subseteq Tasks
         /\ \A v \in {Failed(w), Refused(w), Heard(w), Heard(Failed(w))} : v.doing = w.doing
<1>1. ASSUME NEW v \in Tasks
      PROVE  /\ Failed(v) \in Tasks /\ Failed(v).doing = v.doing
             /\ Refused(v) \in Tasks /\ Refused(v).doing = v.doing
             /\ Heard(v) \in Tasks /\ Heard(v).doing = v.doing
  <2>1. Failed(v) \in Tasks /\ Failed(v).doing = v.doing
    BY DEF Tasks, Failed
  <2>2. Refused(v) \in Tasks /\ Refused(v).doing = v.doing
    BY DEF Tasks, Refused
  <2>3. Heard(v) \in Tasks
    BY Zenon DEF Tasks, Heard
  <2>4. Heard(v).doing = v.doing
    BY DEF Tasks, Heard
  <2> QED
    BY <2>1, <2>2, <2>3, <2>4
<1>2. Failed(w) \in Tasks
  BY <1>1
<1> QED
  BY <1>1, <1>2

LEMMA CallbackKeeps ==
  ASSUME TokenInv, NEW d \in Delivery, Callback(d) PROVE TokenInv'
<1>1. \/ task' = [task EXCEPT ![d].at = "process", ![d].doing = "process"]
      \/ task' = [task EXCEPT ![d].at = "done"]
  BY DEF Callback, FeishuEvent, FeishuWebhook, DingTalkCallback, WecomCallback,
         WecomWebhook, Inline, NoWork, Begin, Skip
<1> DEFINE begun == [task[d] EXCEPT !.at = "process", !.doing = "process"]
           over  == [task[d] EXCEPT !.at = "done"]
<1>2. begun \in Tasks /\ over \in Tasks /\ begun.at = "process" /\ over.at = "done"
  BY DEF TokenInv, Tasks
<1>3. task' = [task EXCEPT ![d] = begun] \/ task' = [task EXCEPT ![d] = over]
  BY <1>1 DEF TokenInv
<1>4. UNCHANGED <<mail, clock, cache>>
  BY DEF Callback
<1> HIDE DEF begun, over
<1>5. Current(begun, From(d)) /\ Current(over, From(d))
  BY <1>2 DEF Current
<1> QED
  BY <1>2, <1>3, <1>4, <1>5, TaskSet

LEMMA TokenKeeps ==
  ASSUME TokenInv, NEW d \in Delivery, NEW p \in Platform, GetToken(d, p)
  PROVE  TokenInv'
<1> USE ChatAssumption
<1>1. /\ task[d] \in Tasks /\ task[d].at = "token" /\ From(d) = p
      /\ UNCHANGED <<mail, clock>>
      /\ task[d].since \in Nat /\ clock \in Nat
      /\ task[d].since <= clock /\ clock <= task[d].since + Timeout
  BY DEF GetToken, TokenInv, Current, Tasks
<1>2. ASSUME NEW issued \in task[d].since .. clock,
             cache' = [cache EXCEPT ![p] = [token |-> issued + Life,
                                            expires |-> task[d].since + Life]],
             task' = [task EXCEPT ![d].at = "post", ![d].since = clock,
                                  ![d].bearer = issued + Life]
      PROVE  TokenInv'
  <2> DEFINE v == [task[d] EXCEPT !.at = "post", !.since = clock, !.bearer = issued + Life]
  <2>1. issued \in Nat /\ task[d].since <= issued /\ issued <= clock
    BY <1>1, <1>2
  <2>2. v \in Tasks /\ v.at = "post" /\ v.since = clock /\ v.bearer = issued + Life
    <3>1. issued + Life \in Nat
      BY <2>1
    <3> QED
      BY <1>1, <3>1 DEF Tasks
  <2>3. task' = [task EXCEPT ![d] = v]
    BY <1>2 DEF TokenInv
  <2> HIDE DEF v
  <2>4. Current(v, From(d))
    BY <1>1, <2>1, <2>2 DEF Current
  <2>5. \A e \in Delivery : task'[e] = IF e = d THEN v ELSE task[e]
    BY <2>3 DEF TokenInv
  <2>6. task' \in [Delivery -> Tasks] /\ \A e \in Delivery : Current(task[e], From(e))'
    BY <1>1, <2>2, <2>3, <2>4, <2>5 DEF TokenInv, Current, From
  <2>7. /\ cache' \in [Platform -> [token : Nat, expires : Nat]]
        /\ \A q \in Platform : cache'[q].expires <= cache'[q].token
    BY <1>1, <1>2, <2>1 DEF TokenInv
  <2> QED
    BY <1>1, <2>6, <2>7 DEF TokenInv
<1>3. CASE Fails(d, "raised", Failed(task[d])) /\ UNCHANGED cache
  BY <1>1, <1>3, NotedIsTask, ProceedKeeps DEF Fails
<1> QED
  BY <1>2, <1>3 DEF GetToken

LEMMA TokenStep == TokenInv /\ [Next]_vars => TokenInv'
<1> SUFFICES ASSUME TokenInv, [Next]_vars PROVE TokenInv'
  OBVIOUS
<1>1. CASE UNCHANGED vars
  BY <1>1 DEF vars, TokenInv, Current, From
<1>2. ASSUME NEW d \in Delivery, Callback(d) PROVE TokenInv'
  BY <1>2, CallbackKeeps
<1>3. ASSUME NEW d \in Delivery, Processed(d) PROVE TokenInv'
  <2>1. task[d] \in Tasks
    BY DEF TokenInv
  <2> QED
    BY <1>3, <2>1, NotedIsTask, ProceedKeeps DEF Processed, Ends, Fails
<1>4. ASSUME NEW d \in Delivery, NEW ch, NEW what, Posts(d, ch, what) PROVE TokenInv'
  <2>1. task[d] \in Tasks
    BY DEF TokenInv
  <2> QED
    BY <1>4, <2>1, NotedIsTask, ProceedKeeps DEF Posts, Ends, Fails
<1>5. ASSUME NEW d \in Delivery, Step(d) PROVE TokenInv'
  <2>1. CASE FeishuToken(d) \/ DingTalkToken(d) \/ WecomToken(d)
    BY <2>1, TokenKeeps DEF FeishuToken, DingTalkToken, WecomToken, Platform
  <2> QED
    BY <1>3, <1>4, <1>5, <2>1
       DEF Step, FeishuCard, FeishuText, DingTalkMarkdown, DingTalkText, WecomCard,
           WecomText, WecomHook
<1>6. CASE Tick
  <2>1. clock' = clock + 1 /\ UNCHANGED <<mail, cache, task>>
    BY <1>6 DEF Tick
  <2>2. ASSUME NEW d \in Delivery PROVE Current(task[d], From(d))'
    BY <1>6, <2>1, ChatAssumption DEF Tick, TokenInv, Current, From, Tasks
  <2> QED
    BY <2>1, <2>2 DEF TokenInv
<1> QED
  BY <1>1, <1>2, <1>5, <1>6 DEF Next

\* However many coroutines refresh a token at once, and whichever of them writes
\* the cache last, a request that carries a token ends, by its answer or its
\* timeout, while the token lives.
THEOREM TokensOutliveRequests == Spec => []TokenAliveInUse
<1>1. TokenInv => TokenAliveInUse
  BY ChatAssumption DEF TokenInv, TokenAliveInUse, Current, Tasks
<1> QED
  BY TokenInit, TokenStep, <1>1, PTL DEF Spec

-----------------------------------------------------------------------------
(***************************************************************************)
(* What a step of a handler can be: the end of an await with an outcome    *)
(* that is noted, or the arrival of a new token.                           *)
(***************************************************************************)

Awaiting(w) == w.at \in {"process", "token", "post"}

Noted(v, outcome, w) ==
  \/ outcome = "ok" /\ v.at = "process" /\ w = v
  \/ outcome = "ok" /\ v.at = "post" /\ w = Heard(v)
  \/ outcome = "refused" /\ v.at = "post" /\ w = Refused(v)
  \/ outcome = "raised" /\ w \in {Failed(v), Heard(Failed(v))}

AwaitEnds(d) ==
  \E outcome \in {"ok", "refused", "raised"}, w \in Tasks :
    /\ Noted(task[d], outcome, w)
    /\ Proceed(d, outcome, w)

TokenComes(d) ==
  /\ task[d].at = "token"
  /\ \E issued \in Nat :
       task' = [task EXCEPT ![d].at = "post", ![d].since = clock, ![d].bearer = issued]
  /\ UNCHANGED ack

LEMMA StepForms ==
  ASSUME TokenInv, NEW d \in Delivery, Step(d)
  PROVE  Awaiting(task[d]) /\ UNCHANGED mail /\ (AwaitEnds(d) \/ TokenComes(d))
<1>0. task[d] \in Tasks
  BY DEF TokenInv
<1>1. {Failed(task[d]), Refused(task[d]), Heard(task[d]), Heard(Failed(task[d]))} \subseteq Tasks
  BY <1>0, NotedIsTask
<1>2. CASE Processed(d)
  BY <1>0, <1>1, <1>2 DEF Processed, Ends, Fails, AwaitEnds, Noted, Awaiting
<1>3. ASSUME NEW p \in Platform, GetToken(d, p)
      PROVE  Awaiting(task[d]) /\ UNCHANGED mail /\ (AwaitEnds(d) \/ TokenComes(d))
  <2>1. task[d].at = "token" /\ UNCHANGED mail
    BY <1>3 DEF GetToken
  <2>2. CASE Fails(d, "raised", Failed(task[d]))
    BY <1>1, <2>1, <2>2 DEF Fails, AwaitEnds, Noted, Awaiting
  <2>3. ASSUME NEW issued \in task[d].since .. clock,
               task' = [task EXCEPT ![d].at = "post", ![d].since = clock,
                                    ![d].bearer = issued + Life],
               UNCHANGED ack
        PROVE  TokenComes(d)
    <3>1. issued + Life \in Nat
      BY <1>0, ChatAssumption DEF Tasks, TokenInv
    <3> QED
      BY <2>1, <2>3, <3>1 DEF TokenComes
  <2> QED
    BY <1>3, <2>1, <2>2, <2>3 DEF GetToken, Awaiting
<1>4. ASSUME NEW ch, NEW what, Posts(d, ch, what)
      PROVE  Awaiting(task[d]) /\ UNCHANGED mail /\ AwaitEnds(d)
  BY <1>0, <1>1, <1>4 DEF Posts, Ends, Fails, AwaitEnds, Noted, Awaiting
<1>5. CASE FeishuToken(d) \/ DingTalkToken(d) \/ WecomToken(d)
  BY <1>3, <1>5 DEF FeishuToken, DingTalkToken, WecomToken, Platform
<1> QED
  BY <1>2, <1>4, <1>5
     DEF Step, FeishuCard, FeishuText, DingTalkMarkdown, DingTalkText, WecomCard,
         WecomText, WecomHook

\* Where a task is when its await has ended.
LEMMA ProceedForms ==
  ASSUME TokenInv, NEW d \in Delivery, NEW outcome, NEW w \in Tasks, Proceed(d, outcome, w)
  PROVE  \E next \in Then(d, outcome) :
           \/ /\ next \in {"return", "raise"}
              /\ task' = [task EXCEPT ![d] = Over(w)]
              /\ next = "return" =>
                   IF ack[d] = "owed" THEN Answer200(d) ELSE UNCHANGED ack
              /\ next = "raise" => Answer(d, "error")
           \/ /\ next \notin {"return", "raise"}
              /\ task' = [task EXCEPT ![d] = Send(d, next, w)]
              /\ UNCHANGED ack
<1>1. PICK next \in Then(d, outcome) :
        CASE next = "return" ->
               /\ task' = [task EXCEPT ![d] = Over(w)]
               /\ IF ack[d] = "owed" THEN Answer200(d) ELSE UNCHANGED ack
          [] next = "raise" ->
               /\ task' = [task EXCEPT ![d] = Over(w)]
               /\ Answer(d, "error")
          [] OTHER ->
               /\ task' = [task EXCEPT ![d] = Send(d, next, w)]
               /\ UNCHANGED ack
  BY DEF Proceed
<1> QED
  BY <1>1

\* What sending and ending make of a task.
LEMMA SentAndOver ==
  ASSUME NEW d \in Delivery, NEW what, NEW w \in Tasks
  PROVE  /\ Send(d, what, w).at \in {"token", "post"}
         /\ Send(d, what, w).doing = what
         /\ Send(d, what, w).heard = w.heard
         /\ Send(d, what, w).failed = w.failed
         /\ Send(d, what, w).refused = w.refused
         /\ Over(w).at = "done"
         /\ Over(w).heard = w.heard /\ Over(w).failed = w.failed
         /\ Over(w).refused = w.refused
  BY DEF Send, Over, Tasks

-----------------------------------------------------------------------------
(***************************************************************************)
(* The answers to the callbacks.                                           *)
(***************************************************************************)

\* What a task and the answer to its callback have to do with each other, and when
\* a task that is done may have answered with an error.
Owing(w, a) ==
  /\ a = "none" <=> w.at = "none"
  /\ Awaiting(w) => a \in {"owed", "ok", "lost"}

Answered(d) ==
  task[d].at = "done" /\ Reads(d[1]) = {"work"} =>
    ack[d] \in {"ok", "lost"} \/ (ack[d] = "error" /\ From(d) = "wecom")

\* Feishu's work is begun with its answer, and begun again only after a lost one.
FeishuOnce(d) ==
  From(d) = "feishu" /\ "work" \in Reads(d[1]) =>
    /\ ack[d] \in {"none", "ok", "lost"}
    /\ task[d].at # "none" /\ d[2] > 1 => ack[<<d[1], d[2] - 1>>] = "lost"

AckInv ==
  /\ ack \in [Delivery -> {"none", "owed", "ok", "lost", "error"}]
  /\ \A d \in Delivery : Owing(task[d], ack[d]) /\ Answered(d) /\ FeishuOnce(d)

LEMMA AckInit == Init => AckInv
<1> SUFFICES ASSUME Init PROVE AckInv
  OBVIOUS
<1>1. \A d \in Delivery : task[d] = Idle /\ ack[d] = "none"
  BY DEF Init
<1>2. ack \in [Delivery -> {"none", "owed", "ok", "lost", "error"}]
  BY DEF Init
<1>3. Idle.at = "none" /\ ~Awaiting(Idle)
  BY DEF Idle, Awaiting
<1> QED
  BY <1>1, <1>2, <1>3 DEF AckInv, Owing, Answered, FeishuOnce

\* A step that sets the task and the answer of one delivery, without taking
\* back a "lost", only has to keep what that delivery is said to have.
LEMMA AckSet ==
  ASSUME TokenInv, AckInv, NEW d \in Delivery, NEW v,
         NEW a \in {"none", "owed", "ok", "lost", "error"},
         task' = [task EXCEPT ![d] = v], ack' = [ack EXCEPT ![d] = a], mail' = mail,
         Owing(v, a), Answered(d)', FeishuOnce(d)',
         From(d) = "feishu" /\ ack[d] = "lost" => a = "lost"
  PROVE  AckInv'
<1>1. task'[d] = v /\ \A e \in Delivery : e # d => task'[e] = task[e]
  BY DEF TokenInv
<1>2. ack'[d] = a /\ \A e \in Delivery : e # d => ack'[e] = ack[e]
  BY DEF AckInv
<1>3. ack' \in [Delivery -> {"none", "owed", "ok", "lost", "error"}]
  BY DEF AckInv
<1>4. \A e \in Delivery : From(e)' = From(e) /\ Reads(e[1])' = Reads(e[1])
  BY DEF From, Reads
<1>5. ASSUME NEW e \in Delivery, e # d
      PROVE  Owing(task'[e], ack'[e]) /\ Answered(e)' /\ FeishuOnce(e)'
  <2>1. Owing(task'[e], ack'[e]) /\ Answered(e)'
    BY <1>1, <1>2, <1>4, <1>5 DEF AckInv, Answered
  <2>2. \A b \in Delivery : From(b) = "feishu" /\ ack[b] = "lost" => ack'[b] = "lost"
    BY <1>2
  <2>3. e[2] > 1 => /\ <<e[1], e[2] - 1>> \in Delivery
                    /\ From(<<e[1], e[2] - 1>>) = From(e)
    BY ChatAssumption DEF Delivery, From
  <2>4. FeishuOnce(e)'
    BY <1>1, <1>2, <1>4, <1>5, <2>2, <2>3 DEF AckInv, FeishuOnce
  <2> QED
    BY <2>1, <2>4
<1> QED
  BY <1>1, <1>2, <1>3, <1>5 DEF AckInv

\* A letter with work for Feishu has nothing else, so it is answered at once.
LEMMA FeishuWork ==
  ASSUME TokenInv, NEW d \in Delivery, From(d) = "feishu", "work" \in Reads(d[1])
  PROVE  Reads(d[1]) = {"work"}
<1>1. Reads(d[1]) = FeishuReads(mail[d[1]])
  BY DEF From, Reads
<1> QED
  BY <1>1 DEF FeishuReads, FeishuChallenged, Plainly

\* The work of a callback is begun, or there is none and it is over.
LEMMA CallbackForms ==
  ASSUME TokenInv, NEW d \in Delivery, Callback(d)
  PROVE  \/ /\ task' = [task EXCEPT ![d] = [task[d] EXCEPT !.at = "process", !.doing = "process"]]
            /\ "work" \in Reads(d[1])
            /\ \/ From(d) = "feishu" /\ Answer200(d)
               \/ From(d) # "feishu" /\ Answer(d, "owed")
         \/ /\ task' = [task EXCEPT ![d] = [task[d] EXCEPT !.at = "done"]]
            /\ Reads(d[1]) # {"work"}
            /\ From(d) = "feishu" => "work" \notin Reads(d[1])
            /\ Answer200(d) \/ Answer(d, "error")
<1> DEFINE begun == [task[d] EXCEPT !.at = "process", !.doing = "process"]
           over  == [task[d] EXCEPT !.at = "done"]
<1>1. /\ Begin(d) => task' = [task EXCEPT ![d] = begun]
      /\ Skip(d) => task' = [task EXCEPT ![d] = over]
  BY DEF Begin, Skip, TokenInv
<1>2. NoWork(d) => /\ task' = [task EXCEPT ![d] = over]
                   /\ Reads(d[1]) # {"work"}
                   /\ Answer200(d) \/ Answer(d, "error")
  BY <1>1 DEF NoWork
<1> QED
  BY <1>1, <1>2, FeishuWork
     DEF Callback, FeishuEvent, FeishuWebhook, DingTalkCallback, WecomCallback,
         WecomWebhook, Inline

LEMMA AckCallback ==
  ASSUME TokenInv, AckInv, NEW d \in Delivery, Callback(d) PROVE AckInv'
<1>1. /\ ack[d] = "none" /\ task[d].at = "none" /\ mail' = mail
      /\ d[2] > 1 => ack[<<d[1], d[2] - 1>>] \in {"owed", "lost", "error"}
  BY DEF Callback, Delivers, AckInv, Owing
<1> DEFINE begun == [task[d] EXCEPT !.at = "process", !.doing = "process"]
           over  == [task[d] EXCEPT !.at = "done"]
<1>2. /\ task[d] \in Tasks
      /\ begun.at = "process" /\ over.at = "done"
  BY DEF TokenInv, Tasks
<1>3. \/ /\ task' = [task EXCEPT ![d] = begun]
         /\ "work" \in Reads(d[1])
         /\ \/ From(d) = "feishu" /\ Answer200(d)
            \/ From(d) # "feishu" /\ Answer(d, "owed")
      \/ /\ task' = [task EXCEPT ![d] = over]
         /\ Reads(d[1]) # {"work"}
         /\ From(d) = "feishu" => "work" \notin Reads(d[1])
         /\ Answer200(d) \/ Answer(d, "error")
  BY CallbackForms
<1> HIDE DEF begun, over
<1>4. PICK a \in {"owed", "ok", "lost", "error"} : ack' = [ack EXCEPT ![d] = a]
  BY <1>3 DEF Answer200, Answer
<1>5. ack'[d] = a
  BY <1>4 DEF AckInv
<1>6. Reads(d[1])' = Reads(d[1]) /\ From(d)' = From(d)
  BY <1>1 DEF Reads, From
<1>7. d[2] > 1 => /\ <<d[1], d[2] - 1>> \in Delivery /\ <<d[1], d[2] - 1>> # d
                  /\ From(<<d[1], d[2] - 1>>) = From(d)
  BY ChatAssumption DEF Delivery, From
<1>8. CASE task' = [task EXCEPT ![d] = begun]
  <2>1. task'[d] = begun
    BY <1>8 DEF TokenInv
  <2>2. /\ "work" \in Reads(d[1])
        /\ From(d) = "feishu" => a \in {"ok", "lost"}
        /\ a \in {"owed", "ok", "lost"}
    <3>1. begun # over
      BY <1>2
    <3>2. /\ "work" \in Reads(d[1])
          /\ \/ From(d) = "feishu" /\ Answer200(d)
             \/ From(d) # "feishu" /\ Answer(d, "owed")
      BY <1>3, <1>8, <2>1, <3>1 DEF TokenInv
    <3> QED
      BY <1>5, <3>2 DEF Answer200, Answer, AckInv
  <2>3. Owing(begun, a) /\ Answered(d)'
    BY <1>2, <2>1, <2>2 DEF Owing, Awaiting, Answered
  <2>4. FeishuOnce(d)'
    <3> SUFFICES ASSUME From(d) = "feishu", d[2] > 1
                 PROVE  ack'[<<d[1], d[2] - 1>>] = "lost"
      BY <1>5, <1>6, <2>2 DEF FeishuOnce
    <3>1. ack[<<d[1], d[2] - 1>>] = "lost"
      BY <1>1, <1>7, <2>2 DEF AckInv, FeishuOnce
    <3> QED
      BY <1>4, <1>7, <3>1 DEF AckInv
  <2> QED
    BY <1>1, <1>4, <1>8, <2>3, <2>4, AckSet
<1>9. CASE task' = [task EXCEPT ![d] = over]
  <2>1. task'[d] = over
    BY <1>9 DEF TokenInv
  <2>2. Reads(d[1]) # {"work"} /\ (From(d) = "feishu" => "work" \notin Reads(d[1]))
    <3>1. begun # over
      BY <1>2
    <3> QED
      BY <1>3, <1>9, <2>1, <3>1 DEF TokenInv
  <2>3. Owing(over, a) /\ Answered(d)' /\ FeishuOnce(d)'
    BY <1>2, <1>6, <2>2 DEF Owing, Awaiting, Answered, FeishuOnce
  <2> QED
    BY <1>1, <1>4, <1>9, <2>3, AckSet
<1> QED
  BY <1>3, <1>8, <1>9

\* Handler d runs on to its next request, its callback answered as before, or
\* ends: with an answer, or with an error if it is WeCom's.
Settled(d, v, a) ==
  /\ task' = [task EXCEPT ![d] = v] /\ ack' = [ack EXCEPT ![d] = a]
  /\ \/ Awaiting(v) /\ a = ack[d]
     \/ v.at = "done" /\ a \in {"ok", "lost"} /\ (a = ack[d] \/ ack[d] = "owed")
     \/ v.at = "done" /\ a = "error" /\ From(d) = "wecom"

\* A handler runs on to its next request, or ends: with an error only from WeCom.
LEMMA Settles ==
  ASSUME TokenInv, AckInv, NEW d \in Delivery, Step(d)
  PROVE  \E a \in {"owed", "ok", "lost", "error"} : \E v : Settled(d, v, a)
<1>1. Awaiting(task[d]) /\ ack[d] \in {"owed", "ok", "lost"}
  BY StepForms DEF AckInv, Owing
<1>2. UNCHANGED ack => ack' = [ack EXCEPT ![d] = ack[d]]
  BY DEF AckInv
<1>3. CASE TokenComes(d)
  <2>1. PICK issued \in Nat :
          task' = [task EXCEPT ![d].at = "post", ![d].since = clock, ![d].bearer = issued]
    BY <1>3 DEF TokenComes
  <2> DEFINE v == [task[d] EXCEPT !.at = "post", !.since = clock, !.bearer = issued]
  <2>2. task' = [task EXCEPT ![d] = v] /\ Awaiting(v)
    BY <2>1 DEF TokenInv, Tasks, Awaiting
  <2>3. Settled(d, v, ack[d])
    BY <1>2, <1>3, <2>2 DEF TokenComes, Settled
  <2> QED
    BY <1>1, <2>3
<1>4. ASSUME NEW outcome, NEW w \in Tasks, Proceed(d, outcome, w)
      PROVE  \E a \in {"owed", "ok", "lost", "error"} : \E v : Settled(d, v, a)
  <2>1. PICK next \in Then(d, outcome) :
          \/ /\ next \in {"return", "raise"}
             /\ task' = [task EXCEPT ![d] = Over(w)]
             /\ next = "return" =>
                  IF ack[d] = "owed" THEN Answer200(d) ELSE UNCHANGED ack
             /\ next = "raise" => Answer(d, "error")
          \/ /\ next \notin {"return", "raise"}
             /\ task' = [task EXCEPT ![d] = Send(d, next, w)]
             /\ UNCHANGED ack
    BY <1>4, ProceedForms
  <2>2. Over(w).at = "done" /\ Awaiting(Send(d, next, w))
    BY SentAndOver DEF Awaiting
  <2>3. CASE next = "return"
    <3>1. CASE ack[d] = "owed"
      <4>1. PICK a \in {"ok", "lost"} : ack' = [ack EXCEPT ![d] = a]
        BY <2>1, <2>3, <3>1 DEF Answer200
      <4>2. Settled(d, Over(w), a)
        BY <2>1, <2>2, <2>3, <3>1, <4>1 DEF Settled
      <4> QED
        BY <4>2
    <3>2. CASE ack[d] # "owed"
      <4>1. Settled(d, Over(w), ack[d])
        BY <1>1, <1>2, <2>1, <2>2, <2>3, <3>2 DEF Settled
      <4> QED
        BY <1>1, <4>1
    <3> QED
      BY <3>1, <3>2
  <2>4. CASE next = "raise"
    <3>1. From(d) \in Channel
      BY DeliveryFacts DEF From, TokenInv, Letter
    <3>2. From(d) = "wecom"
      BY <2>4, <3>1
         DEF Then, FeishuThen, DingTalkThen, WecomThen, WecomHookThen, Channel
    <3>3. Settled(d, Over(w), "error")
      BY <2>1, <2>2, <2>4, <3>2 DEF Answer, Settled
    <3> QED
      BY <3>3
  <2>5. CASE next \notin {"return", "raise"}
    <3>1. Settled(d, Send(d, next, w), ack[d])
      BY <1>2, <2>1, <2>2, <2>5 DEF Settled
    <3> QED
      BY <1>1, <3>1
  <2> QED
    BY <2>3, <2>4, <2>5
<1> QED
  BY <1>3, <1>4, StepForms DEF AwaitEnds

LEMMA AckStep ==
  ASSUME TokenInv, AckInv, NEW d \in Delivery, Step(d) PROVE AckInv'
<1>1. Awaiting(task[d]) /\ mail' = mail /\ ack[d] \in {"owed", "ok", "lost"}
  BY StepForms DEF AckInv, Owing
<1>2. Reads(d[1])' = Reads(d[1]) /\ From(d)' = From(d)
  BY <1>1 DEF Reads, From
<1>3. PICK a \in {"owed", "ok", "lost", "error"} : \E v : Settled(d, v, a)
  BY Settles
<1>4. PICK v : Settled(d, v, a)
  BY <1>3
<1>5. task'[d] = v /\ ack'[d] = a
  BY <1>4 DEF TokenInv, AckInv, Settled
<1>6. Owing(v, a) /\ Answered(d)'
  BY <1>1, <1>2, <1>4, <1>5 DEF Owing, Awaiting, Answered, Settled
<1>7. FeishuOnce(d)'
  <2> SUFFICES ASSUME From(d) = "feishu", "work" \in Reads(d[1])
               PROVE  /\ ack'[d] \in {"none", "ok", "lost"}
                      /\ d[2] > 1 => ack'[<<d[1], d[2] - 1>>] = "lost"
    BY <1>2 DEF FeishuOnce
  <2>1. ack[d] \in {"ok", "lost"} /\ task[d].at # "none"
    BY <1>1 DEF AckInv, FeishuOnce, Awaiting
  <2>2. ack' = ack
    BY <1>4, <2>1 DEF AckInv, Settled
  <2> QED
    BY <2>1, <2>2 DEF AckInv, FeishuOnce
<1>8. From(d) = "feishu" /\ ack[d] = "lost" => a = "lost"
  BY <1>4 DEF Settled
<1> QED
  BY <1>1, <1>4, <1>6, <1>7, <1>8, AckSet DEF Settled

LEMMA AckNext == TokenInv /\ AckInv /\ [Next]_vars => AckInv'
<1> SUFFICES ASSUME TokenInv, AckInv, UNCHANGED <<mail, task, ack>> PROVE AckInv'
  BY AckCallback, AckStep DEF Next, Tick, vars
<1> QED
  BY DEF AckInv, Answered, FeishuOnce, From, Reads

\* A platform whose callback had work in it gets its answer, and it is success,
\* whatever failed behind it, unless WeCom's apology failed.
THEOREM WorkIsAnswered == Spec => []DoneIsAnswered
<1>1. AckInv => DoneIsAnswered
  BY DEF AckInv, Answered, DoneIsAnswered
<1> QED
  BY TokenInit, TokenStep, AckInit, AckNext, <1>1, PTL DEF Spec

\* Feishu's message is worked on once however often it is delivered, as long as
\* no answer of the handler is lost on the way.
THEOREM FeishuWorksOnce == Spec => []FeishuRunsOnce
<1>1. ASSUME TokenInv, AckInv PROVE FeishuRunsOnce
  <2> SUFFICES ASSUME NEW m \in Message, mail[m].channel = "feishu",
                      \A k \in 1 .. MaxDeliveries[m] : ack[<<m, k>>] # "lost"
               PROVE  Cardinality({k \in 1 .. MaxDeliveries[m] :
                          task[<<m, k>>].at # "none" /\ "work" \in Reads(m)}) <= 1
    BY DEF FeishuRunsOnce
  <2> DEFINE ran == {k \in 1 .. MaxDeliveries[m] :
                       task[<<m, k>>].at # "none" /\ "work" \in Reads(m)}
  <2>1. MaxDeliveries[m] \in Nat
    BY ChatAssumption
  <2>2. ASSUME NEW k \in ran PROVE k = 1
    <3>1. <<m, k>> \in Delivery /\ k \in Nat /\ k >= 1
      BY <2>1 DEF Delivery
    <3>2. From(<<m, k>>) = "feishu"
      BY DEF From
    <3>3. FeishuOnce(<<m, k>>)
      BY <1>1, <3>1 DEF AckInv
    <3>4. k > 1 => ack[<<m, k - 1>>] = "lost"
      BY <3>2, <3>3 DEF FeishuOnce
    <3> QED
      BY <2>1, <3>1, <3>4
  <2> HIDE DEF ran
  <2>3. ran = {} \/ ran = {1}
    BY <2>2
  <2>4. Cardinality(ran) <= 1
    BY <2>3, FS_EmptySet, FS_Singleton
  <2> QED
    BY <2>4 DEF ran
<1> QED
  BY TokenInit, TokenStep, AckInit, AckNext, <1>1, PTL DEF Spec

-----------------------------------------------------------------------------
(***************************************************************************)
(* What a user is told.  A task that sends the result has had no trouble,  *)
(* one that sends the plain text has been refused once, one that sends the *)
(* apology has failed once: so trouble with any message but the result is  *)
(* a second one.                                                           *)
(***************************************************************************)

Told(w, ch) ==
  /\ w.at \in {"none", "process"} => w.failed = 0 /\ w.refused = 0
  /\ w.at = "process" => w.doing = "process"
  /\ w.at \in {"token", "post"} /\ ch \in Platform =>
       \/ w.doing = "result" /\ w.failed = 0 /\ w.refused = 0
       \/ w.doing = "fallback" /\ ch = "dingtalk" /\ w.refused = 1 /\ w.failed = 0
       \/ w.doing = "apology" /\ w.failed > 0

Forgiven(w, ch) ==
  /\ w.at = "done" /\ ch \in Platform
  /\ w.failed + w.refused <= 1
  /\ ch = "dingtalk" \/ w.refused = 0
  => w.heard

ToldInv ==
  \A d \in Delivery :
    Told(task[d], From(d)) /\ (Reads(d[1]) = {"work"} => Forgiven(task[d], From(d)))

LEMMA ToldInit == Init => ToldInv
<1> SUFFICES ASSUME Init, NEW d \in Delivery
             PROVE  Told(task[d], From(d)) /\ Forgiven(task[d], From(d))
  BY DEF ToldInv
<1>1. task[d] = Idle
  BY DEF Init
<1> QED
  BY <1>1 DEF Told, Forgiven, Idle

LEMMA ToldSet ==
  ASSUME TokenInv, ToldInv, NEW d \in Delivery, NEW v,
         task' = [task EXCEPT ![d] = v], mail' = mail,
         Told(v, From(d)), Reads(d[1]) = {"work"} => Forgiven(v, From(d))
  PROVE  ToldInv'
<1>1. \A e \in Delivery : task'[e] = IF e = d THEN v ELSE task[e]
  BY DEF TokenInv
<1>2. \A e \in Delivery : From(e)' = From(e) /\ Reads(e[1])' = Reads(e[1])
  BY DEF From, Reads
<1>3. ASSUME NEW e \in Delivery
      PROVE  Told(task'[e], From(e)) /\ (Reads(e[1]) = {"work"} => Forgiven(task'[e], From(e)))
  BY <1>1 DEF ToldInv
<1> QED
  BY <1>2, <1>3 DEF ToldInv, Told, Forgiven

LEMMA ToldCallback ==
  ASSUME TokenInv, AckInv, ToldInv, NEW d \in Delivery, Callback(d) PROVE ToldInv'
<1> DEFINE begun == [task[d] EXCEPT !.at = "process", !.doing = "process"]
           over  == [task[d] EXCEPT !.at = "done"]
<1>1. /\ task[d].at = "none" /\ mail' = mail
      /\ task[d].failed = 0 /\ task[d].refused = 0
  BY DEF Callback, Delivers, AckInv, Owing, ToldInv, Told
<1>2. /\ begun.at = "process" /\ begun.doing = "process"
      /\ begun.failed = 0 /\ begun.refused = 0 /\ over.at = "done"
  BY <1>1 DEF TokenInv, Tasks
<1>3. \/ task' = [task EXCEPT ![d] = begun]
      \/ task' = [task EXCEPT ![d] = over] /\ Reads(d[1]) # {"work"}
  BY CallbackForms
<1> HIDE DEF begun, over
<1>4. Told(begun, From(d)) /\ Forgiven(begun, From(d)) /\ Told(over, From(d))
  BY <1>2 DEF Told, Forgiven
<1> QED
  BY <1>1, <1>3, <1>4, ToldSet

\* What is noted of an await leaves the place and the message of the task.
LEMMA NotedCounts ==
  ASSUME NEW v \in Tasks, NEW outcome, NEW w, Noted(v, outcome, w)
  PROVE  /\ v.failed \in Nat /\ v.refused \in Nat
         /\ w.failed = v.failed + (IF outcome = "raised" THEN 1 ELSE 0)
         /\ w.refused = v.refused + (IF outcome = "refused" THEN 1 ELSE 0)
         /\ outcome = "ok" => v.at = "process" \/ w.heard
         /\ outcome \in {"ok", "refused", "raised"}
         /\ outcome = "refused" => v.at = "post"
<1>1. /\ Failed(v).failed = v.failed + 1 /\ Failed(v).refused = v.refused
      /\ Refused(v).refused = v.refused + 1 /\ Refused(v).failed = v.failed
      /\ Heard(v).failed = v.failed /\ Heard(v).refused = v.refused
      /\ Failed(v) \in Tasks
  BY DEF Tasks, Failed, Refused, Heard
<1>2. \A u \in Tasks : /\ Heard(u).failed = u.failed /\ Heard(u).refused = u.refused
                       /\ Heard(u).heard
  BY Zenon DEF Tasks, Heard
<1>3. v.failed \in Nat /\ v.refused \in Nat
  BY DEF Tasks
<1> QED
  BY <1>1, <1>2, <1>3 DEF Noted

\* The handler of a personal channel goes on to the message its trouble calls
\* for, or ends with its user told, or with more than one trouble.
LEMMA ToldProceeds ==
  ASSUME TokenInv, ToldInv, NEW d \in Delivery, Awaiting(task[d]),
         NEW outcome, NEW w, Noted(task[d], outcome, w), NEW next \in Then(d, outcome),
         From(d) \in Platform
  PROVE  /\ next \in {"return", "raise"} =>
              \/ w.heard
              \/ w.failed + w.refused > 1
              \/ From(d) # "dingtalk" /\ w.refused # 0
         /\ next \notin {"return", "raise"} =>
              \/ next = "result" /\ w.failed = 0 /\ w.refused = 0
              \/ /\ next = "fallback" /\ From(d) = "dingtalk"
                 /\ w.refused = 1 /\ w.failed = 0
              \/ next = "apology" /\ w.failed > 0
<1>1. task[d] \in Tasks /\ Told(task[d], From(d))
  BY DEF TokenInv, ToldInv
<1>2. /\ task[d].failed \in Nat /\ task[d].refused \in Nat
      /\ w.failed = task[d].failed + (IF outcome = "raised" THEN 1 ELSE 0)
      /\ w.refused = task[d].refused + (IF outcome = "refused" THEN 1 ELSE 0)
      /\ outcome = "ok" => task[d].at = "process" \/ w.heard
      /\ outcome \in {"ok", "refused", "raised"}
      /\ outcome = "refused" => task[d].at = "post"
  BY <1>1, NotedCounts
<1>3. CASE From(d) = "feishu"
  <2>1. next = FeishuThen(task[d].doing, outcome)
    BY <1>3 DEF Then
  <2> QED
    BY <1>1, <1>2, <1>3, <2>1 DEF FeishuThen, Told, Awaiting
<1>4. CASE From(d) = "dingtalk"
  <2>1. next = DingTalkThen(task[d].doing, outcome)
    BY <1>4 DEF Then
  <2> QED
    BY <1>1, <1>2, <1>4, <2>1 DEF DingTalkThen, Told, Awaiting
<1>5. CASE From(d) = "wecom"
  <2>1. next = WecomThen(task[d].doing, outcome)
    BY <1>5 DEF Then
  <2> QED
    BY <1>1, <1>2, <1>5, <2>1 DEF WecomThen, Told, Awaiting
<1> QED
  BY <1>3, <1>4, <1>5 DEF Platform

LEMMA ToldStep ==
  ASSUME TokenInv, ToldInv, NEW d \in Delivery, Step(d) PROVE ToldInv'
<1>1. Awaiting(task[d]) /\ mail' = mail /\ task[d] \in Tasks /\ Told(task[d], From(d))
  BY StepForms DEF TokenInv, ToldInv
<1>2. CASE TokenComes(d)
  <2>1. PICK issued \in Nat :
          task' = [task EXCEPT ![d].at = "post", ![d].since = clock, ![d].bearer = issued]
    BY <1>2 DEF TokenComes
  <2> DEFINE v == [task[d] EXCEPT !.at = "post", !.since = clock, !.bearer = issued]
  <2>2. /\ task' = [task EXCEPT ![d] = v] /\ task[d].at = "token" /\ v.at = "post"
        /\ v.doing = task[d].doing /\ v.failed = task[d].failed /\ v.refused = task[d].refused
    BY <1>2, <2>1 DEF TokenComes, TokenInv, Tasks
  <2> HIDE DEF v
  <2>3. Told(v, From(d)) /\ Forgiven(v, From(d))
    BY <1>1, <2>2 DEF Told, Forgiven
  <2> QED
    BY <1>1, <2>2, <2>3, ToldSet
<1>3. ASSUME NEW outcome, NEW w \in Tasks, Noted(task[d], outcome, w), Proceed(d, outcome, w)
      PROVE  ToldInv'
  <2>1. PICK next \in Then(d, outcome) :
          \/ next \in {"return", "raise"} /\ task' = [task EXCEPT ![d] = Over(w)]
          \/ next \notin {"return", "raise"} /\ task' = [task EXCEPT ![d] = Send(d, next, w)]
    BY <1>3, ProceedForms
  <2>2. From(d) \in Platform =>
          /\ next \in {"return", "raise"} =>
               \/ w.heard
               \/ w.failed + w.refused > 1
               \/ From(d) # "dingtalk" /\ w.refused # 0
          /\ next \notin {"return", "raise"} =>
               \/ next = "result" /\ w.failed = 0 /\ w.refused = 0
               \/ /\ next = "fallback" /\ From(d) = "dingtalk"
                  /\ w.refused = 1 /\ w.failed = 0
               \/ next = "apology" /\ w.failed > 0
    BY <1>1, <1>3, ToldProceeds
  <2>3. CASE next \in {"return", "raise"}
    <3>1. w.failed \in Nat /\ w.refused \in Nat
      BY <1>3 DEF Tasks
    <3>2. Told(Over(w), From(d)) /\ Forgiven(Over(w), From(d))
      BY <1>3, <2>2, <2>3, <3>1, SentAndOver DEF Told, Forgiven
    <3> QED
      BY <1>1, <2>1, <2>3, <3>2, ToldSet
  <2>4. CASE next \notin {"return", "raise"}
    <3>1. Told(Send(d, next, w), From(d)) /\ Forgiven(Send(d, next, w), From(d))
      BY <1>3, <2>2, <2>4, SentAndOver DEF Told, Forgiven
    <3> QED
      BY <1>1, <2>1, <2>4, <3>1, ToldSet
  <2> QED
    BY <2>3, <2>4
<1> QED
  BY <1>2, <1>3, StepForms DEF AwaitEnds

LEMMA ToldNext == TokenInv /\ AckInv /\ ToldInv /\ [Next]_vars => ToldInv'
<1> SUFFICES ASSUME ToldInv, UNCHANGED <<mail, task>> PROVE ToldInv'
  BY ToldCallback, ToldStep DEF Next, Tick, vars
<1> QED
  BY DEF ToldInv, Told, Forgiven, From, Reads

\* Whoever wrote on a personal channel has heard from the handler when it ends,
\* whichever one of its steps failed, and whatever the others do at the time.
THEOREM FailureIsForgiven == Spec => []OneFailureIsForgiven
<1>1. ToldInv => OneFailureIsForgiven
  BY DEF ToldInv, Forgiven, OneFailureIsForgiven
<1> QED
  BY TokenInit, TokenStep, AckInit, AckNext, ToldInit, ToldNext, <1>1, PTL DEF Spec
=============================================================================
