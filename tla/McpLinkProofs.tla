--------------------------- MODULE McpLinkProofs ---------------------------
(***************************************************************************)
(* Answers reach the calls that asked for them, for any number of          *)
(* overlapping connections, calls, deaths and late answers.                *)
(*                                                                         *)
(* The argument is about numbers.  A number is given once, to one call,    *)
(* and never again by a later connection, so the requests and answers in   *)
(* the pipes of a process carry the numbers of calls sent to that process, *)
(* and the entry under a number is that call or nobody.  That a number is  *)
(* given once needs that a call sends once; that there are enough of them  *)
(* is a matter of counting the calls that have one.                        *)
(***************************************************************************)
EXTENDS McpLink, FiniteSetTheorems, TLAPS

Places == {"idle", "spawn", "lock", "drain", "wait", "failed", "close", "done",
           "answered", "cancelled", "terminate", "cleanup", "closed"}

CallState == [pc : Places, id : Nat, to : Nat, result : {"none", "answered", "cancelled"},
              got : [id : Nat, from : Nat]]

Answers == [id : Ids, ok : BOOLEAN]

\* Calls that have a number, and connections that have tried to start a process.
Numbered == {c \in Calls : call[c].id # 0}
Tried    == {c \in Connects : call[c].pc \notin {"idle", "spawn"}}

Addressed(i, q) == \E c \in Calls : call[c].id = i /\ call[c].to = q

CallInv(c) ==
  /\ call[c].id <= lastId
  /\ call[c].pc \in {"idle", "spawn", "lock"} => call[c].id = 0
  /\ call[c].pc \in {"drain", "wait"} => call[c].id # 0
  /\ call[c].pc = "spawn" => c \in Connects
  /\ call[c].result # "none" => call[c].id # 0
  /\ call[c].result = "answered" => call[c].got = [id |-> call[c].id, from |-> call[c].to]
  /\ call[c].pc \in {"drain", "wait"} /\ call[c].result = "none" =>
       pending[call[c].id] = c

LinkTypes ==
  /\ started \in Nat /\ started <= Cardinality(Tried)
  /\ process \in 0 .. started
  /\ lastId \in Nat /\ lastId <= Cardinality(Numbered)
  /\ call \in [Calls -> CallState]
  /\ pending \in [Ids -> Calls \cup {NoCall}]
  /\ stdin \in [Processes -> SUBSET Ids]
  /\ stdout \in [Processes -> SUBSET Answers]
  /\ reader \in [Processes -> [state : {"none", "new", "reads", "ended"}, on : Nat]]
  /\ \A p \in Processes : reader[p].state = "reads" => reader[p].on \in Processes

NumbersInv ==
  /\ \A c \in Calls : CallInv(c)
  /\ \A c, d \in Calls : call[c].id = call[d].id /\ call[c].id # 0 => c = d
  /\ \A i \in Ids : pending[i] # NoCall => call[pending[i]].id = i
  /\ \A q \in Processes : \A i \in stdin[q] : Addressed(i, q)
  /\ \A q \in Processes : \A a \in stdout[q] : Addressed(a.id, q)

LinkInv == LinkTypes /\ NumbersInv

-----------------------------------------------------------------------------
LEMMA Counting ==
  /\ IsFiniteSet(Connects) /\ Cardinality(Connects) \in Nat
  /\ IsFiniteSet(Calls) /\ Cardinality(Calls) \in Nat
  /\ IsFiniteSet(Numbered) /\ Cardinality(Numbered) \in Nat
  /\ Cardinality(Numbered) <= Cardinality(Calls)
  /\ IsFiniteSet(Tried) /\ Cardinality(Tried) \in Nat
  /\ Cardinality(Tried) <= Cardinality(Connects)
<1>1. IsFiniteSet(Calls) /\ IsFiniteSet(Connects)
  BY LinkAssumption, FS_Subset DEF Calls
<1>2. Numbered \subseteq Calls /\ Tried \subseteq Connects
  BY DEF Numbered, Tried
<1> QED
  BY <1>1, <1>2, FS_Subset, FS_CardinalityType

\* The processes and numbers in use are among those there are.
LEMMA InRange ==
  ASSUME LinkTypes
  PROVE  /\ process # 0 => process \in Processes
         /\ \A i \in 1 .. lastId : i \in Ids
  BY Counting DEF LinkTypes, Processes, Ids

LEMMA NumberInRange ==
  ASSUME LinkInv, NEW c \in Calls
  PROVE  /\ call[c] \in CallState
         /\ call[c].id \in Nat /\ call[c].to \in Nat
         /\ call[c].id <= lastId /\ lastId \in Nat
         /\ call[c].id # 0 => call[c].id \in Ids
<1>1. call[c] \in CallState
  BY DEF LinkInv, LinkTypes
<1>2. call[c].id \in Nat /\ call[c].to \in Nat
  BY <1>1 DEF CallState
<1>3. call[c].id <= lastId /\ lastId \in Nat
  BY DEF LinkInv, NumbersInv, CallInv, LinkTypes
<1>4. \A i \in 1 .. lastId : i \in Ids
  BY InRange DEF LinkInv
<1> QED
  BY <1>1, <1>2, <1>3, <1>4

LEMMA LinkInit == Init => LinkInv
<1> SUFFICES ASSUME Init PROVE LinkInv
  OBVIOUS
<1>1. call \in [Calls -> CallState]
  BY DEF Init, CallState, Places
<1>2. /\ pending \in [Ids -> Calls \cup {NoCall}]
      /\ stdin \in [Processes -> SUBSET Ids]
      /\ stdout \in [Processes -> SUBSET Answers]
  BY DEF Init
<1>3. reader \in [Processes -> [state : {"none", "new", "reads", "ended"}, on : Nat]]
      /\ \A p \in Processes : reader[p].state = "none"
  BY DEF Init, Reader
<1>4. LinkTypes
  BY <1>1, <1>2, <1>3, Counting DEF Init, LinkTypes
<1>5. \A c \in Calls : call[c].pc = "idle" /\ call[c].id = 0 /\ call[c].result = "none"
  BY DEF Init
<1>6. NumbersInv
  BY <1>5, <1>2 DEF Init, NumbersInv, CallInv
<1> QED
  BY <1>4, <1>6 DEF LinkInv

-----------------------------------------------------------------------------
\* The state of a connection, apart from the numbers.
LEMMA ReaderTurns ==
  ASSUME LinkTypes, NEW p \in Processes, Turn(p)
  PROVE  /\ reader' \in [Processes -> [state : {"none", "new", "reads", "ended"}, on : Nat]]
         /\ \A q \in Processes : reader'[q].state = "reads" => reader'[q].on \in Processes
<1>1. process = 0 \/ process \in Processes
  BY InRange
<1>2. process \in Nat
  BY DEF LinkTypes
<1> QED
  BY <1>1, <1>2 DEF Turn, Reader, LinkTypes

\* A call moves on without a number given, taken or resolved; pipes may be lost.
LEMMA CallMoves ==
  ASSUME LinkInv, NEW c \in Calls, NEW pc \in Places,
         Goes(c, pc),
         pc \in {"idle", "spawn", "lock"} => call[c].id = 0,
         pc \in {"drain", "wait"} => call[c].pc \in {"drain", "wait"},
         pc \in {"idle", "spawn"} => call[c].pc \in {"idle", "spawn"} /\ c \in Connects,
         UNCHANGED <<started, lastId, pending, stdout>>,
         process' \in {process, 0},
         stdin' \in [Processes -> SUBSET Ids],
         \A q \in Processes : stdin'[q] \subseteq stdin[q],
         reader' \in [Processes -> [state : {"none", "new", "reads", "ended"}, on : Nat]],
         \A p \in Processes : reader'[p].state = "reads" => reader'[p].on \in Processes
  PROVE  LinkInv'
<1> USE DEF LinkInv
<1>1. call' \in [Calls -> CallState]
  BY DEF Goes, LinkTypes, CallState
<1>2. \A d \in Calls : /\ call'[d].id = call[d].id /\ call'[d].to = call[d].to
                       /\ call'[d].result = call[d].result /\ call'[d].got = call[d].got
                       /\ call'[d].pc = IF d = c THEN pc ELSE call[d].pc
  BY DEF Goes, LinkTypes, CallState
<1>3. Numbered' = Numbered
  BY <1>2 DEF Numbered
<1>4. Tried \subseteq Tried'
  BY <1>2 DEF Tried, Calls
<1>5. IsFiniteSet(Tried') /\ Cardinality(Tried') \in Nat
  <2>1. Tried' \subseteq Connects
    BY DEF Tried
  <2> QED
    BY <2>1, Counting, FS_Subset, FS_CardinalityType
<1>6. Cardinality(Tried) <= Cardinality(Tried')
  BY <1>4, <1>5, FS_Subset
<1>7. LinkTypes'
  BY <1>1, <1>3, <1>5, <1>6, Counting DEF LinkTypes
<1>8. \A d \in Calls : CallInv(d)'
  BY <1>2 DEF NumbersInv, CallInv
<1>9. \A i, q : Addressed(i, q) => Addressed(i, q)'
  BY <1>2 DEF Addressed
<1>10. \A i \in Ids : pending'[i] # NoCall => call'[pending'[i]].id = i
  BY <1>2 DEF NumbersInv, LinkTypes
<1> QED
  BY <1>2, <1>7, <1>8, <1>9, <1>10 DEF NumbersInv

\* The connection or its pipes change, and no call.
LEMMA LinkMoves ==
  ASSUME LinkInv,
         UNCHANGED <<started, process, lastId, pending, stdout, call>>,
         stdin' \in [Processes -> SUBSET Ids],
         \A q \in Processes : stdin'[q] \subseteq stdin[q],
         reader' \in [Processes -> [state : {"none", "new", "reads", "ended"}, on : Nat]],
         \A p \in Processes : reader'[p].state = "reads" => reader'[p].on \in Processes
  PROVE  LinkInv'
<1>1. Numbered' = Numbered /\ Tried' = Tried
  BY DEF Numbered, Tried
<1>2. LinkTypes'
  BY <1>1 DEF LinkInv, LinkTypes
<1>3. NumbersInv'
  BY DEF LinkInv, NumbersInv, CallInv, Addressed
<1> QED
  BY <1>2, <1>3 DEF LinkInv

\* The process a call goes to when it ends loses what was written to it.
LEMMA ExitShrinks ==
  ASSUME LinkTypes, NEW p \in Nat, Exits(p)
  PROVE  /\ stdin' \in [Processes -> SUBSET Ids]
         /\ \A q \in Processes : stdin'[q] \subseteq stdin[q]
  BY DEF Exits, LinkTypes

LEMMA SpawnedKeeps == ASSUME LinkInv, NEW c \in Calls, Spawned(c) PROVE LinkInv'
<1> USE DEF LinkInv
<1>1. call[c].pc = "spawn" /\ Goes(c, "lock") /\ UNCHANGED <<lastId, pending, stdin, stdout>>
  BY DEF Spawned
<1>2. call' \in [Calls -> CallState]
  BY <1>1 DEF Goes, LinkTypes, CallState, Places
<1>3. \A d \in Calls : /\ call'[d].id = call[d].id /\ call'[d].to = call[d].to
                       /\ call'[d].result = call[d].result /\ call'[d].got = call[d].got
                       /\ call'[d].pc = IF d = c THEN "lock" ELSE call[d].pc
  BY <1>1 DEF Goes, LinkTypes, CallState
<1>4. Numbered' = Numbered
  BY <1>3 DEF Numbered
<1>5. Cardinality(Tried') = Cardinality(Tried) + 1
  <2>1. c \in Connects
    BY <1>1 DEF NumbersInv, CallInv
  <2>2. Tried' = Tried \cup {c} /\ c \notin Tried
    BY <1>1, <1>3, <2>1 DEF Tried, Calls
  <2> QED
    BY <2>2, Counting, FS_AddElement
<1>6. /\ started' = started + 1 /\ process' = started'
      /\ reader' = [reader EXCEPT ![started'] = Reader("new", 0)]
  BY DEF Spawned
<1>7. LinkTypes'
  <2>1. started' \in Nat /\ started' <= Cardinality(Tried')
    BY <1>5, <1>6, Counting DEF LinkTypes
  <2>2. process' \in 0 .. started'
    BY <1>6, <2>1
  <2>3. /\ Reader("new", 0) \in [state : {"none", "new", "reads", "ended"}, on : Nat]
        /\ Reader("new", 0).state = "new"
    BY DEF Reader
  <2>4. /\ reader' \in [Processes -> [state : {"none", "new", "reads", "ended"}, on : Nat]]
        /\ \A p \in Processes : reader'[p] = reader[p] \/ reader'[p] = Reader("new", 0)
    BY <1>6, <2>3 DEF LinkTypes
  <2>5. \A p \in Processes : reader'[p].state = "reads" => reader'[p].on \in Processes
    BY <2>3, <2>4 DEF LinkTypes
  <2>6. /\ lastId' \in Nat /\ lastId' <= Cardinality(Numbered')
        /\ pending' \in [Ids -> Calls \cup {NoCall}]
        /\ stdin' \in [Processes -> SUBSET Ids] /\ stdout' \in [Processes -> SUBSET Answers]
    BY <1>1, <1>4 DEF LinkTypes
  <2> QED
    BY <1>2, <2>1, <2>2, <2>4, <2>5, <2>6 DEF LinkTypes
<1>8. \A d \in Calls : CallInv(d)'
  BY <1>1, <1>3 DEF NumbersInv, CallInv
<1>9. \A i, q : Addressed(i, q) => Addressed(i, q)'
  BY <1>3 DEF Addressed
<1>10. \A i \in Ids : pending'[i] # NoCall => call'[pending'[i]].id = i
  BY <1>1, <1>3 DEF NumbersInv, LinkTypes
<1> QED
  BY <1>1, <1>3, <1>7, <1>8, <1>9, <1>10 DEF NumbersInv

LEMMA SendKeeps == ASSUME LinkInv, NEW c \in Calls, Send(c) PROVE LinkInv'
<1> USE DEF LinkInv
<1> DEFINE pc == IF process = 0 THEN AfterFailure(c) ELSE "drain"
<1>1. /\ call[c].pc = "lock" /\ lastId' = lastId + 1
      /\ pending' = [pending EXCEPT ![lastId'] = c]
      /\ call' = [call EXCEPT ![c].id = lastId', ![c].to = process, ![c].pc = pc]
      /\ UNCHANGED <<started, process, reader, stdout>>
      /\ stdin' = stdin \/ stdin' = [stdin EXCEPT ![process] = @ \cup {lastId'}]
  BY DEF Send
<1>2. pc \in {"close", "failed", "drain"} /\ (pc = "drain" => process # 0)
  BY DEF AfterFailure
<1> HIDE DEF pc
<1>3. call[c].id = 0 /\ call[c].result = "none" /\ lastId \in Nat /\ process \in Nat
  <2>1. CallInv(c)
    BY DEF NumbersInv
  <2>2. call[c].id = 0 /\ call[c].result = "none"
    BY <1>1, <2>1 DEF CallInv
  <2>3. lastId \in Nat /\ started \in Nat /\ process \in 0 .. started
    BY DEF LinkTypes
  <2> QED
    BY <2>2, <2>3
<1>4. call' \in [Calls -> CallState]
  BY <1>1, <1>2, <1>3 DEF LinkTypes, CallState, Places
<1>5. /\ call'[c].id = lastId' /\ call'[c].to = process /\ call'[c].pc = pc
      /\ call'[c].result = "none"
      /\ \A d \in Calls \ {c} : call'[d] = call[d]
  BY <1>1, <1>3 DEF LinkTypes, CallState
<1>6. Cardinality(Numbered') = Cardinality(Numbered) + 1
  <2>1. call'[c].id # 0
    BY <1>1, <1>3, <1>5
  <2>2. Numbered' = Numbered \cup {c} /\ c \notin Numbered
    BY <1>3, <1>5, <2>1 DEF Numbered
  <2> QED
    BY <2>2, Counting, FS_AddElement
<1>7. Tried' = Tried
  BY <1>1, <1>2, <1>5 DEF Tried, Calls
<1>8. lastId' \in Ids
  <2>1. Numbered' \subseteq Calls
    BY DEF Numbered
  <2>2. Cardinality(Numbered') <= Cardinality(Calls)
    BY <2>1, Counting, FS_Subset
  <2> QED
    BY <1>1, <1>3, <1>6, <2>2, Counting DEF Ids, LinkTypes
<1>9. LinkTypes'
  <2>1. stdin' \in [Processes -> SUBSET Ids]
    BY <1>1, <1>8 DEF LinkTypes
  <2>2. pending' \in [Ids -> Calls \cup {NoCall}]
    BY <1>1 DEF LinkTypes
  <2> QED
    BY <1>1, <1>3, <1>4, <1>6, <1>7, <2>1, <2>2, Counting DEF LinkTypes
<1>10. CallInv(c)'
  BY <1>1, <1>2, <1>3, <1>5, <1>8 DEF CallInv, LinkTypes
<1>11. ASSUME NEW d \in Calls \ {c} PROVE CallInv(d)'
  BY <1>1, <1>3, <1>5 DEF CallInv, NumbersInv, LinkTypes, CallState
<1>12. ASSUME NEW d \in Calls, NEW e \in Calls, call'[d].id = call'[e].id, call'[d].id # 0
       PROVE  d = e
  <2>1. \A f \in Calls \ {c} : call'[f].id = call[f].id /\ call[f].id # lastId'
    <3> SUFFICES ASSUME NEW f \in Calls \ {c}
                 PROVE  call'[f].id = call[f].id /\ call[f].id # lastId'
      OBVIOUS
    <3>1. call[f].id <= lastId /\ call[f].id \in Nat
      BY NumberInRange
    <3>2. lastId' = lastId + 1 /\ lastId \in Nat
      BY <1>1, <1>3
    <3>3. call'[f] = call[f]
      BY <1>5
    <3> QED
      BY <3>1, <3>2, <3>3
  <2>2. CASE d = c \/ e = c
    BY <1>5, <1>12, <2>1, <2>2
  <2>3. CASE d # c /\ e # c
    BY <1>12, <2>1, <2>3 DEF NumbersInv
  <2> QED
    BY <2>2, <2>3
<1>13. ASSUME NEW i \in Ids, pending'[i] # NoCall PROVE call'[pending'[i]].id = i
  BY <1>1, <1>3, <1>5, <1>13, LinkAssumption DEF NumbersInv, LinkTypes, Ids
<1>14. \A i \in Ids : \A q : Addressed(i, q) => Addressed(i, q)'
  BY <1>3, <1>5 DEF Addressed, Ids
<1>15. ASSUME NEW q \in Processes, NEW i \in stdin'[q] PROVE Addressed(i, q)'
  <2>1. CASE i \in stdin[q]
    BY <1>14, <2>1 DEF NumbersInv, LinkTypes
  <2>2. CASE i \notin stdin[q]
    <3>1. i = lastId' /\ q = process
      BY <1>1, <1>15, <2>2 DEF LinkTypes
    <3> QED
      BY <1>5, <3>1 DEF Addressed
  <2> QED
    BY <2>1, <2>2
<1>16. ASSUME NEW q \in Processes, NEW a \in stdout'[q] PROVE Addressed(a.id, q)'
  BY <1>1, <1>14, <1>16 DEF NumbersInv, LinkTypes, Answers
<1> QED
  BY <1>9, <1>10, <1>11, <1>12, <1>13, <1>15, <1>16 DEF NumbersInv

\* Entries are taken out of the table, each for a call that is told or has left,
\* and calls are told no more than that they were cancelled.
LEMMA EntriesTaken ==
  ASSUME LinkInv, NEW c \in Calls,
         UNCHANGED <<started, lastId, stdin, stdout, reader>>, process' \in {process, 0},
         pending' \in [Ids -> Calls \cup {NoCall}],
         \A i \in Ids : pending'[i] \in {pending[i], NoCall},
         call' \in [Calls -> CallState],
         \A d \in Calls :
           /\ call'[d].id = call[d].id /\ call'[d].to = call[d].to
           /\ call'[d].got = call[d].got
           /\ \/ call'[d].result = call[d].result
              \/ call'[d].result = "cancelled" /\ call[d].id # 0,
         \A d \in Calls \ {c} :
           /\ call'[d].pc = call[d].pc
           /\ \A i \in Ids : pending[i] = d /\ call'[d].result = "none" => pending'[i] = d,
         call'[c].pc \in {"failed", "close", "closed"},
         call[c].pc \in {"wait", "terminate", "cleanup"}
  PROVE  LinkInv'
<1> USE DEF LinkInv
<1>1. Numbered' = Numbered
  BY DEF Numbered
<1>2. Tried' = Tried
  BY DEF Tried, Calls
<1>3. LinkTypes'
  BY <1>1, <1>2, Counting DEF LinkTypes
<1>4. ASSUME NEW d \in Calls PROVE CallInv(d)'
  <2>1. CASE d = c
    BY <2>1 DEF NumbersInv, CallInv
  <2>2. CASE d # c
    <3>1. call[d].id # 0 => call[d].id \in Ids
      BY NumberInRange
    <3> QED
      BY <2>2, <3>1 DEF NumbersInv, CallInv
  <2> QED
    BY <2>1, <2>2
<1>5. \A i, q : Addressed(i, q) => Addressed(i, q)'
  BY DEF Addressed
<1>6. \A i \in Ids : pending'[i] # NoCall => call'[pending'[i]].id = i
  BY DEF NumbersInv, LinkTypes
<1> QED
  BY <1>3, <1>4, <1>5, <1>6 DEF NumbersInv

LEMMA CancelKeeps ==
  ASSUME LinkInv, NEW c \in Calls, call[c].pc \in {"terminate", "cleanup"}, CancelAll(c),
         UNCHANGED <<started, lastId, stdin, stdout, reader>>, process' \in {process, 0}
  PROVE  LinkInv'
<1>1. pending' \in [Ids -> Calls \cup {NoCall}] /\ \A i \in Ids : pending'[i] = NoCall
  BY DEF CancelAll
<1>2. ASSUME NEW d \in Calls
      PROVE  /\ call'[d] \in CallState
             /\ call'[d].id = call[d].id /\ call'[d].to = call[d].to
             /\ call'[d].got = call[d].got
             /\ \/ call'[d].result = call[d].result
                \/ call'[d].result = "cancelled" /\ call[d].id # 0
             /\ d = c => call'[d].pc = "closed"
             /\ d # c => /\ call'[d].pc = call[d].pc
                         /\ call'[d].result = "none" => \A i \in Ids : pending[i] # d
  <2>1. call[d] \in CallState
    BY DEF LinkInv, LinkTypes
  <2>2. CASE d = c
    BY <2>1, <2>2 DEF CancelAll, CallState, Places
  <2>3. CASE d # c /\ call[d].result = "none" /\ \E i \in Ids : pending[i] = d
    <3>1. call'[d] = [call[d] EXCEPT !.result = "cancelled"]
      BY <2>3 DEF CancelAll
    <3>2. call[d].id # 0
      BY <2>3, LinkAssumption DEF LinkInv, NumbersInv, LinkTypes, Ids
    <3> QED
      BY <2>1, <2>3, <3>1, <3>2 DEF CallState
  <2>4. CASE d # c /\ ~(call[d].result = "none" /\ \E i \in Ids : pending[i] = d)
    BY <2>1, <2>4 DEF CancelAll
  <2> QED
    BY <2>2, <2>3, <2>4
<1>3. call' \in [Calls -> CallState]
  BY <1>2 DEF CancelAll
<1> QED
  BY <1>1, <1>2, <1>3, EntriesTaken

LEMMA TimeoutKeeps == ASSUME LinkInv, NEW c \in Calls, TimesOut(c) PROVE LinkInv'
<1>1. /\ call[c].pc = "wait" /\ call[c].id \in Nat /\ call[c].id # 0
      /\ pending' = [pending EXCEPT ![call[c].id] = NoCall]
      /\ Goes(c, AfterFailure(c)) /\ AfterFailure(c) \in {"close", "failed"}
  BY DEF TimesOut, AfterFailure, LinkInv, LinkTypes, CallState, NumbersInv, CallInv
<1>2. /\ call' \in [Calls -> CallState]
      /\ \A d \in Calls : /\ call'[d].id = call[d].id /\ call'[d].to = call[d].to
                          /\ call'[d].result = call[d].result /\ call'[d].got = call[d].got
                          /\ call'[d].pc = IF d = c THEN AfterFailure(c) ELSE call[d].pc
  BY <1>1 DEF Goes, LinkInv, LinkTypes, CallState, Places
<1>3. /\ pending' \in [Ids -> Calls \cup {NoCall}]
      /\ \A i \in Ids : pending'[i] = IF i = call[c].id THEN NoCall ELSE pending[i]
  BY <1>1 DEF LinkInv, LinkTypes
<1>4. ASSUME NEW d \in Calls \ {c}, NEW i \in Ids, pending[i] = d PROVE i # call[c].id
  BY <1>1, <1>4, LinkAssumption DEF LinkInv, NumbersInv
<1> QED
  BY <1>1, <1>2, <1>3, <1>4, EntriesTaken DEF TimesOut

LEMMA ReadKeeps == ASSUME LinkInv, NEW p \in Processes, Read(p) PROVE LinkInv'
<1> USE DEF LinkInv
<1> DEFINE q == reader[p].on
<1>1. q \in Processes
  BY DEF Read, LinkTypes
<1>2. PICK a \in stdout[q] :
        /\ stdout' = [stdout EXCEPT ![q] = @ \ {a}]
        /\ pending' = [pending EXCEPT ![a.id] = NoCall]
        /\ call' = IF pending[a.id] = NoCall
                     THEN call
                     ELSE [call EXCEPT ![pending[a.id]].result = "answered",
                                       ![pending[a.id]].got = [id |-> a.id, from |-> q]]
  BY DEF Read
<1> HIDE DEF q
<1>3. Turn(p) /\ UNCHANGED <<started, process, lastId, stdin>>
  BY DEF Read
<1>4. a.id \in Ids /\ Addressed(a.id, q) /\ a.id # 0 /\ q \in Nat
  BY <1>1, <1>2 DEF LinkTypes, NumbersInv, Answers, Ids, Processes
<1> DEFINE w == pending[a.id]
<1>5. w # NoCall => w \in Calls /\ call[w].id = a.id /\ call[w].to = q
  BY <1>4 DEF NumbersInv, LinkTypes, Addressed
<1>6. ASSUME NEW d \in Calls
      PROVE  /\ call'[d] \in CallState
             /\ call'[d].id = call[d].id /\ call'[d].to = call[d].to /\ call'[d].pc = call[d].pc
             /\ d # w => call'[d] = call[d]
             /\ d = w /\ w # NoCall =>
                  /\ call'[d].result = "answered"
                  /\ call'[d].got = [id |-> a.id, from |-> q]
  <2>1. call[d] \in CallState
    BY DEF LinkTypes
  <2>2. CASE w = NoCall \/ d # w
    BY <1>2, <2>1, <2>2, LinkAssumption DEF LinkTypes
  <2>3. CASE w # NoCall /\ d = w
    <3>1. call'[d] = [call[d] EXCEPT !.result = "answered", !.got = [id |-> a.id, from |-> q]]
      BY <1>2, <2>3 DEF LinkTypes
    <3>2. [id |-> a.id, from |-> q] \in [id : Nat, from : Nat]
      BY <1>4 DEF Ids
    <3> QED
      BY <2>1, <2>3, <3>1, <3>2 DEF CallState
  <2> QED
    BY <2>2, <2>3
<1>7. call' \in [Calls -> CallState]
  BY <1>2, <1>6 DEF LinkTypes
<1>8. /\ pending' \in [Ids -> Calls \cup {NoCall}]
      /\ \A i \in Ids : pending'[i] = IF i = a.id THEN NoCall ELSE pending[i]
  BY <1>2 DEF LinkTypes
<1>9. /\ stdout' \in [Processes -> SUBSET Answers]
      /\ \A r \in Processes : stdout'[r] \subseteq stdout[r]
  BY <1>1, <1>2 DEF LinkTypes
<1>10. Numbered' = Numbered /\ Tried' = Tried
  BY <1>6 DEF Numbered, Tried, Calls
<1>11. LinkTypes'
  BY <1>3, <1>7, <1>8, <1>9, <1>10, ReaderTurns DEF LinkTypes
<1> HIDE DEF w
<1>12. ASSUME NEW d \in Calls PROVE CallInv(d)'
  <2>1. CallInv(d)
    BY DEF NumbersInv
  <2>2. CASE w # NoCall /\ d = w
    BY <1>3, <1>4, <1>5, <1>6, <2>1, <2>2 DEF CallInv
  <2>3. CASE w = NoCall \/ d # w
    <3>1. call'[d] = call[d]
      BY <1>6, <2>3, LinkAssumption
    <3>2. call[d].pc \in {"drain", "wait"} /\ call[d].result = "none" =>
            pending'[call[d].id] = d
      <4> SUFFICES ASSUME call[d].pc \in {"drain", "wait"}, call[d].result = "none"
                   PROVE  pending'[call[d].id] = d
        OBVIOUS
      <4>1. pending[call[d].id] = d /\ call[d].id # 0
        BY <2>1 DEF CallInv
      <4>2. call[d].id \in Ids
        BY <2>1, <4>1, InRange DEF CallInv, LinkTypes, CallState
      <4>3. call[d].id # a.id
        BY <2>3, <4>1, LinkAssumption DEF w
      <4> QED
        BY <1>8, <4>1, <4>2, <4>3
    <3> QED
      BY <1>3, <2>1, <3>1, <3>2 DEF CallInv
  <2> QED
    BY <2>2, <2>3
<1>13. \A i, r : Addressed(i, r) => Addressed(i, r)'
  BY <1>6 DEF Addressed
<1>14. \A i \in Ids : pending'[i] # NoCall => call'[pending'[i]].id = i
  BY <1>6, <1>8 DEF NumbersInv, LinkTypes
<1>15. \A d, e \in Calls : call'[d].id = call'[e].id /\ call'[d].id # 0 => d = e
  BY <1>6 DEF NumbersInv
<1> QED
  BY <1>3, <1>9, <1>11, <1>12, <1>13, <1>14, <1>15 DEF NumbersInv

LEMMA ServeKeeps == ASSUME LinkInv, NEW q \in Processes, Serve(q) PROVE LinkInv'
<1> USE DEF LinkInv
<1>1. PICK i \in stdin[q], ok \in BOOLEAN :
        /\ stdin' = [stdin EXCEPT ![q] = @ \ {i}]
        /\ stdout' = [stdout EXCEPT ![q] = @ \cup {[id |-> i, ok |-> ok]}]
  <2>1. ASSUME NEW x, NEW o \in Outcomes(x) PROVE o.ok \in BOOLEAN
    <3>1. CASE x.tool = "update_ticket"
      <4>1. PICK new \in Updated(x.ticket, x.field) :
              o = [table |-> new, ok |-> x.ticket \in table.on]
        BY <3>1, Zenon DEF Outcomes
      <4>2. o.ok = (x.ticket \in table.on)
        BY <4>1, Zenon
      <4> QED
        BY <4>2
    <3>2. CASE x.tool # "update_ticket"
      <4>1. CASE x.tool = "escalate_ticket"
        <5>1. Outcomes(x) = {[table |-> new, ok |-> TRUE] : new \in Updated(x.ticket, "status")}
          BY <4>1 DEF Outcomes
        <5>2. PICK new : o = [table |-> new, ok |-> TRUE]
          BY <5>1, Zenon
        <5>3. o.ok = TRUE
          BY <5>2, Zenon
        <5> QED
          BY <5>3
      <4>2. CASE x.tool = "create_ticket"
        <5>1. Outcomes(x) = {[table |-> new, ok |-> TRUE] :
                new \in {table} \cup {[table EXCEPT !.on = @ \cup {x.ticket}]}}
          BY <4>2 DEF Outcomes
        <5>2. PICK new : o = [table |-> new, ok |-> TRUE]
          BY <5>1, Zenon
        <5>3. o.ok = TRUE
          BY <5>2, Zenon
        <5> QED
          BY <5>3
      <4>3. CASE x.tool # "escalate_ticket" /\ x.tool # "create_ticket"
        <5>1. Outcomes(x) = {[table |-> table, ok |-> TRUE]}
          BY <3>2, <4>3 DEF Outcomes
        <5>2. PICK new : o = [table |-> new, ok |-> TRUE]
          BY <5>1, Zenon
        <5>3. o.ok = TRUE
          BY <5>2, Zenon
        <5> QED
          BY <5>3
      <4> QED
        BY <4>1, <4>2, <4>3
    <3> QED
      BY <3>1, <3>2
  <2> QED
    BY <2>1 DEF Serve
<1>2. UNCHANGED <<link, call>>
  BY DEF Serve
<1>3. i \in Ids /\ [id |-> i, ok |-> ok] \in Answers
  BY <1>1 DEF LinkTypes, Answers
<1>4. /\ stdin' \in [Processes -> SUBSET Ids]
      /\ stdout' \in [Processes -> SUBSET Answers]
  BY <1>1, <1>3 DEF LinkTypes
<1>5. Numbered' = Numbered /\ Tried' = Tried
  BY <1>2 DEF Numbered, Tried
<1>6. LinkTypes'
  BY <1>2, <1>4, <1>5 DEF link, LinkTypes
<1>7. \A r \in Processes : \A j \in stdin'[r] : j \in stdin[r]
  BY <1>1 DEF LinkTypes
<1>8. \A r \in Processes : \A a \in stdout'[r] :
        a \in stdout[r] \/ (r = q /\ a = [id |-> i, ok |-> ok])
  BY <1>1 DEF LinkTypes
<1>9. \A j, r : Addressed(j, r)' <=> Addressed(j, r)
  BY <1>2 DEF Addressed
<1>10. NumbersInv'
  BY <1>1, <1>2, <1>7, <1>8, <1>9 DEF link, NumbersInv, CallInv
<1> QED
  BY <1>6, <1>10

-----------------------------------------------------------------------------
\* A coroutine that waits for the lock has no number; one past it keeps its own.
LEMMA CoroutineKeeps == ASSUME LinkInv, NEW c \in Calls, Coroutine(c) PROVE LinkInv'
<1>1. CallInv(c)
  BY DEF LinkInv, NumbersInv
<1>2. /\ stdin \in [Processes -> SUBSET Ids]
      /\ reader \in [Processes -> [state : {"none", "new", "reads", "ended"}, on : Nat]]
      /\ \A p \in Processes : reader[p].state = "reads" => reader[p].on \in Processes
  BY DEF LinkInv, LinkTypes
<1>3. CASE Connect(c)
  BY <1>1, <1>2, <1>3, CallMoves DEF Connect, link, CallInv, Places
<1>4. CASE Spawned(c)
  BY <1>4, SpawnedKeeps
<1>5. CASE SpawnFails(c)
  BY <1>2, <1>5, CallMoves DEF SpawnFails, link, Places
<1>6. CASE CallTool(c)
  BY <1>1, <1>2, <1>6, CallMoves DEF CallTool, link, CallInv, Places
<1>7. CASE Send(c)
  BY <1>7, SendKeeps
<1>8. CASE Drained(c)
  BY <1>2, <1>8, CallMoves DEF Drained, Places
<1>9. CASE DrainFails(c)
  <2>1. AfterFailure(c) \in {"close", "failed"}
    BY DEF AfterFailure
  <2> QED
    BY <1>2, <1>9, <2>1, CallMoves DEF DrainFails, Places
<1>10. CASE Resumes(c)
  <2>1. call[c].result \in {"answered", "cancelled"}
    BY <1>10 DEF Resumes, LinkInv, LinkTypes, CallState
  <2> QED
    BY <1>2, <1>10, <2>1, CallMoves DEF Resumes, link, Places
<1>11. CASE TimesOut(c)
  BY <1>11, TimeoutKeeps
<1>12. CASE Close(c)
  <2>1. Reader("ended", 0) \in [state : {"none", "new", "reads", "ended"}, on : Nat]
        /\ Reader("ended", 0).state = "ended"
    BY DEF Reader
  <2>2. /\ reader' \in [Processes -> [state : {"none", "new", "reads", "ended"}, on : Nat]]
        /\ \A p \in Processes : reader'[p] = reader[p] \/ reader'[p] = Reader("ended", 0)
    BY <1>2, <1>12, <2>1 DEF Close
  <2>3. \A p \in Processes : reader'[p].state = "reads" => reader'[p].on \in Processes
    BY <1>2, <2>1, <2>2
  <2> QED
    BY <1>2, <1>12, <2>2, <2>3, CallMoves DEF Close, Places
<1>13. CASE Terminate(c)
  <2>1. process \in Nat
    BY DEF LinkInv, LinkTypes
  <2>2. /\ stdin' \in [Processes -> SUBSET Ids]
        /\ \A q \in Processes : stdin'[q] \subseteq stdin[q]
    BY <1>13, <2>1, ExitShrinks DEF Terminate, LinkInv
  <2> QED
    BY <1>2, <1>13, <2>2, CallMoves DEF Terminate, Places
<1>14. CASE NothingToTerminate(c)
  BY <1>14, CancelKeeps DEF NothingToTerminate
<1>15. CASE CleanUp(c)
  BY <1>15, CancelKeeps DEF CleanUp
<1> QED
  BY <1>3, <1>4, <1>5, <1>6, <1>7, <1>8, <1>9, <1>10, <1>11, <1>12, <1>13, <1>14, <1>15
     DEF Coroutine

LEMMA ReaderKeeps == ASSUME LinkInv, NEW p \in Processes, Reads(p) PROVE LinkInv'
<1>1. /\ stdin \in [Processes -> SUBSET Ids]
      /\ reader \in [Processes -> [state : {"none", "new", "reads", "ended"}, on : Nat]]
      /\ \A q \in Processes : reader[q].state = "reads" => reader[q].on \in Processes
  BY DEF LinkInv, LinkTypes
<1>2. CASE ReaderStarts(p)
  BY <1>1, <1>2, ReaderTurns, LinkMoves DEF ReaderStarts, LinkInv
<1>3. CASE Read(p)
  BY <1>3, ReadKeeps
<1>4. CASE Eof(p)
  <2>1. Reader("ended", 0) \in [state : {"none", "new", "reads", "ended"}, on : Nat]
        /\ Reader("ended", 0).state = "ended"
    BY DEF Reader
  <2>2. /\ reader' \in [Processes -> [state : {"none", "new", "reads", "ended"}, on : Nat]]
        /\ \A q \in Processes : reader'[q] = reader[q] \/ reader'[q] = Reader("ended", 0)
    BY <1>1, <1>4, <2>1 DEF Eof
  <2>3. \A q \in Processes : reader'[q].state = "reads" => reader'[q].on \in Processes
    BY <1>1, <2>1, <2>2
  <2> QED
    BY <1>1, <1>4, <2>2, <2>3, LinkMoves DEF Eof
<1> QED
  BY <1>2, <1>3, <1>4 DEF Reads

LEMMA DeathKeeps == ASSUME LinkInv, NEW q \in Processes, Dies(q) PROVE LinkInv'
<1>1. q \in Nat
  BY DEF Processes
<1>2. /\ stdin' \in [Processes -> SUBSET Ids]
      /\ \A r \in Processes : stdin'[r] \subseteq stdin[r]
  BY <1>1, ExitShrinks DEF Dies, LinkInv
<1>3. /\ reader' \in [Processes -> [state : {"none", "new", "reads", "ended"}, on : Nat]]
      /\ \A r \in Processes : reader'[r].state = "reads" => reader'[r].on \in Processes
  BY DEF Dies, LinkInv, LinkTypes
<1> QED
  BY <1>2, <1>3, LinkMoves DEF Dies

LEMMA LinkStep == LinkInv /\ [Next]_vars => LinkInv'
<1> SUFFICES ASSUME LinkInv, [Next]_vars PROVE LinkInv'
  OBVIOUS
<1>1. CASE \E c \in Calls : Coroutine(c)
  BY <1>1, CoroutineKeeps
<1>2. CASE \E p \in Processes : Reads(p) \/ Serve(p) \/ Dies(p)
  BY <1>2, ReaderKeeps, ServeKeeps, DeathKeeps
<1>3. CASE UNCHANGED vars
  BY <1>3 DEF vars, link, LinkInv, LinkTypes, NumbersInv, CallInv, Addressed, Numbered, Tried
<1> QED
  BY <1>1, <1>2, <1>3 DEF Next

LEMMA LinkInvariant == Spec => []LinkInv
BY LinkInit, LinkStep, PTL DEF Spec

\* MCPClient._read_loop: however connections overlap, processes die and answers come
\* late, a call is answered with the answer to its own request, from the process the
\* request was written to (OwnAnswer), for any number of connections and calls.
THEOREM AnswersAreOwn == Spec => []OwnAnswer
<1>1. LinkInv => OwnAnswer
  BY DEF LinkInv, NumbersInv, CallInv, OwnAnswer
<1> QED
  BY <1>1, LinkInvariant, PTL

\* MCPClient._send_request: a call that waits is entered under its number until it is
\* answered, cancelled or gives up (NoWaiterForgotten), whoever closes the client.
THEOREM WaitersAreEntered == Spec => []NoWaiterForgotten
<1>1. LinkInv => NoWaiterForgotten
  BY DEF LinkInv, NumbersInv, CallInv, NoWaiterForgotten
<1> QED
  BY <1>1, LinkInvariant, PTL
=============================================================================
