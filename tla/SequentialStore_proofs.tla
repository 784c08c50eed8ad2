------------------------ MODULE SequentialStore_proofs ------------------------
(*****************************************************************************)
(* Proofs about SessionStore when requests come one at a time: one worker    *)
(* thread, and any sessions, names, kinds of answer and inactivity limit.    *)
(*****************************************************************************)
EXTENDS SessionStore_proofs

\* A session nobody works on: its client is open, waits for the challenge the state
\* announces and for no other, and keeps the order the session has.  A session whose
\* resumed handler raised what nobody catches waits for nothing.
Good(s, c) ==
  /\ s.state \in AwaitingStates \cup {"running", "resuming"}
  /\ c.open
  /\ IF s.state = "resuming" THEN ~ c.tan /\ ~ c.vop ELSE c.tan <=> ~ c.vop
  /\ s.state = "awaiting_vop" => c.vop
  /\ s.state \in {"awaiting_tan", "awaiting_decoupled"} => c.tan
  /\ c.order = s.name

\* A client between challenges, with an order or without.
Free(c, order) == c.open /\ ~ c.tan /\ ~ c.vop /\ c.order = order

\* The request of thread t is changing its session.
Busy(t) == pc[t] \in {"bank", "mark", "resume", "pop"}

\* What no request works on: sessions can be continued, and reads have no order; the clients
\* of sessions that have gone are closed, or about to be; the others are not made yet.
At(t, i) ==
  /\ Live(i) /\ ~ (Busy(t) /\ local[t].id = i) => Good(sessions[i], client[i])
  /\ Live(i) /\ sessions[i].op # "transfer" => sessions[i].name = NoName
  /\ i \in born /\ ~ Live(i) /\ closing[t] # i => ~ client[i].open
  /\ i \notin made => client[i] = ClosedClient

\* The request that opens a session.
OpenInv(t) ==
  local[t].kind = "open" =>
    /\ local[t].op # "transfer" => local[t].name = NoName
    /\ pc[t] = "bank" => Free(client[local[t].id], local[t].name)
    /\ pc[t] = "mark" =>
         Good([op |-> local[t].op, state |-> plan[t].state, name |-> local[t].name, idle |-> 0],
              client[local[t].id])

\* The request that works on a session of the registry: its copies are those of the session,
\* and the client is as the call in progress needs it.
WorkInv(t) ==
  LET i == local[t].id
      s == sessions[i]
      c == client[i]
  IN local[t].kind # "open" =>
    /\ pc[t] = "loaded" \/ Busy(t) => Live(i)
    /\ pc[t] = "loaded" =>
         /\ local[t].op = s.op
         /\ local[t].kind = "retry" => s.op = "transfer"
         /\ local[t].kind = "confirm" =>
              /\ local[t].name = s.name
              /\ call[t].fn = IF c.vop THEN "approve" ELSE "confirm"
    /\ pc[t] \in {"bank", "resume"} => local[t].op = s.op /\ local[t].name = s.name
    /\ pc[t] = "bank" =>
         /\ call[t].sending = s.name
         /\ IF call[t].fn \in {"confirm", "approve"}
              THEN /\ c.open /\ (c.tan <=> ~ c.vop) /\ c.order = s.name
                   /\ c.vop <=> call[t].fn = "approve"
              ELSE Free(c, s.name) /\ ~ call[t].owned
         /\ call[t].fn = "handler" => s.state = "resuming" \/ s.op = "transfer"
    /\ pc[t] = "resume" => Free(c, NoName)
    /\ pc[t] = "mark" /\ plan[t].state \notin TerminalStates =>
         Good([s EXCEPT !.state = plan[t].state], c)

SeqInv(t) == (\A i \in Ids : At(t, i)) /\ OpenInv(t) /\ WorkInv(t)

-----------------------------------------------------------------------------
(* What answers make of a client.                                            *)

\* A challenge leaves the client waiting for it, and for it only.
LEMMA HandlerChallenge ==
  ASSUME NEW c \in Client, NEW n, Free(c, n), NEW op, NEW owned, NEW answer \in Challenges,
         NEW d \in AfterHandler(c, op, answer, owned)
  PROVE  d.open /\ (d.tan <=> ~ d.vop) /\ d.order = n /\ (d.vop <=> answer = "vop")
BY DEF Client, Free, AfterHandler, Challenges

\* A transfer that ends forgets its order, and the client stays open.
LEMMA HandlerEnd ==
  ASSUME NEW c \in Client, NEW n, Free(c, n),
         NEW d \in AfterHandler(c, "transfer", "ok", FALSE)
  PROVE  Free(d, NoName)
BY DEF Client, Free, AfterHandler

LEMMA SubmitChallenge ==
  ASSUME NEW c \in Client, NEW fn \in {"confirm", "approve"}, NEW answer \in Challenges,
         c.open, c.tan <=> ~ c.vop, c.vop <=> fn = "approve",
         NEW d \in AfterSubmit(c, fn, answer)
  PROVE  d.open /\ (d.tan <=> ~ d.vop) /\ d.order = c.order /\ (d.vop <=> answer = "vop")
<1>1. CASE answer \in {"tan", "decoupled"}
  <2>1. PICK v \in {FALSE} \cup (IF fn = "confirm" THEN {c.vop} ELSE {}) :
          d = [c EXCEPT !.tan = TRUE, !.vop = v]
    BY <1>1 DEF AfterSubmit
  <2>2. v = FALSE
    BY <2>1 DEF Client
  <2> QED BY <1>1, <2>1, <2>2 DEF Client
<1>2. CASE answer = "vop"
  BY <1>2 DEF AfterSubmit, Client
<1> QED BY <1>1, <1>2 DEF Challenges

\* A result leaves the client between challenges.
LEMMA SubmitResult ==
  ASSUME NEW c \in Client, NEW fn \in {"confirm", "approve"},
         NEW answer \in {"transfer_result", "other_result"},
         c.open, c.tan <=> ~ c.vop, c.vop <=> fn = "approve",
         NEW d \in AfterSubmit(c, fn, answer)
  PROVE  Free(d, IF answer = "other_result" THEN c.order ELSE NoName)
<1>1. CASE answer = "transfer_result"
  BY <1>1 DEF AfterSubmit, Client, Free
<1>2. CASE answer = "other_result"
  BY <1>2 DEF AfterSubmit, Client, Free
<1> QED BY <1>1, <1>2

\* The state a challenge leads to announces it.
LEMMA AwaitingGood ==
  ASSUME NEW answer \in Challenges, NEW d, d.open, d.tan <=> ~ d.vop, d.vop <=> answer = "vop",
         NEW s, s.state = AwaitingState(answer), d.order = s.name
  PROVE  Good(s, d) /\ s.state \notin TerminalStates
<1>1. CASE answer = "tan"
  BY <1>1 DEF Good, AwaitingState, AwaitingStates, TerminalStates
<1>2. CASE answer = "decoupled"
  BY <1>2 DEF Good, AwaitingState, AwaitingStates, TerminalStates
<1>3. CASE answer = "vop"
  BY <1>3 DEF Good, AwaitingState, AwaitingStates, TerminalStates
<1> QED BY <1>1, <1>2, <1>3 DEF Challenges

-----------------------------------------------------------------------------
(* The invariant, step by step.                                              *)

\* A step that neither changes sessions nor lets go of one.
LEMMA AtStays ==
  ASSUME NEW t \in Threads, \A i \in Ids : At(t, i), UNCHANGED <<shared, closing>>,
         Busy(t) => Busy(t)' /\ local'[t].id = local[t].id
  PROVE  \A i \in Ids : At(t, i)'
BY DEF At, Live, shared

LEMMA ArrivalSeq ==
  ASSUME IInv, NEW t \in Threads, SeqInv(t), Request(t) \/ Shutdown(t)
  PROVE  SeqInv(t)'
<1>1. /\ pc[t] = "idle" /\ pc'[t] \in {"scan", "prune"} /\ UNCHANGED <<shared, closing>>
      /\ \/ \E r \in Requests : local'[t] = r
         \/ local'[t] = [NoLocal EXCEPT !.kind = "shutdown"]
  BY DEF Request, Shutdown, Goto, IInv, TypeOK
<1>2. \A i \in Ids : At(t, i)'
  BY <1>1, AtStays DEF SeqInv, Busy
<1>3. OpenInv(t)' /\ WorkInv(t)'
  BY <1>1 DEF OpenInv, WorkInv, Busy, Requests, NoLocal
<1> QED BY <1>2, <1>3 DEF SeqInv

LEMMA ReplySeq ==
  ASSUME IInv, NEW t \in Threads, SeqInv(t), UNCHANGED <<shared, closing>>,
         ~ Busy(t), pc'[t] \in {"prune", "done", "idle"},
         local'[t] \in {local[t], NoLocal}
  PROVE  SeqInv(t)'
<1>1. \A i \in Ids : At(t, i)'
  BY AtStays DEF SeqInv
<1>2. OpenInv(t)' /\ WorkInv(t)'
  BY DEF SeqInv, OpenInv, WorkInv, Busy, NoLocal
<1> QED BY <1>1, <1>2 DEF SeqInv

LEMMA SimpleSeq ==
  ASSUME IInv, NEW t \in Threads, SeqInv(t),
         \/ ScanEnd(t) \/ OpenRefused(t) \/ GetSession(t) \/ Return(t)
         \/ \E kind \in {"confirm", "retry", "get", "cancel"} : NotFound(t, kind)
  PROVE  SeqInv(t)'
<1>1. UNCHANGED <<shared, closing>>
  BY DEF ScanEnd, OpenRefused, GetSession, Return, NotFound
<1>2. ~ Busy(t) /\ pc'[t] \in {"prune", "done", "idle"}
  BY DEF ScanEnd, OpenRefused, GetSession, Return, NotFound, Body, Busy, Reply, Goto, IInv, TypeOK
<1>3. local'[t] \in {local[t], NoLocal}
  BY DEF ScanEnd, OpenRefused, GetSession, Return, NotFound, IInv, TypeOK
<1> QED BY <1>1, <1>2, <1>3, ReplySeq

\* A session that is removed: its client is closed next.
LEMMA PopSeq ==
  ASSUME IInv, NEW t \in Threads, SeqInv(t), Drop(t) \/ Pop(t)
  PROVE  SeqInv(t)'
<1>1. PICK i \in Ids :
        /\ \/ Live(i) /\ sessions' = [sessions EXCEPT ![i] = Absent]
              /\ closing' = [closing EXCEPT ![t] = i]
           \/ ~ Live(i) /\ UNCHANGED <<sessions, closing>>
        /\ Busy(t) => local[t].id = i
  BY DEF Drop, Pop, PopSession, Busy, IInv, TypeOK, ThreadInv
<1>2. /\ UNCHANGED <<client, made, born, local>>
      /\ ~ Busy(t)' /\ pc'[t] \in {"prune", "done", "dropclose", "close"}
      /\ pc[t] \in {"prune", "pop"} /\ closing[t] = NoId
  BY DEF Drop, Pop, PopSession, Goto, Busy, IInv, TypeOK, ThreadInv
<1>3. ASSUME NEW j \in Ids, j # i
      PROVE  At(t, j)'
  BY <1>1, <1>2, <1>3, IdAssumption DEF SeqInv, At, Live, IInv, TypeOK
<1>4. At(t, i)'
  <2>1. ~ Live(i)'
    BY <1>1 DEF Live, IInv, TypeOK
  <2>2. Live(i) => closing'[t] = i
    BY <1>1 DEF IInv, TypeOK
  <2> QED BY <1>1, <1>2, <2>1, <2>2, IdAssumption DEF SeqInv, At
<1>5. OpenInv(t)' /\ WorkInv(t)'
  BY <1>2 DEF SeqInv, OpenInv, WorkInv, Busy
<1> QED BY <1>3, <1>4, <1>5 DEF SeqInv

LEMMA CloseSeq ==
  ASSUME IInv, NEW t \in Threads, SeqInv(t), CloseClient(t)
  PROVE  SeqInv(t)'
<1>1. /\ client' = [client EXCEPT ![closing[t]] = ClosedClient] /\ closing'[t] = NoId
      /\ ~ Busy(t) /\ ~ Busy(t)' /\ pc'[t] \in {"prune", "done"}
      /\ UNCHANGED <<sessions, made, born, local>>
      /\ closing[t] \in Ids /\ ~ Live(closing[t])
  BY DEF CloseClient, Goto, Busy, IInv, TypeOK, ThreadInv, OneCloser
<1>2. ASSUME NEW i \in Ids
      PROVE  At(t, i)'
  BY <1>1, IdAssumption DEF SeqInv, At, Live, IInv, TypeOK, ClosedClient
<1>3. OpenInv(t)' /\ WorkInv(t)'
  BY <1>1 DEF SeqInv, OpenInv, WorkInv, Busy
<1> QED BY <1>2, <1>3 DEF SeqInv

LEMMA CancelSeq ==
  ASSUME IInv, NEW t \in Threads, SeqInv(t), CancelSession(t)
  PROVE  SeqInv(t)'
<1>1. /\ pc[t] = "prune" /\ pc'[t] = "pop" /\ UNCHANGED <<shared, closing, local>>
      /\ Live(local[t].id) /\ local[t].kind = "cancel"
  BY DEF CancelSession, Body, Goto, IInv, TypeOK
<1>2. \A i \in Ids : At(t, i)'
  BY <1>1, AtStays DEF SeqInv, Busy
<1>3. OpenInv(t)' /\ WorkInv(t)'
  BY <1>1 DEF SeqInv, OpenInv, WorkInv, Busy, Live, shared
<1> QED BY <1>2, <1>3 DEF SeqInv

LEMMA TickSeq ==
  ASSUME IInv, NEW t \in Threads, SeqInv(t), Tick
  PROVE  SeqInv(t)'
<1>1. /\ UNCHANGED <<client, made, born, pc, local, closing, call, plan>>
      /\ \A i \in Ids : sessions'[i] \in {sessions[i], [sessions[i] EXCEPT !.idle = @ + 1]}
  BY DEF Tick
<1>2. \A i \in Ids : Live(i)' <=> Live(i)
  BY TickKeepsRegistry DEF KeepsRegistry, IInv
<1>3. ASSUME NEW i \in Ids, Live(i)
      PROVE  /\ sessions'[i].op = sessions[i].op /\ sessions'[i].state = sessions[i].state
             /\ sessions'[i].name = sessions[i].name
             /\ sessions[i] \in Session
  BY <1>1, <1>3 DEF Live, IInv, TypeOK, Session
<1>4. ASSUME NEW i \in Ids
      PROVE  At(t, i)'
  BY <1>1, <1>2, <1>3 DEF SeqInv, At, Good, Busy
<1>5. OpenInv(t)'
  BY <1>1 DEF SeqInv, OpenInv
<1>6. WorkInv(t)'
  BY <1>1, <1>2, <1>3 DEF SeqInv, WorkInv, Busy, Good, IInv, ThreadInv, Session
<1> QED BY <1>4, <1>5, <1>6 DEF SeqInv

\* A step that changes one session or client only.
LEMMA ElsewhereStays ==
  ASSUME NEW t \in Threads, NEW i, \A j \in Ids : At(t, j),
         \A j \in Ids \ {i} : /\ sessions'[j] = sessions[j] /\ client'[j] = client[j]
                              /\ j \in born' => j \in born
                              /\ j \in made => j \in made',
         closing' = closing, Busy(t) => local[t].id = i
  PROVE  \A j \in Ids \ {i} : At(t, j)'
BY DEF At, Live

LEMMA OpenCallSeq ==
  ASSUME IInv, NEW t \in Threads, SeqInv(t), OpenCall(t)
  PROVE  SeqInv(t)'
<1>1. PICK i \in Ids \ made :
        /\ made' = made \cup {i}
        /\ local' = [local EXCEPT ![t].id = i]
        /\ CallHandler(t, i, local[t].op, local[t].name, "handler", client[i])
  BY DEF OpenCall
<1>2. /\ pc[t] = "prune" /\ pc'[t] = "bank" /\ local[t].kind = "open"
      /\ UNCHANGED <<sessions, born, closing>>
      /\ client' = [client EXCEPT ![i] = Calling(client[i], local[t].op, local[t].name)]
  BY <1>1 DEF OpenCall, Body, CallHandler, Goto, IInv, TypeOK
<1>3. /\ local'[t].kind = "open" /\ local'[t].op = local[t].op /\ local'[t].name = local[t].name
      /\ local'[t].id = i
  BY <1>1, <1>2 DEF IInv, TypeOK, Local
<1>4. client[i] = ClosedClient /\ ~ Live(i) /\ i \notin born
  BY DEF SeqInv, At, IInv, FreshInv, LiveIds
<1>5. Free(client'[i], local[t].name)
  <2>1. client'[i] = Calling(ClosedClient, local[t].op, local[t].name)
    BY <1>2, <1>4 DEF IInv, TypeOK
  <2>2. local[t].op # "transfer" => local[t].name = NoName
    BY <1>2 DEF SeqInv, OpenInv
  <2> QED BY <2>1, <2>2 DEF Calling, ClosedClient, Free
<1>6. \A j \in Ids \ {i} : At(t, j)'
  <2>1. \A j \in Ids \ {i} : client'[j] = client[j]
    BY <1>2 DEF IInv, TypeOK
  <2> QED BY <1>1, <1>2, <2>1, ElsewhereStays DEF SeqInv, Busy
<1>7. At(t, i)'
  BY <1>1, <1>2, <1>4 DEF At, Live
<1>8. OpenInv(t)' /\ WorkInv(t)'
  BY <1>2, <1>3, <1>4, <1>5 DEF SeqInv, OpenInv, WorkInv
<1> QED BY <1>6, <1>7, <1>8 DEF SeqInv

LEMMA OpenAnswerSeq ==
  ASSUME IInv, NEW t \in Threads, SeqInv(t), OpenAnswer(t)
  PROVE  SeqInv(t)'
<1> DEFINE i == local[t].id
<1>1. /\ pc[t] = "bank" /\ local[t].kind = "open" /\ UNCHANGED <<sessions, born, made, closing, local>>
      /\ i \in made \ born /\ i \in Ids /\ ~ Live(i)
      /\ client[i] \in Client /\ Free(client[i], local[t].name)
  BY DEF OpenAnswer, IInv, TypeOK, FreshInv, Opening, LiveIds, SeqInv, OpenInv
<1>2. PICK answer \in HandlerAnswers(local[t].op) :
        /\ \E c \in AfterHandler(client[i], local[t].op, answer, call[t].owned) :
             client' = [client EXCEPT ![i] = c]
        /\ IF answer \in Challenges
             THEN Decide(t, AwaitingState(answer), 409, answer)
             ELSE Reply(t, IF answer = "ok" THEN 200 ELSE ErrorCode(answer))
  BY DEF OpenAnswer
<1>3. PICK c \in AfterHandler(client[i], local[t].op, answer, call[t].owned) :
        client' = [client EXCEPT ![i] = c]
  BY <1>2
<1>4. client'[i] = c /\ \A j \in Ids \ {i} : client'[j] = client[j]
  BY <1>1, <1>3 DEF IInv, TypeOK
<1>5. \A j \in Ids \ {i} : At(t, j)'
  BY <1>1, <1>4, ElsewhereStays DEF SeqInv
<1>6. At(t, i)'
  BY <1>1 DEF At, Live
<1>7. CASE answer \in Challenges
  <2>1. pc'[t] = "mark" /\ plan'[t].state = AwaitingState(answer)
    BY <1>2, <1>7 DEF Decide, Goto, IInv, TypeOK
  <2>2. c.open /\ (c.tan <=> ~ c.vop) /\ c.order = local[t].name /\ (c.vop <=> answer = "vop")
    BY <1>1, <1>7, HandlerChallenge
  <2>3. Good([op |-> local[t].op, state |-> plan'[t].state, name |-> local[t].name, idle |-> 0], c)
    BY <1>7, <2>1, <2>2, AwaitingGood
  <2>4. OpenInv(t)' /\ WorkInv(t)'
    BY <1>1, <1>4, <2>1, <2>3 DEF SeqInv, OpenInv, WorkInv
  <2> QED BY <1>1, <1>5, <1>6, <2>4 DEF SeqInv
<1>8. CASE answer \notin Challenges
  <2>1. pc'[t] = "done"
    BY <1>2, <1>8 DEF Reply, Goto, IInv, TypeOK
  <2>2. OpenInv(t)' /\ WorkInv(t)'
    BY <1>1, <2>1 DEF SeqInv, OpenInv, WorkInv
  <2> QED BY <1>1, <1>5, <1>6, <2>2 DEF SeqInv
<1> QED BY <1>7, <1>8

LEMMA RegisterSeq ==
  ASSUME IInv, NEW t \in Threads, SeqInv(t), Register(t)
  PROVE  SeqInv(t)'
<1> DEFINE i == local[t].id
           s == [op |-> local[t].op, state |-> plan[t].state, name |-> local[t].name, idle |-> 0]
<1>1. /\ pc[t] = "mark" /\ local[t].kind = "open" /\ pc'[t] = "done"
      /\ sessions' = [sessions EXCEPT ![i] = s] /\ born' = born \cup {i}
      /\ UNCHANGED <<client, made, closing, local>>
      /\ i \in Ids /\ i \in made
      /\ Good(s, client[i]) /\ (s.op # "transfer" => s.name = NoName)
  BY DEF Register, Goto, IInv, TypeOK, FreshInv, Opening, SeqInv, OpenInv
<1>2. s \in Session
  BY <1>1, TTLAssumption DEF Session, IInv, TypeOK, Local, Plan, ThreadInv
<1> HIDE DEF s
<1>3. sessions'[i] = s /\ \A j \in Ids \ {i} : sessions'[j] = sessions[j]
  BY <1>1 DEF IInv, TypeOK
<1>4. \A j \in Ids \ {i} : At(t, j)'
  BY <1>1, <1>3, ElsewhereStays DEF SeqInv
<1>5. At(t, i)'
  BY <1>1, <1>2, <1>3, AbsentAssumption DEF At, Live
<1>6. OpenInv(t)' /\ WorkInv(t)'
  BY <1>1 DEF SeqInv, OpenInv, WorkInv
<1> QED BY <1>1, <1>4, <1>5, <1>6 DEF SeqInv

LEMMA ConfirmLoadSeq ==
  ASSUME IInv, NEW t \in Threads, SeqInv(t), ConfirmLoad(t)
  PROVE  SeqInv(t)'
<1> DEFINE i == local[t].id
<1>1. /\ pc[t] = "prune" /\ pc'[t] = "loaded" /\ local[t].kind = "confirm" /\ Live(i) /\ i \in Ids
      /\ UNCHANGED <<shared, closing>>
      /\ call'[t].fn = IF sessions[i].state = "awaiting_vop" \/ client[i].vop
                         THEN "approve" ELSE "confirm"
  BY DEF ConfirmLoad, Body, Goto, IInv, TypeOK, Call, ThreadInv
<1>2. /\ local'[t].kind = "confirm" /\ local'[t].id = i
      /\ local'[t].op = sessions[i].op /\ local'[t].name = sessions[i].name
  BY <1>1 DEF ConfirmLoad, IInv, TypeOK, Local
<1>3. Good(sessions[i], client[i])
  BY <1>1 DEF SeqInv, At, Busy
<1>4. \A j \in Ids : At(t, j)'
  BY <1>1, <1>2, AtStays DEF SeqInv, Busy
<1>5. OpenInv(t)' /\ WorkInv(t)'
  BY <1>1, <1>2, <1>3 DEF OpenInv, WorkInv, Busy, Live, shared, Good
<1> QED BY <1>4, <1>5 DEF SeqInv

LEMMA RetryLoadSeq ==
  ASSUME IInv, NEW t \in Threads, SeqInv(t), RetryLoad(t)
  PROVE  SeqInv(t)'
<1> DEFINE i == local[t].id
<1>1. CASE sessions[i].op = "transfer" /\ sessions[i].state = "awaiting_vop"
  <2>1. /\ pc[t] = "prune" /\ pc'[t] = "loaded" /\ local[t].kind = "retry" /\ Live(i) /\ i \in Ids
        /\ UNCHANGED <<shared, closing>>
        /\ local' = [local EXCEPT ![t].op = "transfer"]
    BY <1>1 DEF RetryLoad, Body, Goto, IInv, TypeOK, ThreadInv
  <2>2. local'[t].kind = "retry" /\ local'[t].id = i /\ local'[t].op = "transfer"
    BY <2>1 DEF IInv, TypeOK, Local
  <2>3. \A j \in Ids : At(t, j)'
    BY <2>1, <2>2, AtStays DEF SeqInv, Busy
  <2>4. OpenInv(t)' /\ WorkInv(t)'
    BY <1>1, <2>1, <2>2 DEF OpenInv, WorkInv, Busy, Live, shared
  <2> QED BY <2>3, <2>4 DEF SeqInv
<1>2. CASE ~ (sessions[i].op = "transfer" /\ sessions[i].state = "awaiting_vop")
  BY <1>2, ReplySeq DEF RetryLoad, Body, Reply, Goto, Busy, IInv, TypeOK
<1> QED BY <1>1, <1>2

\* A step that writes the session and moves its request on.
LEMMA WrittenSeq ==
  ASSUME IInv, NEW t \in Threads, SeqInv(t), local[t].kind # "open", local[t].id \in Ids,
         Live(local[t].id), NEW s \in Session, NEW c,
         sessions' = [sessions EXCEPT ![local[t].id] = s],
         client' = [client EXCEPT ![local[t].id] = c],
         UNCHANGED <<made, born, closing, local>>,
         Busy(t)' \/ Good(s, c), s.op = sessions[local[t].id].op,
         s.name = sessions[local[t].id].name \/ s.op = "transfer"
  PROVE  /\ \A j \in Ids : At(t, j)'
         /\ OpenInv(t)'
         /\ Live(local[t].id)'
         /\ sessions'[local[t].id] = s /\ client'[local[t].id] = c
<1> DEFINE i == local[t].id
<1>1. /\ sessions'[i] = s /\ client'[i] = c
      /\ \A j \in Ids \ {i} : sessions'[j] = sessions[j] /\ client'[j] = client[j]
  BY DEF IInv, TypeOK
<1>2. Live(i)'
  BY <1>1, AbsentAssumption DEF Live
<1>3. \A j \in Ids \ {i} : At(t, j)'
  BY <1>1, ElsewhereStays DEF SeqInv
<1>4. i \in made
  BY DEF IInv, FreshInv, LiveIds
<1>5. At(t, i)'
  BY <1>1, <1>2, <1>4 DEF SeqInv, At
<1>6. OpenInv(t)'
  BY DEF OpenInv
<1> QED BY <1>1, <1>2, <1>3, <1>5, <1>6

\* Marking a session changes its state only.
LEMMA MarkedSession ==
  ASSUME TypeOK, NEW i \in Ids, Live(i), NEW state \in States
  PROVE  /\ Marked(sessions[i], state) \in Session
         /\ Marked(sessions[i], state).op = sessions[i].op
         /\ Marked(sessions[i], state).name = sessions[i].name
         /\ Marked(sessions[i], state).state = state
<1>1. sessions[i] \in Session
  BY LiveType
<1> QED BY <1>1, MarkedType DEF Marked, Session

LEMMA ConfirmCallSeq ==
  ASSUME IInv, NEW t \in Threads, SeqInv(t), ConfirmCall(t)
  PROVE  SeqInv(t)'
<1> DEFINE i == local[t].id
           s == Marked(sessions[i], "running")
           c == client[i]
<1>1. /\ pc[t] = "loaded" /\ local[t].kind = "confirm" /\ i \in Ids
      /\ UNCHANGED <<client, made, born, closing, local>>
      /\ IF call[t].fn = "approve" /\ ~ local[t].approve
           THEN Reply(t, 400) /\ call' = [call EXCEPT ![t] = NoCall]
           ELSE IF CanSubmit(client[i], call[t].fn)
             THEN /\ Goto(t, "bank")
                  /\ call' = [call EXCEPT ![t].sending = client[i].order]
                  /\ UNCHANGED plan
             ELSE Decide(t, "failed", 502, "error") /\ call' = [call EXCEPT ![t] = NoCall]
  BY DEF ConfirmCall, IInv, ThreadInv
<1>2. /\ Live(i) /\ local[t].op = sessions[i].op /\ local[t].name = sessions[i].name
      /\ call[t].fn = IF c.vop THEN "approve" ELSE "confirm"
      /\ Good(sessions[i], c)
  BY <1>1 DEF SeqInv, WorkInv, At, Busy
<1>3. /\ s \in Session /\ s.op = sessions[i].op /\ s.name = sessions[i].name /\ s.state = "running"
  BY <1>1, <1>2, MarkedSession DEF IInv, States
<1>4. sessions' = [sessions EXCEPT ![i] = s] /\ client' = [client EXCEPT ![i] = c]
  BY <1>1, <1>2 DEF ConfirmCall, Store, IInv, TypeOK
<1>5. Busy(t)' \/ Good(s, c)
  <2>1. CASE sessions[i].state = "resuming"
    <3>1. ~ c.vop /\ ~ c.tan /\ call[t].fn = "confirm"
      BY <1>2, <2>1 DEF Good
    <3>2. pc'[t] = "mark"
      BY <1>1, <3>1 DEF CanSubmit, Decide, Goto, IInv, TypeOK
    <3> QED BY <3>2 DEF Busy
  <2>2. CASE sessions[i].state # "resuming"
    BY <1>2, <1>3, <2>2 DEF Good
  <2> QED BY <2>1, <2>2
<1> HIDE DEF s
<1>6. /\ \A j \in Ids : At(t, j)'
      /\ OpenInv(t)'
      /\ Live(i)' /\ sessions'[i] = s /\ client'[i] = c
  BY <1>1, <1>2, <1>3, <1>4, <1>5, WrittenSeq
<1>7. WorkInv(t)'
  <2>1. CASE pc'[t] = "done"
    BY <2>1 DEF WorkInv, Busy
  <2>2. CASE /\ pc'[t] = "bank" /\ call'[t].sending = c.order /\ call'[t].fn = call[t].fn
             /\ CanSubmit(client[i], call[t].fn)
    BY <1>1, <1>2, <1>3, <1>6, <2>2 DEF WorkInv, Busy, Good, CanSubmit
  <2>3. CASE pc'[t] = "mark" /\ plan'[t].state = "failed"
    BY <1>1, <1>6, <2>3 DEF WorkInv, Busy, TerminalStates
  <2>4. CASE call[t].fn = "approve" /\ ~ local[t].approve
    BY <1>1, <2>1, <2>4 DEF Reply, Goto, IInv, TypeOK
  <2>5. CASE ~ (call[t].fn = "approve" /\ ~ local[t].approve) /\ CanSubmit(client[i], call[t].fn)
    BY <1>1, <2>2, <2>5 DEF Goto, IInv, TypeOK, Call
  <2>6. CASE ~ (call[t].fn = "approve" /\ ~ local[t].approve) /\ ~ CanSubmit(client[i], call[t].fn)
    BY <1>1, <2>3, <2>6 DEF Decide, Goto, IInv, TypeOK
  <2> QED BY <2>4, <2>5, <2>6
<1> QED BY <1>6, <1>7 DEF SeqInv

\* An answer of the bank changes the client of a session and nothing of the registry.
LEMMA AnsweredSeq ==
  ASSUME IInv, NEW t \in Threads, SeqInv(t), local[t].kind # "open", pc[t] = "bank",
         NEW c, client' = [client EXCEPT ![local[t].id] = c],
         Busy(t)' \/ Good(sessions[local[t].id], c),
         UNCHANGED <<sessions, made, born, closing, local>>
  PROVE  /\ \A j \in Ids : At(t, j)'
         /\ OpenInv(t)'
         /\ Live(local[t].id) /\ Live(local[t].id)' /\ local[t].id \in Ids
         /\ client'[local[t].id] = c /\ client[local[t].id] \in Client
         /\ sessions[local[t].id] \in Session
<1> DEFINE i == local[t].id
<1>1. Live(i) /\ i \in Ids
  BY DEF SeqInv, WorkInv, Busy, IInv, ThreadInv
<1>2. client'[i] = c /\ client[i] \in Client /\ \A j \in Ids \ {i} : client'[j] = client[j]
  BY <1>1 DEF IInv, TypeOK
<1>3. \A j \in Ids \ {i} : At(t, j)'
  BY <1>2, ElsewhereStays DEF SeqInv
<1>4. Live(i)' /\ i \in made
  BY <1>1 DEF Live, IInv, FreshInv, LiveIds
<1>5. At(t, i)'
  BY <1>1, <1>2, <1>4 DEF SeqInv, At
<1>6. OpenInv(t)'
  BY DEF OpenInv
<1> QED BY <1>1, <1>2, <1>3, <1>4, <1>5, <1>6, LiveType DEF IInv

\* A session that is marked as waiting can be continued.
LEMMA WaitingGood ==
  ASSUME NEW s \in Session, NEW answer \in Challenges, NEW d, d.open, d.tan <=> ~ d.vop,
         d.vop <=> answer = "vop", d.order = s.name
  PROVE  Good([s EXCEPT !.state = AwaitingState(answer)], d)
<1> DEFINE w == [s EXCEPT !.state = AwaitingState(answer)]
<1>1. w.state = AwaitingState(answer) /\ d.order = w.name
  BY DEF Session
<1> HIDE DEF w
<1>2. Good(w, d)
  BY <1>1, AwaitingGood
<1> QED BY <1>2 DEF w

LEMMA FinalizeAnswerSeq ==
  ASSUME IInv, NEW t \in Threads, SeqInv(t), FinalizeAnswer(t)
  PROVE  SeqInv(t)'
<1> DEFINE i == local[t].id
<1>1. /\ pc[t] = "bank" /\ call[t].fn = "finalize" /\ local[t].kind # "open"
      /\ UNCHANGED <<sessions, made, born, closing, local>>
  BY DEF FinalizeAnswer, IInv, ThreadInv
<1>2. PICK answer \in HandlerAnswers("transfer") :
        /\ \E c \in AfterHandler(client[i], "transfer", answer, call[t].owned) :
             client' = [client EXCEPT ![i] = c]
        /\ CASE answer \in Challenges ->
                  Decide(t, AwaitingState(answer), IF answer = "decoupled" THEN 202 ELSE 409, answer)
             [] answer = "ok" -> Goto(t, "resume") /\ UNCHANGED plan
             [] answer = "capability" -> Decide(t, "failed", 422, answer)
             [] OTHER -> Decide(t, "failed", 502, answer)
  BY DEF FinalizeAnswer
<1>3. PICK c \in AfterHandler(client[i], "transfer", answer, call[t].owned) :
        client' = [client EXCEPT ![i] = c]
  BY <1>2
<1>4. Free(client[i], sessions[i].name) /\ call[t].owned = FALSE
      /\ local[t].op = sessions[i].op /\ local[t].name = sessions[i].name
  BY <1>1 DEF SeqInv, WorkInv, IInv, TypeOK, Call
<1>5. \/ answer \in Challenges /\ pc'[t] = "mark" /\ plan'[t].state = AwaitingState(answer)
      \/ answer = "ok" /\ pc'[t] = "resume"
      \/ pc'[t] = "mark" /\ plan'[t].state = "failed"
  BY <1>2 DEF Decide, Goto, IInv, TypeOK, Challenges
<1>6. Busy(t)'
  BY <1>5 DEF Busy
<1>7. /\ \A j \in Ids : At(t, j)'
      /\ OpenInv(t)'
      /\ Live(i) /\ Live(i)' /\ i \in Ids /\ client'[i] = c /\ client[i] \in Client
      /\ sessions[i] \in Session
  BY <1>1, <1>3, <1>6, AnsweredSeq
<1>8. WorkInv(t)'
  <2>1. CASE answer \in Challenges /\ pc'[t] = "mark" /\ plan'[t].state = AwaitingState(answer)
    <3>1. c.open /\ (c.tan <=> ~ c.vop) /\ c.order = sessions[i].name /\ (c.vop <=> answer = "vop")
      BY <1>3, <1>4, <1>7, <2>1, HandlerChallenge
    <3>2. Good([sessions[i] EXCEPT !.state = plan'[t].state], c)
      BY <1>7, <2>1, <3>1, WaitingGood
    <3> QED BY <1>1, <1>7, <2>1, <3>2 DEF WorkInv, Busy
  <2>2. CASE answer = "ok" /\ pc'[t] = "resume"
    <3>1. Free(c, NoName)
      BY <1>3, <1>4, <1>7, <2>2, HandlerEnd
    <3> QED BY <1>1, <1>4, <1>7, <2>2, <3>1 DEF WorkInv, Busy
  <2>3. CASE pc'[t] = "mark" /\ plan'[t].state = "failed"
    BY <1>1, <1>7, <2>3 DEF WorkInv, Busy, TerminalStates
  <2> QED BY <1>5, <2>1, <2>2, <2>3
<1> QED BY <1>7, <1>8 DEF SeqInv

LEMMA HandlerAnswerSeq ==
  ASSUME IInv, NEW t \in Threads, SeqInv(t), HandlerAnswer(t)
  PROVE  SeqInv(t)'
<1> DEFINE i == local[t].id
<1>1. /\ pc[t] = "bank" /\ call[t].fn = "handler" /\ local[t].kind # "open"
      /\ UNCHANGED <<sessions, made, born, closing, local>>
  BY DEF HandlerAnswer
<1>2. PICK answer \in HandlerAnswers(local[t].op) :
        /\ \E c \in AfterHandler(client[i], local[t].op, answer, call[t].owned) :
             client' = [client EXCEPT ![i] = c]
        /\ CASE answer \in Challenges -> Decide(t, AwaitingState(answer), 409, answer)
             [] answer = "ok" -> Decide(t, "completed", 200, answer)
             [] answer = "raised" -> Reply(t, 500)
             [] answer = "capability" /\ ~ (local[t].kind = "retry") ->
                  Decide(t, "failed", 502, answer)
             [] OTHER -> Decide(t, "failed", ErrorCode(answer), answer)
  BY DEF HandlerAnswer
<1>3. PICK c \in AfterHandler(client[i], local[t].op, answer, call[t].owned) :
        client' = [client EXCEPT ![i] = c]
  BY <1>2
<1>4. /\ Free(client[i], sessions[i].name) /\ ~ call[t].owned /\ local[t].op = sessions[i].op
      /\ sessions[i].state = "resuming" \/ sessions[i].op = "transfer"
  BY <1>1 DEF SeqInv, WorkInv
<1>5. \/ answer \in Challenges /\ pc'[t] = "mark" /\ plan'[t].state = AwaitingState(answer)
      \/ pc'[t] = "mark" /\ plan'[t].state \in TerminalStates
      \/ answer = "raised" /\ pc'[t] = "done"
  BY <1>2 DEF Decide, Reply, Goto, IInv, TypeOK, Challenges, TerminalStates
<1>6. Busy(t)' \/ Good(sessions[i], c)
  <2>1. CASE pc'[t] = "mark"
    BY <2>1 DEF Busy
  <2>2. CASE answer = "raised"
    <3>1. local[t].op # "transfer"
      BY <2>2 DEF HandlerAnswers
    <3>2. c = [client[i] EXCEPT !.order = @] /\ client[i] \in Client
      BY <1>1, <1>3, <1>4, <2>2, <3>1 DEF AfterHandler, IInv, TypeOK, ThreadInv
    <3> QED BY <1>4, <3>1, <3>2 DEF Free, Good, Client
  <2> QED BY <1>5, <2>1, <2>2
<1>7. /\ \A j \in Ids : At(t, j)'
      /\ OpenInv(t)'
      /\ Live(i) /\ Live(i)' /\ i \in Ids /\ client'[i] = c /\ client[i] \in Client
      /\ sessions[i] \in Session
  BY <1>1, <1>3, <1>6, AnsweredSeq
<1>8. CASE answer \in Challenges /\ pc'[t] = "mark" /\ plan'[t].state = AwaitingState(answer)
  <2>1. c.open /\ (c.tan <=> ~ c.vop) /\ c.order = sessions[i].name /\ (c.vop <=> answer = "vop")
    BY <1>3, <1>4, <1>7, <1>8, HandlerChallenge
  <2>2. Good([sessions[i] EXCEPT !.state = plan'[t].state], c)
    BY <1>7, <1>8, <2>1, WaitingGood
  <2>3. WorkInv(t)'
    BY <1>1, <1>5, <1>7, <2>2 DEF WorkInv, Busy
  <2> QED BY <1>7, <2>3 DEF SeqInv
<1>9. CASE pc'[t] = "mark" /\ plan'[t].state \in TerminalStates
  <2>1. WorkInv(t)'
    BY <1>1, <1>7, <1>9 DEF WorkInv, Busy
  <2> QED BY <1>7, <2>1 DEF SeqInv
<1>10. CASE pc'[t] = "done"
  <2>1. WorkInv(t)'
    BY <1>10 DEF WorkInv, Busy
  <2> QED BY <1>7, <2>1 DEF SeqInv
<1> QED BY <1>5, <1>8, <1>9, <1>10

LEMMA MarkSeq ==
  ASSUME IInv, NEW t \in Threads, SeqInv(t), Mark(t)
  PROVE  SeqInv(t)'
<1> DEFINE i == local[t].id
           s == Marked(sessions[i], plan[t].state)
           c == client[i]
<1>1. /\ pc[t] = "mark" /\ local[t].kind # "open" /\ i \in Ids /\ plan[t].state \in States
      /\ pc'[t] = IF plan[t].state \in TerminalStates THEN "pop" ELSE "done"
      /\ UNCHANGED <<client, made, born, closing, local, plan>>
  BY DEF Mark, Goto, IInv, TypeOK, ThreadInv, Plan
<1>2. /\ Live(i)
      /\ plan[t].state \notin TerminalStates => Good([sessions[i] EXCEPT !.state = plan[t].state], c)
  BY <1>1 DEF SeqInv, WorkInv, Busy
<1>3. s \in Session /\ s.op = sessions[i].op /\ s.name = sessions[i].name /\ s.state = plan[t].state
  BY <1>1, <1>2, MarkedSession DEF IInv
<1>4. sessions' = [sessions EXCEPT ![i] = s] /\ client' = [client EXCEPT ![i] = c]
  BY <1>1, <1>2 DEF Mark, Store, IInv, TypeOK
<1>5. sessions[i] \in Session
  BY <1>1, <1>2, LiveType DEF IInv
<1> HIDE DEF s
<1>6. Busy(t)' \/ Good(s, c)
  <2>1. CASE plan[t].state \in TerminalStates
    BY <1>1, <2>1 DEF Busy
  <2>2. CASE plan[t].state \notin TerminalStates
    BY <1>2, <1>3, <1>5, <2>2 DEF Good, Session
  <2> QED BY <2>1, <2>2
<1>7. /\ \A j \in Ids : At(t, j)'
      /\ OpenInv(t)' /\ Live(i)'
  BY <1>1, <1>2, <1>3, <1>4, <1>6, WrittenSeq
<1>8. WorkInv(t)'
  BY <1>1, <1>7 DEF WorkInv, Busy
<1> QED BY <1>7, <1>8 DEF SeqInv

LEMMA ConfirmAnswerSeq ==
  ASSUME IInv, NEW t \in Threads, SeqInv(t), ConfirmAnswer(t)
  PROVE  SeqInv(t)'
<1> DEFINE i == local[t].id
           fn == call[t].fn
           order == client[i].order
<1>1. /\ pc[t] = "bank" /\ fn \in {"confirm", "approve"} /\ local[t].kind # "open"
      /\ UNCHANGED <<sessions, made, born, closing, local>>
  BY DEF ConfirmAnswer, IInv, ThreadInv
<1>2. PICK answer \in SubmitAnswers(local[t].op) : \E c \in AfterSubmit(client[i], fn, answer) :
        IF answer = "other_result" /\ order # NoName
          THEN CallHandler(t, i, "transfer", order, "finalize", c)
          ELSE /\ client' = [client EXCEPT ![i] = c]
               /\ CASE answer \in Challenges ->
                         Decide(t, AwaitingState(answer), IF answer = "decoupled" THEN 202 ELSE 409, answer)
                    [] answer = "transfer_result" /\ order = NoName -> Decide(t, "completed", 200, answer)
                    [] answer = "error" -> Decide(t, "failed", 502, answer)
                    [] OTHER -> Goto(t, "resume") /\ UNCHANGED plan
  BY DEF ConfirmAnswer
<1>3. PICK c \in AfterSubmit(client[i], fn, answer) :
        IF answer = "other_result" /\ order # NoName
          THEN CallHandler(t, i, "transfer", order, "finalize", c)
          ELSE /\ client' = [client EXCEPT ![i] = c]
               /\ CASE answer \in Challenges ->
                         Decide(t, AwaitingState(answer), IF answer = "decoupled" THEN 202 ELSE 409, answer)
                    [] answer = "transfer_result" /\ order = NoName -> Decide(t, "completed", 200, answer)
                    [] answer = "error" -> Decide(t, "failed", 502, answer)
                    [] OTHER -> Goto(t, "resume") /\ UNCHANGED plan
  BY <1>2
<1>4. /\ client[i].open /\ (client[i].tan <=> ~ client[i].vop) /\ order = sessions[i].name
      /\ client[i].vop <=> fn = "approve"
      /\ local[t].op = sessions[i].op /\ local[t].name = sessions[i].name
      /\ Live(i) /\ i \in Ids /\ client[i] \in Client
  BY <1>1 DEF SeqInv, WorkInv, Busy, IInv, TypeOK, ThreadInv
<1>5. CASE answer = "other_result" /\ order # NoName
  <2> DEFINE d == Calling(c, "transfer", order)
  <2>1. /\ client' = [client EXCEPT ![i] = d] /\ pc'[t] = "bank"
        /\ call'[t] = [fn |-> "finalize", owned |-> OwnsClient(c, "transfer"), sending |-> order]
    BY <1>3, <1>5 DEF CallHandler, Goto, IInv, TypeOK
  <2>2. Free(c, order) /\ c \in Client
    BY <1>1, <1>3, <1>4, <1>5, SubmitResult, AfterSubmitType
  <2>3. Free(d, order) /\ ~ OwnsClient(c, "transfer")
    BY <2>2 DEF Free, Calling, OwnsClient, Client
  <2> HIDE DEF d
  <2>4. /\ \A j \in Ids : At(t, j)'
        /\ OpenInv(t)' /\ Live(i)' /\ client'[i] = d
    BY <1>1, <2>1, AnsweredSeq DEF Busy
  <2>5. WorkInv(t)'
    BY <1>1, <1>4, <2>1, <2>3, <2>4 DEF WorkInv, Busy
  <2> QED BY <2>4, <2>5 DEF SeqInv
<1>6. CASE ~ (answer = "other_result" /\ order # NoName)
  <2>1. /\ client' = [client EXCEPT ![i] = c]
        /\ \/ answer \in Challenges /\ pc'[t] = "mark" /\ plan'[t].state = AwaitingState(answer)
           \/ pc'[t] = "mark" /\ plan'[t].state \in TerminalStates
           \/ /\ answer \in {"transfer_result", "other_result"} /\ pc'[t] = "resume"
              /\ answer = "other_result" => order = NoName
    BY <1>3, <1>6 DEF Decide, Goto, IInv, TypeOK, Challenges, TerminalStates, SubmitAnswers
  <2>2. /\ \A j \in Ids : At(t, j)'
        /\ OpenInv(t)' /\ Live(i)' /\ client'[i] = c /\ sessions[i] \in Session
    BY <1>1, <2>1, AnsweredSeq DEF Busy
  <2>3. CASE answer \in Challenges /\ pc'[t] = "mark" /\ plan'[t].state = AwaitingState(answer)
    <3>1. c.open /\ (c.tan <=> ~ c.vop) /\ c.order = sessions[i].name /\ (c.vop <=> answer = "vop")
      BY <1>1, <1>3, <1>4, <2>3, SubmitChallenge
    <3>2. Good([sessions[i] EXCEPT !.state = plan'[t].state], c)
      BY <2>2, <2>3, <3>1, WaitingGood
    <3>3. WorkInv(t)'
      BY <1>1, <2>2, <2>3, <3>2 DEF WorkInv, Busy
    <3> QED BY <2>2, <3>3 DEF SeqInv
  <2>4. CASE pc'[t] = "mark" /\ plan'[t].state \in TerminalStates
    <3>1. WorkInv(t)'
      BY <1>1, <2>2, <2>4 DEF WorkInv, Busy
    <3> QED BY <2>2, <3>1 DEF SeqInv
  <2>5. CASE /\ answer \in {"transfer_result", "other_result"} /\ pc'[t] = "resume"
             /\ answer = "other_result" => order = NoName
    <3>1. Free(c, NoName)
      BY <1>1, <1>3, <1>4, <2>5, SubmitResult
    <3>2. WorkInv(t)'
      BY <1>1, <1>4, <2>2, <2>5, <3>1 DEF WorkInv, Busy
    <3> QED BY <2>2, <3>2 DEF SeqInv
  <2> QED BY <2>1, <2>3, <2>4, <2>5
<1> QED BY <1>5, <1>6

LEMMA ResumeSeq ==
  ASSUME IInv, NEW t \in Threads, SeqInv(t), Resume(t)
  PROVE  SeqInv(t)'
<1> DEFINE i == local[t].id
           s == Marked(sessions[i], "resuming")
           d == Calling(client[i], local[t].op, local[t].name)
<1>1. /\ pc[t] = "resume" /\ pc'[t] = "bank" /\ local[t].kind # "open" /\ i \in Ids
      /\ client' = [client EXCEPT ![i] = d]
      /\ call'[t] = [fn |-> "handler", owned |-> OwnsClient(client[i], local[t].op),
                     sending |-> local[t].name]
      /\ UNCHANGED <<made, born, closing, local>>
  BY DEF Resume, CallHandler, Goto, IInv, TypeOK, ThreadInv
<1>2. /\ Live(i) /\ local[t].op = sessions[i].op /\ local[t].name = sessions[i].name
      /\ Free(client[i], NoName)
      /\ sessions[i].op # "transfer" => sessions[i].name = NoName
      /\ client[i] \in Client
  BY <1>1 DEF SeqInv, WorkInv, Busy, At, IInv, TypeOK
<1>3. s \in Session /\ s.op = sessions[i].op /\ s.name = sessions[i].name /\ s.state = "resuming"
  BY <1>1, <1>2, MarkedSession DEF IInv, States
<1>4. sessions' = [sessions EXCEPT ![i] = s]
  BY <1>2 DEF Resume, Store
<1>5. Free(d, s.name) /\ ~ OwnsClient(client[i], local[t].op)
  BY <1>2, <1>3 DEF Free, Calling, OwnsClient, Client
<1> HIDE DEF s, d
<1>6. /\ \A j \in Ids : At(t, j)'
      /\ OpenInv(t)' /\ Live(i)' /\ sessions'[i] = s /\ client'[i] = d
  BY <1>1, <1>2, <1>3, <1>4, WrittenSeq DEF Busy
<1>7. WorkInv(t)'
  BY <1>1, <1>2, <1>3, <1>5, <1>6 DEF WorkInv, Busy
<1> QED BY <1>6, <1>7 DEF SeqInv

LEMMA RetryCallSeq ==
  ASSUME IInv, NEW t \in Threads, SeqInv(t), RetryCall(t)
  PROVE  SeqInv(t)'
<1> DEFINE i == local[t].id
           m == Marked(sessions[i], "running")
           s == [m EXCEPT !.name = local[t].name]
           d == Calling(ClearPendingConfirmations(client[i]), "transfer", local[t].name)
<1>1. /\ pc[t] = "loaded" /\ pc'[t] = "bank" /\ local[t].kind = "retry" /\ i \in Ids
      /\ client' = [client EXCEPT ![i] = d]
      /\ call'[t] = [fn |-> "handler",
                     owned |-> OwnsClient(ClearPendingConfirmations(client[i]), "transfer"),
                     sending |-> local[t].name]
      /\ UNCHANGED <<made, born, closing, local>> /\ local[t].name \in OrderName
  BY DEF RetryCall, CallHandler, Goto, IInv, TypeOK, ThreadInv, Local
<1>2. /\ Live(i) /\ local[t].op = sessions[i].op /\ sessions[i].op = "transfer"
      /\ client[i].open /\ client[i] \in Client
  BY <1>1 DEF SeqInv, WorkInv, Busy, At, Good, IInv, TypeOK
<1>3. m \in Session /\ m.op = "transfer"
  BY <1>1, <1>2, MarkedSession DEF IInv, States
<1>4. sessions' = [sessions EXCEPT ![i] = s]
  BY <1>2 DEF RetryCall, Store
<1> HIDE DEF m
<1>5. s \in Session /\ s.op = "transfer" /\ s.name = local[t].name
  BY <1>1, <1>3 DEF Session
<1>6. Free(d, s.name) /\ ~ OwnsClient(ClearPendingConfirmations(client[i]), "transfer")
  BY <1>2, <1>5 DEF Free, Calling, OwnsClient, ClearPendingConfirmations, Client
<1> HIDE DEF s, d
<1>7. /\ \A j \in Ids : At(t, j)'
      /\ OpenInv(t)' /\ Live(i)' /\ sessions'[i] = s /\ client'[i] = d
  <2>1. /\ local[t].kind # "open" /\ Busy(t)' /\ s.op = sessions[i].op
        /\ s.name = sessions[i].name \/ s.op = "transfer"
    BY <1>1, <1>2, <1>5 DEF Busy
  <2> QED BY <1>1, <1>2, <1>4, <1>5, <2>1, WrittenSeq
<1>8. WorkInv(t)'
  BY <1>1, <1>2, <1>5, <1>6, <1>7 DEF WorkInv, Busy
<1> QED BY <1>7, <1>8 DEF SeqInv

LEMMA SeqInit ==
  ASSUME NEW t \in Threads, Init
  PROVE  SeqInv(t)
BY DEF Init, SeqInv, At, OpenInv, WorkInv, Busy, Live, NoLocal

LEMMA SeqStep ==
  ASSUME NEW t \in Threads, Threads = {t}, IInv, SeqInv(t), [Next]_vars
  PROVE  SeqInv(t)'
<1>1. CASE UNCHANGED vars
  BY <1>1 DEF vars, shared, prune, SeqInv, At, OpenInv, WorkInv, Busy, Live
<1>2. CASE Request(t) \/ Shutdown(t)
  BY <1>2, ArrivalSeq
<1>3. CASE Serve(t)
  BY <1>3, SimpleSeq, PopSeq, CloseSeq, CancelSeq, OpenCallSeq, OpenAnswerSeq, RegisterSeq,
     ConfirmLoadSeq, ConfirmCallSeq, ConfirmAnswerSeq, FinalizeAnswerSeq, ResumeSeq,
     HandlerAnswerSeq, MarkSeq, RetryLoadSeq, RetryCallSeq DEF Serve
<1>4. CASE Tick
  BY <1>4, TickSeq
<1>5. CASE Stopped
  BY <1>1, <1>5 DEF Stopped
<1> QED BY <1>1, <1>2, <1>3, <1>4, <1>5 DEF Next

\* Only answers of the bank count orders as accepted, and only for the session they belong to.
LEMMA AcceptedStep ==
  ASSUME NEW t \in Threads, Threads = {t}, IInv, SeqInv(t), Next,
         NEW i \in Ids, Live(i), accepted'[i] > accepted[i]
  PROVE  local[t].id = i /\ call[t].sending = sessions[i].name
<1>1. accepted[i] \in Nat
  BY BoundAssumption DEF IInv, TypeOK
<1>2. accepted' # accepted
  BY <1>1
<1>3. OpenAnswer(t) \/ ConfirmAnswer(t) \/ FinalizeAnswer(t) \/ HandlerAnswer(t)
  BY <1>2 DEF Next, Serve, Request, Shutdown, Tick, Stopped, vars, shared, ScanEnd, Drop, CloseClient,
     OpenRefused, OpenCall, Register, NotFound, ConfirmLoad, ConfirmCall, Resume, Mark, Pop,
     RetryLoad, RetryCall, GetSession, CancelSession, Return
<1>4. pc[t] = "bank" /\ \E n : CountAccepted(local[t].id, n)
  BY <1>3 DEF OpenAnswer, ConfirmAnswer, FinalizeAnswer, HandlerAnswer
<1>5. local[t].id = i
  BY <1>1, <1>4 DEF CountAccepted, IInv, TypeOK
<1>6. local[t].kind # "open"
  BY <1>4, <1>5 DEF IInv, FreshInv, Opening, LiveIds
<1> QED BY <1>4, <1>5, <1>6 DEF SeqInv, WorkInv

-----------------------------------------------------------------------------
(* The prune.  Nothing but time changes the sessions while it goes through   *)
(* them.                                                                     *)

\* At the end of the scan the keys are those it started with; the sessions it found expired
\* stay expired until they are closed; and so lookups are not cut short.
PruneInv(t) ==
  /\ pc[t] = "scan" => seen[t] = LiveIds
  /\ local[t].kind # "shutdown" => \A i \in doomed[t] : Live(i) => sessions[i].idle >= SessionTTL
  /\ pc[t] \notin {"scan", "prune", "dropclose"} => doomed[t] = {}
  /\ local[t].kind \in {"get", "cancel"} =>
       /\ pc[t] \in {"pop", "close"} => plan[t].code = 200
       /\ pc[t] = "done" => plan[t].code \in {200, 404}
       /\ pc[t] \notin {"bank", "mark", "resume", "loaded"}

\* A request that arrives finds the expired sessions; the shutdown takes them all.
LEMMA ArrivalPrune ==
  ASSUME IInv, NEW t \in Threads, PruneInv(t), Request(t) \/ Shutdown(t)
  PROVE  PruneInv(t)'
<1>1. CASE Request(t)
  <2>1. pc[t] = "idle" /\ doomed[t] = {} /\ UNCHANGED sessions
    BY <1>1 DEF Request, PruneInv, shared
  <2>2. \/ pc'[t] = "prune" /\ doomed'[t] = doomed[t]
        \/ pc'[t] = "scan" /\ doomed'[t] = Expired /\ seen'[t] = LiveIds
    BY <1>1 DEF Request, Goto, prune, IInv, TypeOK
  <2> QED BY <2>1, <2>2 DEF PruneInv, Expired, LiveIds, Live
<1>2. CASE Shutdown(t)
  <2>1. pc'[t] = "prune" /\ local'[t].kind = "shutdown"
    BY <1>2 DEF Shutdown, Goto, NoLocal, IInv, TypeOK
  <2> QED BY <2>1 DEF PruneInv
<1> QED BY <1>1, <1>2

\* The steps of the prune itself.
LEMMA PruningPrune ==
  ASSUME IInv, NEW t \in Threads, PruneInv(t), ScanEnd(t) \/ Drop(t) \/ CloseClient(t)
  PROVE  PruneInv(t)'
<1>1. CASE ScanEnd(t)
  <2>1. pc[t] = "scan" /\ pc'[t] = "prune" /\ UNCHANGED <<sessions, doomed, local>>
    BY <1>1 DEF ScanEnd, PruneInv, Goto, shared, IInv, TypeOK
  <2> QED BY <2>1 DEF PruneInv, Live
<1>2. CASE Drop(t)
  <2>1. /\ pc'[t] \in {"prune", "dropclose"} /\ doomed'[t] \subseteq doomed[t]
        /\ UNCHANGED local
        /\ \A i \in Ids : sessions'[i] \in {sessions[i], Absent}
    BY <1>2 DEF Drop, PopSession, Goto, IInv, TypeOK
  <2>2. doomed[t] \subseteq Ids
    BY DEF IInv, TypeOK
  <2> QED BY <2>1, <2>2 DEF PruneInv, Live
<1>3. CASE CloseClient(t)
  <2>1. /\ pc'[t] = IF pc[t] = "dropclose" THEN "prune" ELSE "done"
        /\ pc[t] \in {"dropclose", "close"}
        /\ UNCHANGED <<sessions, doomed, local, plan>>
    BY <1>3 DEF CloseClient, Goto, prune, IInv, TypeOK
  <2> QED BY <2>1 DEF PruneInv, Live
<1> QED BY <1>1, <1>2, <1>3

\* What GET and DELETE do after the prune.
LEMMA LookupPrune ==
  ASSUME IInv, NEW t \in Threads, PruneInv(t),
         \/ GetSession(t) \/ CancelSession(t) \/ Pop(t) \/ Return(t)
         \/ \E kind \in {"confirm", "retry", "get", "cancel"} : NotFound(t, kind)
  PROVE  PruneInv(t)'
<1>1. doomed[t] = {} /\ UNCHANGED <<doomed, seen>>
  BY DEF GetSession, CancelSession, Pop, Return, NotFound, Body, prune, PruneInv
<1>2. CASE GetSession(t) \/ \E kind \in {"confirm", "retry", "get", "cancel"} : NotFound(t, kind)
  <2>1. pc'[t] = "done" /\ plan'[t].code \in {200, 404}
    BY <1>2 DEF GetSession, NotFound, Reply, Goto, NoPlan, IInv, TypeOK
  <2> QED BY <1>1, <2>1 DEF PruneInv
<1>3. CASE CancelSession(t)
  <2>1. pc'[t] = "pop" /\ plan'[t].code = 200
    BY <1>3 DEF CancelSession, Goto, NoPlan, IInv, TypeOK
  <2> QED BY <1>1, <2>1 DEF PruneInv
<1>4. CASE Pop(t)
  <2>1. pc[t] = "pop" /\ pc'[t] \in {"close", "done"} /\ UNCHANGED <<local, plan>>
    BY <1>4 DEF Pop, PopSession, Goto, IInv, TypeOK
  <2> QED BY <1>1, <2>1 DEF PruneInv
<1>5. CASE Return(t)
  <2>1. pc'[t] = "idle"
    BY <1>5 DEF Return, Goto, IInv, TypeOK
  <2> QED BY <1>1, <2>1 DEF PruneInv
<1> QED BY <1>2, <1>3, <1>4, <1>5

\* The other requests are past the prune, which neither GET nor DELETE becomes.
LEMMA OtherPrune ==
  ASSUME IInv, NEW t \in Threads, PruneInv(t),
         \/ OpenRefused(t) \/ OpenCall(t) \/ OpenAnswer(t) \/ Register(t)
         \/ ConfirmLoad(t) \/ ConfirmCall(t) \/ ConfirmAnswer(t) \/ FinalizeAnswer(t)
         \/ Resume(t) \/ HandlerAnswer(t) \/ Mark(t) \/ RetryLoad(t) \/ RetryCall(t)
  PROVE  PruneInv(t)'
<1>1. doomed[t] = {} /\ UNCHANGED <<doomed, seen>>
  BY DEF OpenRefused, OpenCall, OpenAnswer, Register, ConfirmLoad, ConfirmCall, ConfirmAnswer,
     FinalizeAnswer, Resume, HandlerAnswer, Mark, RetryLoad, RetryCall, Body, prune, PruneInv
<1>2. local[t].kind \notin {"get", "cancel"}
  BY DEF OpenRefused, OpenCall, OpenAnswer, Register, ConfirmLoad, ConfirmCall, ConfirmAnswer,
     FinalizeAnswer, Resume, HandlerAnswer, Mark, RetryLoad, RetryCall, Body, PruneInv
<1>3. local'[t].kind = local[t].kind
  <2>1. CASE OpenCall(t)
    BY <2>1 DEF OpenCall, IInv, TypeOK, Local
  <2>2. CASE ConfirmLoad(t)
    BY <2>2 DEF ConfirmLoad, IInv, TypeOK, Local
  <2>3. CASE RetryLoad(t)
    BY <2>3 DEF RetryLoad, IInv, TypeOK, Local
  <2>4. CASE ~ (OpenCall(t) \/ ConfirmLoad(t) \/ RetryLoad(t))
    BY <2>4 DEF OpenRefused, OpenAnswer, Register, ConfirmCall, ConfirmAnswer, FinalizeAnswer,
       Resume, HandlerAnswer, Mark, RetryCall
  <2> QED BY <2>1, <2>2, <2>3, <2>4
<1>4. pc'[t] \in {"done", "bank", "mark", "loaded", "resume", "pop"}
  <2>1. CASE OpenRefused(t) \/ OpenCall(t) \/ OpenAnswer(t) \/ Register(t)
    BY <2>1 DEF OpenRefused, OpenCall, OpenAnswer, Register, CallHandler, Decide, Reply, Goto, IInv, TypeOK
  <2>2. CASE ConfirmLoad(t) \/ ConfirmCall(t) \/ Resume(t) \/ Mark(t)
    BY <2>2 DEF ConfirmLoad, ConfirmCall, Resume, Mark, CallHandler, Decide, Reply, Goto, IInv, TypeOK
  <2>3. CASE ConfirmAnswer(t)
    BY <2>3 DEF ConfirmAnswer, CallHandler, Decide, Goto, IInv, TypeOK
  <2>4. CASE FinalizeAnswer(t) \/ HandlerAnswer(t)
    BY <2>4 DEF FinalizeAnswer, HandlerAnswer, Decide, Reply, Goto, IInv, TypeOK
  <2>5. CASE RetryLoad(t) \/ RetryCall(t)
    BY <2>5 DEF RetryLoad, RetryCall, CallHandler, Reply, Goto, IInv, TypeOK
  <2> QED BY <2>1, <2>2, <2>3, <2>4, <2>5
<1> QED BY <1>1, <1>2, <1>3, <1>4 DEF PruneInv

\* Time only makes sessions older.
LEMMA TickPrune ==
  ASSUME IInv, NEW t \in Threads, PruneInv(t), Tick
  PROVE  PruneInv(t)'
<1>1. UNCHANGED <<pc, local, prune, plan>>
  BY DEF Tick
<1>2. LiveIds' = LiveIds /\ \A i \in Ids : Live(i)' <=> Live(i)
  BY TickKeepsRegistry DEF KeepsRegistry, IInv, LiveIds
<1>3. ASSUME NEW i \in doomed[t], Live(i), sessions[i].idle >= SessionTTL
      PROVE  sessions'[i].idle >= SessionTTL
  <2>1. i \in Ids /\ sessions[i] \in Session
    BY <1>3 DEF IInv, TypeOK, Live
  <2>2. sessions'[i] = sessions[i]
    BY <1>3, <2>1, TTLAssumption DEF Tick, Session
  <2> QED BY <1>3, <2>2
<1>4. doomed[t] \subseteq Ids
  BY DEF IInv, TypeOK
<1> QED BY <1>1, <1>2, <1>3, <1>4 DEF PruneInv, prune

LEMMA PruneStep ==
  ASSUME NEW t \in Threads, Threads = {t}, IInv, PruneInv(t), [Next]_vars
  PROVE  PruneInv(t)'
<1>1. CASE UNCHANGED vars
  BY <1>1 DEF vars, shared, prune, PruneInv, LiveIds, Live
<1>2. CASE Request(t) \/ Shutdown(t)
  BY <1>2, ArrivalPrune
<1>3. CASE Serve(t)
  BY <1>3, PruningPrune, LookupPrune, OtherPrune DEF Serve
<1>4. CASE Tick
  BY <1>4, TickPrune
<1>5. CASE Stopped
  BY <1>1, <1>5 DEF Stopped
<1> QED BY <1>1, <1>2, <1>3, <1>4, <1>5 DEF Next

\* With one request at a time, what holds of the worker from the start on holds always.
LEMMA PruneInvariance ==
  ASSUME NEW CONSTANT worker, Threads = {worker}
  PROVE  Spec => [](IInv /\ PruneInv(worker))
<1>1. worker \in Threads
  OBVIOUS
<1>2. Init => PruneInv(worker)
  BY <1>1 DEF Init, PruneInv, NoLocal
<1>3. IInv /\ PruneInv(worker) /\ [Next]_vars => PruneInv(worker)'
  BY <1>1, PruneStep
<1> QED BY <1>2, <1>3, Invariance, PTL DEF Spec

-----------------------------------------------------------------------------
(* Theorems.                                                                 *)

\* Whatever the bank answered, a session left waiting can be continued.
THEOREM SessionsCanContinue ==
  ASSUME NEW CONSTANT worker, Threads = {worker}
  PROVE  Spec => []WaitingCanContinue
<1>1. worker \in Threads
  OBVIOUS
<1>2. Init => SeqInv(worker)
  BY <1>1, SeqInit
<1>3. IInv /\ SeqInv(worker) /\ [Next]_vars => SeqInv(worker)'
  BY <1>1, SeqStep
<1>4. SeqInv(worker) => WaitingCanContinue
  <2>1. SUFFICES ASSUME SeqInv(worker), NEW i \in LiveIds, Quiet(i)
                 PROVE  /\ client[i].open
                        /\ sessions[i].state # "resuming" => client[i].tan # client[i].vop
                        /\ sessions[i].state = "awaiting_vop" => client[i].vop
                        /\ sessions[i].state \in {"awaiting_tan", "awaiting_decoupled"} => client[i].tan
    BY DEF WaitingCanContinue
  <2>2. Good(sessions[i], client[i])
    BY <1>1, <2>1 DEF SeqInv, At, Quiet, LiveIds
  <2>3. sessions[i].state # "resuming" => client[i].tan # client[i].vop
    BY <2>2 DEF Good
  <2> QED BY <2>2, <2>3 DEF Good
<1> QED BY <1>2, <1>3, <1>4, Invariance, PTL DEF Spec

\* A session that has gone leaves no dialog with the bank behind.
THEOREM GoneIsClosed ==
  ASSUME NEW CONSTANT worker, Threads = {worker}
  PROVE  Spec => []GoneMeansClosed
<1>1. worker \in Threads
  OBVIOUS
<1>2. Init => SeqInv(worker)
  BY <1>1, SeqInit
<1>3. IInv /\ SeqInv(worker) /\ [Next]_vars => SeqInv(worker)'
  BY <1>1, SeqStep
<1>4. IInv /\ SeqInv(worker) => GoneMeansClosed
  BY <1>1 DEF IInv, TypeOK, SeqInv, At, Quiet, GoneMeansClosed
<1> QED BY <1>2, <1>3, <1>4, Invariance, PTL DEF Spec

\* An order the bank accepts within a session carries the name the session was last given.
THEOREM AcceptedIsCurrent ==
  ASSUME NEW CONSTANT worker, Threads = {worker}
  PROVE  Spec => AcceptedNameIsCurrent
<1>1. worker \in Threads
  OBVIOUS
<1>2. Init => SeqInv(worker)
  BY <1>1, SeqInit
<1>3. IInv /\ SeqInv(worker) /\ [Next]_vars => SeqInv(worker)'
  BY <1>1, SeqStep
<1>4. IInv /\ SeqInv(worker) /\ [Next]_vars =>
        [\A i \in Ids : Live(i) /\ accepted'[i] > accepted[i] =>
           \E t \in Threads : local[t].id = i /\ call[t].sending = sessions[i].name]_vars
  BY <1>1, AcceptedStep
<1> QED BY <1>2, <1>3, <1>4, Invariance, PTL DEF Spec, AcceptedNameIsCurrent

\* A session is pruned only after the inactivity limit: the one between whose scan and whose
\* removal nothing was done with it.
THEOREM ExpiryIsDue ==
  ASSUME NEW CONSTANT worker, Threads = {worker}
  PROVE  Spec => ExpiredOnlyWhenIdle
<1>1. worker \in Threads
  OBVIOUS
<1>2. ASSUME IInv, PruneInv(worker), [Next]_vars, NEW t \in Threads, NEW i \in Ids,
             pc[t] = "prune", local[t].kind # "shutdown", Live(i), closing'[t] = i
      PROVE  sessions[i].idle >= SessionTTL
  <2>1. closing[t] = NoId /\ t = worker /\ i # NoId
    BY <1>1, <1>2, IdAssumption DEF IInv, ThreadInv
  <2>2. closing' # closing
    BY <1>2, <2>1
  <2>3. Drop(t)
    <3>1. Request(t) \/ Shutdown(t) \/ Serve(t)
      BY <1>1, <1>2, <2>1, <2>2 DEF Next, Tick, Stopped, vars
    <3>2. Drop(t) \/ CloseClient(t) \/ Pop(t)
      BY <2>2, <3>1 DEF Serve, Request, Shutdown, ScanEnd, OpenRefused, OpenCall, OpenAnswer, Register,
         NotFound, ConfirmLoad, ConfirmCall, ConfirmAnswer, FinalizeAnswer, Resume, HandlerAnswer, Mark,
         RetryLoad, RetryCall, GetSession, CancelSession, Return
    <3> QED BY <1>2, <3>2 DEF CloseClient, Pop
  <2>4. i \in doomed[t]
    BY <1>2, <2>1, <2>3 DEF Drop, PopSession, IInv, TypeOK
  <2> QED BY <1>2, <2>1, <2>4 DEF PruneInv
<1>3. IInv /\ PruneInv(worker) /\ [Next]_vars =>
        [\A t \in Threads, i \in Ids :
           /\ pc[t] = "prune" /\ local[t].kind # "shutdown"
           /\ Live(i) /\ closing'[t] = i
           => sessions[i].idle >= SessionTTL]_vars
  BY <1>2
<1> QED BY <1>1, <1>3, PruneInvariance, PTL DEF Spec, ExpiredOnlyWhenIdle

\* GET and DELETE of a session answer 200 or 404: their prune is not disturbed.
THEOREM LookupsSucceed ==
  ASSUME NEW CONSTANT worker, Threads = {worker}
  PROVE  Spec => []SessionLookupReplies
<1>1. IInv /\ PruneInv(worker) => SessionLookupReplies
  BY DEF PruneInv, SessionLookupReplies
<1> QED BY <1>1, PruneInvariance, PTL

=============================================================================
