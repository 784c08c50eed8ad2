------------------------- MODULE SessionStore_proofs -------------------------
(*****************************************************************************)
(* Proofs about SessionStore, for every set of threads, of identifiers and   *)
(* of names, and every inactivity limit.                                     *)
(*****************************************************************************)
EXTENDS SessionProperties, TLAPS

\* Where a thread is determines what its locals hold.
ThreadInv(t) ==
  /\ pc[t] \in {"dropclose", "close"} <=> closing[t] # NoId
  /\ local[t].kind \in {"confirm", "retry", "get", "cancel"} => local[t].id \in Ids
  /\ pc[t] \in {"loaded", "bank", "resume", "mark", "pop"} => local[t].id \in Ids
  /\ pc[t] = "resume" => local[t].kind # "open"
  /\ local[t].kind = "open" =>
       /\ local[t].op \in Operations
       /\ pc[t] = "bank" => call[t].fn = "handler"
       /\ pc[t] = "mark" => plan[t].state \in AwaitingStates

\* The request of thread t has a client that is not yet in SESSIONS.
Opening(t) == local[t].kind = "open" /\ pc[t] \in {"bank", "mark"}

\* A client object is put into SESSIONS once, by the request that made it.
FreshInv ==
  /\ born \subseteq made
  /\ LiveIds \subseteq born
  /\ \A t \in Threads : Opening(t) => local[t].id \in made \ born
  /\ \A t, u \in Threads : Opening(t) /\ Opening(u) /\ local[t].id = local[u].id => t = u

IInv == TypeOK /\ (\A t \in Threads : ThreadInv(t)) /\ FreshInv /\ OneCloser /\ TerminalIsLeaving

-----------------------------------------------------------------------------
(* The operators of ClientFacade yield client objects.                       *)

\* What close() leaves behind is a client object.
LEMMA ClosedClientType == ClosedClient \in Client
BY DEF ClosedClient, Client, OrderName

\* Starting a handler yields a client object.
LEMMA CallingType ==
  ASSUME NEW c \in Client, NEW op, NEW name \in OrderName
  PROVE  Calling(c, op, name) \in Client
BY DEF Calling, Client

\* So does clear_pending_confirmations.
LEMMA ClearPendingType ==
  ASSUME NEW c \in Client
  PROVE  ClearPendingConfirmations(c) \in Client
BY DEF ClearPendingConfirmations, Client, OrderName

\* Whatever a handler's answer was, what it leaves is a client object.
LEMMA AfterHandlerType ==
  ASSUME NEW c \in Client, NEW op, NEW answer, NEW owned \in BOOLEAN,
         NEW d \in AfterHandler(c, op, answer, owned)
  PROVE  d \in Client
<1>1. [c EXCEPT !.tan = TRUE] \in Client /\ [c EXCEPT !.vop = TRUE] \in Client
  BY DEF Client
<1>2. [c EXCEPT !.order = IF op = "transfer" THEN NoName ELSE @] \in Client
  BY DEF Client, OrderName
<1> QED
  BY <1>1, <1>2, ClosedClientType DEF AfterHandler

\* The same for confirm_pending and approve_vop.
LEMMA AfterSubmitType ==
  ASSUME NEW c \in Client, NEW action, NEW answer,
         NEW d \in AfterSubmit(c, action, answer)
  PROVE  d \in Client
<1>1. ASSUME NEW v \in BOOLEAN
      PROVE  [c EXCEPT !.tan = TRUE, !.vop = v] \in Client
  BY DEF Client
<1>2. c.vop \in BOOLEAN
  BY DEF Client
<1>3. [c EXCEPT !.vop = TRUE, !.tan = (action = "approve" /\ @)] \in Client
  BY DEF Client
<1>4. [c EXCEPT !.vop = FALSE, !.tan = (action = "approve" /\ @), !.order = NoName] \in Client
  BY DEF Client, OrderName
<1>5. [c EXCEPT !.vop = FALSE, !.tan = (action = "approve" /\ @)] \in Client
  BY DEF Client
<1> QED
  BY <1>1, <1>2, <1>3, <1>4, <1>5 DEF AfterSubmit

-----------------------------------------------------------------------------
(* The building blocks of the actions keep their variables in their types.   *)

Codes == {0, 200, 202, 400, 404, 409, 422, 500, 502}

\* Moving a thread keeps the type of pc.
LEMMA GotoType ==
  ASSUME TypeOK, NEW t \in Threads, NEW where \in Control, Goto(t, where)
  PROVE  pc' \in [Threads -> Control]
BY DEF TypeOK, Goto

\* Answering a request keeps the types of pc and plan.
LEMMA ReplyType ==
  ASSUME TypeOK, NEW t \in Threads, NEW code \in Codes, Reply(t, code)
  PROVE  pc' \in [Threads -> Control] /\ plan' \in [Threads -> Plan]
<1>1. [NoPlan EXCEPT !.code = code] \in Plan
  BY DEF NoPlan, Plan, Codes, States
<1> QED
  BY <1>1 DEF TypeOK, Reply, Goto, Control

\* Deciding on a state to store keeps the types of pc and plan.
LEMMA DecideType ==
  ASSUME TypeOK, NEW t \in Threads, NEW state \in States, NEW code \in Codes,
         NEW answer, Decide(t, state, code, answer)
  PROVE  pc' \in [Threads -> Control] /\ plan' \in [Threads -> Plan]
<1>1. [state |-> state, code |-> code,
       cause |-> IF answer = "capability" THEN "capability" ELSE "none"] \in Plan
  BY DEF Plan, Codes
<1> QED
  BY <1>1 DEF TypeOK, Decide, Goto, Control

\* Calling a handler keeps the types of the variables it changes.
LEMMA CallHandlerType ==
  ASSUME TypeOK, NEW t \in Threads, NEW i \in Ids, NEW op, NEW name \in OrderName,
         NEW fn \in {"handler", "finalize"}, NEW c \in Client,
         CallHandler(t, i, op, name, fn, c)
  PROVE  /\ client' \in [Ids -> Client]
         /\ call' \in [Threads -> Call]
         /\ pc' \in [Threads -> Control]
<1>1. Calling(c, op, name) \in Client
  BY CallingType
<1>2. OwnsClient(c, op) \in BOOLEAN
  BY DEF OwnsClient
<1>3. [fn |-> fn, owned |-> OwnsClient(c, op), sending |-> name] \in Call
  BY <1>2 DEF Call
<1> QED
  BY <1>1, <1>3 DEF TypeOK, CallHandler, Goto, Control

\* The count of accepted orders stays within its bound.
LEMMA CountAcceptedType ==
  ASSUME TypeOK, NEW i \in Ids, NEW n \in {0, 1}, CountAccepted(i, n)
  PROVE  accepted' \in [Ids -> 0 .. MaxAccepted]
BY BoundAssumption DEF TypeOK, CountAccepted

\* One answer of the bank accepts at most one order.
LEMMA AcceptedByType ==
  ASSUME NEW op, NEW answer
  PROVE  AcceptedBy(op, answer) \subseteq {0, 1}
BY DEF AcceptedBy

\* Storing what a call left in client i keeps the type of client.
LEMMA AnswerClientType ==
  ASSUME TypeOK, NEW i \in Ids, NEW op, NEW answer, NEW owned \in BOOLEAN,
         \E c \in AfterHandler(client[i], op, answer, owned) :
           client' = [client EXCEPT ![i] = c]
  PROVE  client' \in [Ids -> Client]
<1>1. PICK c \in AfterHandler(client[i], op, answer, owned) :
        client' = [client EXCEPT ![i] = c]
  OBVIOUS
<1>2. client[i] \in Client
  BY DEF TypeOK
<1>3. c \in Client
  BY <1>2, AfterHandlerType
<1> QED
  BY <1>1, <1>3 DEF TypeOK

\* Counting what an answer accepted keeps the type of accepted.
LEMMA AnswerAcceptedType ==
  ASSUME TypeOK, NEW i \in Ids, NEW op, NEW answer,
         \E n \in AcceptedBy(op, answer) : CountAccepted(i, n)
  PROVE  accepted' \in [Ids -> 0 .. MaxAccepted]
BY AcceptedByType, CountAcceptedType

\* _mark_session_state turns a session into a session.
LEMMA MarkedType ==
  ASSUME NEW s \in Session, NEW state \in States
  PROVE  Marked(s, state) \in Session
<1>1. 0 \in 0 .. SessionTTL
  BY TTLAssumption
<1> QED
  BY <1>1 DEF Marked, Session

\* Storing a session keeps the type of SESSIONS.
LEMMA StoreType ==
  ASSUME TypeOK, NEW i \in Ids, NEW s, Live(i) => s \in Session, Store(i, s)
  PROVE  sessions' \in [Ids -> Session \cup {Absent}]
BY DEF TypeOK, Store

\* What is found in SESSIONS is a session.
LEMMA LiveType ==
  ASSUME TypeOK, NEW i \in Ids, Live(i)
  PROVE  sessions[i] \in Session
BY DEF TypeOK, Live

\* _close_session keeps the types of what it changes before the client is closed.
LEMMA PopSessionType ==
  ASSUME TypeOK, NEW t \in Threads, NEW i \in Ids,
         NEW closer \in Control, NEW otherwise \in Control,
         PopSession(t, i, closer, otherwise)
  PROVE  /\ sessions' \in [Ids -> Session \cup {Absent}]
         /\ closing' \in [Threads -> Ids \cup {NoId}]
         /\ pc' \in [Threads -> Control]
BY DEF TypeOK, PopSession, Goto

\* The state of a challenge is one of the awaiting states.
LEMMA AwaitingStateType ==
  ASSUME NEW answer \in Challenges
  PROVE  AwaitingState(answer) \in AwaitingStates
BY DEF AwaitingState, AwaitingStates, Challenges

\* Errors are answered with a status code of the API.
LEMMA ErrorCodeType ==
  ASSUME NEW answer
  PROVE  ErrorCode(answer) \in Codes
BY DEF ErrorCode, Codes

-----------------------------------------------------------------------------
(* Type correctness of one step.                                             *)

\* _mark_session_state keeps the type of SESSIONS, session found or not.
LEMMA StoreMarkedType ==
  ASSUME TypeOK, NEW i \in Ids, NEW state \in States, Store(i, Marked(sessions[i], state))
  PROVE  sessions' \in [Ids -> Session \cup {Absent}]
<1>1. Live(i) => Marked(sessions[i], state) \in Session
  BY LiveType, MarkedType
<1> QED
  BY <1>1, StoreType

\* TypeOK is kept by the arrival of a request and by _prune_sessions.
LEMMA PruneTypes ==
  ASSUME TypeOK, NEW t \in Threads, ThreadInv(t),
         Request(t) \/ ScanEnd(t) \/ Drop(t) \/ CloseClient(t)
  PROVE  TypeOK'
<1>1. CASE Request(t)
  <2>1. Requests \subseteq Local
    BY <1>1, ServedAssumption DEF TypeOK, Requests, Local, Kinds, OrderName
  <2>2. local' \in [Threads -> Local]
    BY <1>1, <2>1 DEF TypeOK, Request
  <2>3. Expired \subseteq Ids /\ LiveIds \subseteq Ids
    BY DEF Expired, LiveIds
  <2> QED
    BY <1>1, <2>2, <2>3, GotoType DEF TypeOK, Request, shared, prune, Control
<1>2. CASE ScanEnd(t)
  BY <1>2, GotoType, ReplyType DEF TypeOK, ScanEnd, shared, Control, Codes
<1>3. CASE Drop(t)
  <2>1. PICK i \in doomed[t] :
          /\ doomed' = [doomed EXCEPT ![t] = @ \ {i}]
          /\ PopSession(t, i, "dropclose", "prune")
    BY <1>3 DEF Drop
  <2>2. i \in Ids
    BY DEF TypeOK
  <2> QED
    BY <1>3, <2>1, <2>2, PopSessionType DEF TypeOK, Drop, Control
<1>4. CASE CloseClient(t)
  BY <1>4, ClosedClientType, GotoType DEF TypeOK, CloseClient, prune, Control
<1> QED
  BY <1>1, <1>2, <1>3, <1>4

\* TypeOK is kept by the endpoints that start an operation.
LEMMA OpenTypes ==
  ASSUME TypeOK, NEW t \in Threads, ThreadInv(t),
         OpenRefused(t) \/ OpenCall(t) \/ OpenAnswer(t) \/ Register(t)
  PROVE  TypeOK'
<1>1. CASE OpenRefused(t)
  BY <1>1, ReplyType DEF TypeOK, OpenRefused, shared, prune, Codes
<1>2. CASE OpenCall(t)
  <2>1. PICK i \in Ids \ made :
          /\ made' = made \cup {i}
          /\ local' = [local EXCEPT ![t].id = i]
          /\ CallHandler(t, i, local[t].op, local[t].name, "handler", client[i])
    BY <1>2 DEF OpenCall
  <2>2. local[t].name \in OrderName /\ client[i] \in Client
    BY DEF TypeOK, Local
  <2>3. local' \in [Threads -> Local]
    <3>1. [local[t] EXCEPT !.id = i] \in Local
      <4>1. local[t] \in Local /\ i \in Ids
        BY DEF TypeOK
      <4> QED
        BY ONLY <4>1 DEF Local
    <3>2. local' = [local EXCEPT ![t] = [local[t] EXCEPT !.id = i]]
      BY <2>1
    <3>3. local \in [Threads -> Local]
      BY DEF TypeOK
    <3> QED
      BY ONLY <3>1, <3>2, <3>3
  <2>4. /\ client' \in [Ids -> Client]
        /\ call' \in [Threads -> Call]
        /\ pc' \in [Threads -> Control]
    BY <2>1, <2>2, CallHandlerType
  <2> QED
    BY <1>2, <2>1, <2>3, <2>4 DEF TypeOK, OpenCall, prune
<1>3. CASE OpenAnswer(t)
  <2> DEFINE i == local[t].id
             op == local[t].op
  <2>1. i \in Ids
    BY <1>3 DEF OpenAnswer, ThreadInv
  <2>2. PICK answer \in HandlerAnswers(op) :
          /\ \E c \in AfterHandler(client[i], op, answer, call[t].owned) :
               client' = [client EXCEPT ![i] = c]
          /\ \E n \in AcceptedBy(op, answer) : CountAccepted(i, n)
          /\ IF answer \in Challenges
               THEN Decide(t, AwaitingState(answer), 409, answer)
               ELSE Reply(t, IF answer = "ok" THEN 200 ELSE ErrorCode(answer))
    BY <1>3 DEF OpenAnswer
  <2>3. client[i] \in Client /\ call[t].owned \in BOOLEAN
    BY <2>1 DEF TypeOK, Call
  <2>4. client' \in [Ids -> Client]
    BY <2>1, <2>2, <2>3, AnswerClientType
  <2>5. accepted' \in [Ids -> 0 .. MaxAccepted]
    BY <2>1, <2>2, AnswerAcceptedType
  <2>6. pc' \in [Threads -> Control] /\ plan' \in [Threads -> Plan]
    <3>1. CASE answer \in Challenges
      <4>1. AwaitingState(answer) \in States /\ 409 \in Codes
        BY <3>1, AwaitingStateType DEF States, Codes
      <4> QED
        BY <2>2, <3>1, <4>1, DecideType
    <3>2. CASE answer \notin Challenges
      BY <2>2, <3>2, ErrorCodeType, ReplyType DEF Codes
    <3> QED
      BY <3>1, <3>2
  <2>7. call' \in [Threads -> Call]
    BY <1>3 DEF TypeOK, OpenAnswer, NoCall, Call, OrderName
  <2> QED
    BY <1>3, <2>4, <2>5, <2>6, <2>7 DEF TypeOK, OpenAnswer, prune
<1>4. CASE Register(t)
  <2> DEFINE i == local[t].id
             new == [op |-> local[t].op, state |-> plan[t].state, name |-> local[t].name, idle |-> 0]
  <2>1. i \in Ids /\ local[t].op \in Operations
    BY <1>4 DEF Register, ThreadInv
  <2>2. new \in Session
    BY <2>1, TTLAssumption DEF TypeOK, Session, Local, Plan
  <2>3. sessions' \in [Ids -> Session \cup {Absent}]
    BY <1>4, <2>1, <2>2 DEF TypeOK, Register
  <2> QED
    BY <1>4, <2>1, <2>3, GotoType DEF TypeOK, Register, prune, Control
<1> QED
  BY <1>1, <1>2, <1>3, <1>4

\* TypeOK is kept by /confirm up to the bank's answer to the challenge.
LEMMA ConfirmTypes ==
  ASSUME TypeOK, NEW t \in Threads, ThreadInv(t),
         ConfirmLoad(t) \/ ConfirmCall(t) \/ ConfirmAnswer(t)
  PROVE  TypeOK'
<1> DEFINE i == local[t].id
<1>1. CASE ConfirmLoad(t)
  <2>1. i \in Ids
    BY <1>1 DEF ConfirmLoad, Body, ThreadInv
  <2>2. sessions[i] \in Session
    BY <1>1, <2>1, LiveType DEF ConfirmLoad
  <2>3. [local[t] EXCEPT !.op = sessions[i].op, !.name = sessions[i].name] \in Local
    <3>1. local[t] \in Local
      BY DEF TypeOK
    <3>2. sessions[i].op \in Operations /\ sessions[i].name \in OrderName
      BY <2>2 DEF Session
    <3> QED
      BY <3>1, <3>2 DEF Local
  <2>4. [call[t] EXCEPT !.fn =
           IF sessions[i].state = "awaiting_vop" \/ client[i].vop THEN "approve" ELSE "confirm"]
          \in Call
    BY DEF TypeOK, Call
  <2>5. local' \in [Threads -> Local] /\ call' \in [Threads -> Call]
    BY <1>1, <2>3, <2>4 DEF TypeOK, ConfirmLoad
  <2> QED
    BY <1>1, <2>5, GotoType DEF TypeOK, ConfirmLoad, shared, prune, Control
<1>2. CASE ConfirmCall(t)
  <2>1. i \in Ids
    BY <1>2 DEF ConfirmCall, ThreadInv
  <2>2. sessions' \in [Ids -> Session \cup {Absent}]
    BY <1>2, <2>1, StoreMarkedType DEF ConfirmCall, States
  <2>3. NoCall \in Call /\ [call[t] EXCEPT !.sending = client[i].order] \in Call
    BY <2>1 DEF TypeOK, NoCall, Call, OrderName, Client
  <2>4. call' \in [Threads -> Call]
    BY <1>2, <2>3 DEF TypeOK, ConfirmCall
  <2>5. \/ Reply(t, 400)
        \/ Goto(t, "bank") /\ UNCHANGED plan
        \/ Decide(t, "failed", 502, "error")
    BY <1>2 DEF ConfirmCall
  <2>6. pc' \in [Threads -> Control] /\ plan' \in [Threads -> Plan]
    <3>1. CASE Reply(t, 400)
      BY <3>1, ReplyType DEF Codes
    <3>2. CASE Goto(t, "bank") /\ UNCHANGED plan
      BY <3>2, GotoType DEF TypeOK, Control
    <3>3. CASE Decide(t, "failed", 502, "error")
      BY <3>3, DecideType DEF Codes, States, TerminalStates
    <3> QED
      BY <2>5, <3>1, <3>2, <3>3
  <2> QED
    BY <1>2, <2>2, <2>4, <2>6 DEF TypeOK, ConfirmCall, prune
<1>3. CASE ConfirmAnswer(t)
  <2> DEFINE op == local[t].op
             fn == call[t].fn
             order == client[i].order
  <2>1. i \in Ids
    BY <1>3 DEF ConfirmAnswer, ThreadInv
  <2>2. PICK answer \in SubmitAnswers(op) : \E c \in AfterSubmit(client[i], fn, answer) :
          /\ \E n \in AcceptedBy(op, answer) : CountAccepted(i, n)
          /\ IF answer = "other_result" /\ order # NoName
               THEN /\ CallHandler(t, i, "transfer", order, "finalize", c)
                    /\ UNCHANGED plan
               ELSE /\ client' = [client EXCEPT ![i] = c]
                    /\ call' = [call EXCEPT ![t] = NoCall]
                    /\ CASE answer \in Challenges ->
                              Decide(t, AwaitingState(answer),
                                     IF answer = "decoupled" THEN 202 ELSE 409, answer)
                         [] answer = "transfer_result" /\ order = NoName ->
                              Decide(t, "completed", 200, answer)
                         [] answer = "error" -> Decide(t, "failed", 502, answer)
                         [] OTHER -> Goto(t, "resume") /\ UNCHANGED plan
    BY <1>3 DEF ConfirmAnswer
  <2>3. PICK c \in AfterSubmit(client[i], fn, answer) :
          /\ \E n \in AcceptedBy(op, answer) : CountAccepted(i, n)
          /\ IF answer = "other_result" /\ order # NoName
               THEN /\ CallHandler(t, i, "transfer", order, "finalize", c)
                    /\ UNCHANGED plan
               ELSE /\ client' = [client EXCEPT ![i] = c]
                    /\ call' = [call EXCEPT ![t] = NoCall]
                    /\ \/ \E state \in States, code \in Codes : Decide(t, state, code, answer)
                       \/ Goto(t, "resume") /\ UNCHANGED plan
    <3>1. answer \in Challenges => AwaitingState(answer) \in States
      BY AwaitingStateType DEF States
    <3>2. {"completed", "failed"} \subseteq States /\ {200, 202, 409, 502} \subseteq Codes
      BY DEF States, TerminalStates, Codes
    <3> QED
      BY <2>2, <3>1, <3>2
  <2>4. client[i] \in Client /\ c \in Client /\ order \in OrderName
    <3>1. client[i] \in Client
      BY <2>1 DEF TypeOK
    <3> QED
      BY <3>1, AfterSubmitType DEF Client
  <2>5. accepted' \in [Ids -> 0 .. MaxAccepted]
    BY <2>1, <2>3, AnswerAcceptedType
  <2>6. /\ client' \in [Ids -> Client]
        /\ call' \in [Threads -> Call]
        /\ pc' \in [Threads -> Control]
        /\ plan' \in [Threads -> Plan]
    <3>1. CASE answer = "other_result" /\ order # NoName
      <4>1. CallHandler(t, i, "transfer", order, "finalize", c) /\ plan' = plan
        BY <2>3, <3>1
      <4> QED
        BY <2>1, <2>4, <4>1, CallHandlerType DEF TypeOK
    <3>2. CASE ~(answer = "other_result" /\ order # NoName)
      <4>1. client' \in [Ids -> Client] /\ call' \in [Threads -> Call]
        <5>1. client' = [client EXCEPT ![i] = c] /\ call' = [call EXCEPT ![t] = NoCall]
          BY <2>3, <3>2
        <5>2. NoCall \in Call
          BY DEF NoCall, Call, OrderName
        <5> QED
          BY <2>4, <5>1, <5>2 DEF TypeOK
      <4>2. CASE \E state \in States, code \in Codes : Decide(t, state, code, answer)
        BY <4>1, <4>2, DecideType
      <4>3. CASE Goto(t, "resume") /\ UNCHANGED plan
        BY <4>1, <4>3, GotoType DEF TypeOK, Control
      <4> QED
        BY <2>3, <3>2, <4>2, <4>3
    <3> QED
      BY <3>1, <3>2
  <2> QED
    BY <1>3, <2>5, <2>6 DEF TypeOK, ConfirmAnswer, prune
<1> QED
  BY <1>1, <1>2, <1>3

\* After an answer the thread stores a decision or runs the operation again.
LEMMA DecisionTypes ==
  ASSUME TypeOK, NEW t \in Threads, NEW answer,
         \/ \E state \in States, code \in Codes : Decide(t, state, code, answer)
         \/ Goto(t, "resume") /\ UNCHANGED plan
  PROVE  pc' \in [Threads -> Control] /\ plan' \in [Threads -> Plan]
<1>1. CASE \E state \in States, code \in Codes : Decide(t, state, code, answer)
  BY <1>1, DecideType
<1>2. CASE Goto(t, "resume") /\ UNCHANGED plan
  BY <1>2, GotoType DEF TypeOK, Control
<1> QED
  BY <1>1, <1>2

\* Ending a bank call keeps the type of call.
LEMMA NoCallType ==
  ASSUME TypeOK, NEW t \in Threads, call' = [call EXCEPT ![t] = NoCall]
  PROVE  call' \in [Threads -> Call]
<1>1. NoCall \in Call
  BY DEF NoCall, Call, OrderName
<1> QED
  BY <1>1 DEF TypeOK

\* TypeOK is kept when an operation is run again and when it answers.
LEMMA ResumeTypes ==
  ASSUME TypeOK, NEW t \in Threads, ThreadInv(t),
         FinalizeAnswer(t) \/ Resume(t) \/ HandlerAnswer(t) \/ Mark(t) \/ Pop(t)
  PROVE  TypeOK'
<1> DEFINE i == local[t].id
           op == local[t].op
<1>1. CASE FinalizeAnswer(t)
  <2>1. i \in Ids /\ call[t].owned \in BOOLEAN
    BY <1>1 DEF TypeOK, FinalizeAnswer, ThreadInv, Call
  <2>2. PICK answer \in HandlerAnswers("transfer") :
          /\ \E c \in AfterHandler(client[i], "transfer", answer, call[t].owned) :
               client' = [client EXCEPT ![i] = c]
          /\ \E n \in AcceptedBy("transfer", answer) : CountAccepted(i, n)
          /\ CASE answer \in Challenges ->
                    Decide(t, AwaitingState(answer),
                           IF answer = "decoupled" THEN 202 ELSE 409, answer)
               [] answer = "ok" -> Goto(t, "resume") /\ UNCHANGED plan
               [] answer = "capability" -> Decide(t, "failed", 422, answer)
               [] OTHER -> Decide(t, "failed", 502, answer)
    BY <1>1 DEF FinalizeAnswer
  <2>3. client' \in [Ids -> Client] /\ accepted' \in [Ids -> 0 .. MaxAccepted]
    BY <2>1, <2>2, AnswerClientType, AnswerAcceptedType
  <2>4. \/ \E state \in States, code \in Codes : Decide(t, state, code, answer)
        \/ Goto(t, "resume") /\ UNCHANGED plan
    <3>1. answer \in Challenges => AwaitingState(answer) \in States
      BY AwaitingStateType DEF States
    <3>2. "failed" \in States /\ {202, 409, 422, 502} \subseteq Codes
      BY DEF States, TerminalStates, Codes
    <3> QED
      BY <2>2, <3>1, <3>2
  <2>5. pc' \in [Threads -> Control] /\ plan' \in [Threads -> Plan]
    BY <2>4, DecisionTypes
  <2> QED
    BY <1>1, <2>3, <2>5, NoCallType DEF TypeOK, FinalizeAnswer, prune
<1>2. CASE Resume(t)
  <2>1. i \in Ids
    BY <1>2 DEF Resume, ThreadInv
  <2>2. sessions' \in [Ids -> Session \cup {Absent}]
    BY <1>2, <2>1, StoreMarkedType DEF Resume, States
  <2>3. local[t].name \in OrderName /\ client[i] \in Client
    BY <2>1 DEF TypeOK, Local
  <2>4. CallHandler(t, i, op, local[t].name, "handler", client[i])
    BY <1>2 DEF Resume
  <2>5. /\ client' \in [Ids -> Client]
        /\ call' \in [Threads -> Call]
        /\ pc' \in [Threads -> Control]
    BY <2>1, <2>3, <2>4, CallHandlerType
  <2> QED
    BY <1>2, <2>2, <2>5 DEF TypeOK, Resume, prune
<1>3. CASE HandlerAnswer(t)
  <2>1. i \in Ids /\ call[t].owned \in BOOLEAN
    BY <1>3 DEF TypeOK, HandlerAnswer, ThreadInv, Call
  <2>2. PICK answer \in HandlerAnswers(op) :
          /\ \E c \in AfterHandler(client[i], op, answer, call[t].owned) :
               client' = [client EXCEPT ![i] = c]
          /\ \E n \in AcceptedBy(op, answer) : CountAccepted(i, n)
          /\ CASE answer \in Challenges -> Decide(t, AwaitingState(answer), 409, answer)
               [] answer = "ok" -> Decide(t, "completed", 200, answer)
               [] answer = "raised" -> Reply(t, 500)
               [] answer = "capability" /\ ~(local[t].kind = "retry") ->
                    Decide(t, "failed", 502, answer)
               [] OTHER -> Decide(t, "failed", ErrorCode(answer), answer)
    BY <1>3 DEF HandlerAnswer
  <2>6. client' \in [Ids -> Client]
    <3>1. \E c \in AfterHandler(client[i], op, answer, call[t].owned) : client' = [client EXCEPT ![i] = c]
      BY <2>2
    <3> QED
      BY <2>1, <3>1, AnswerClientType
  <2>7. accepted' \in [Ids -> 0 .. MaxAccepted]
    BY <2>1, <2>2, AnswerAcceptedType
  <2>4. \/ \E state \in States, code \in Codes : Decide(t, state, code, answer)
        \/ Reply(t, 500)
    <3>1. answer \in Challenges => AwaitingState(answer) \in States
      BY AwaitingStateType DEF States
    <3>2. {"completed", "failed"} \subseteq States /\ {200, 409, 502} \subseteq Codes
      BY DEF States, TerminalStates, Codes
    <3>3. ErrorCode(answer) \in Codes
      BY ErrorCodeType
    <3> QED
      BY <2>2, <3>1, <3>2, <3>3
  <2>5. pc' \in [Threads -> Control] /\ plan' \in [Threads -> Plan]
    <3>1. 500 \in Codes
      BY DEF Codes
    <3> QED
      BY <2>4, <3>1, DecisionTypes, ReplyType
  <2> QED
    BY <1>3, <2>5, <2>6, <2>7, NoCallType DEF TypeOK, HandlerAnswer, prune
<1>4. CASE Mark(t)
  <2>1. i \in Ids /\ plan[t].state \in States
    BY <1>4 DEF TypeOK, Mark, ThreadInv, Plan
  <2>2. sessions' \in [Ids -> Session \cup {Absent}]
    BY <1>4, <2>1, StoreMarkedType DEF Mark
  <2> QED
    BY <1>4, <2>2, GotoType DEF TypeOK, Mark, prune, Control
<1>5. CASE Pop(t)
  <2>1. i \in Ids
    BY <1>5 DEF Pop, ThreadInv
  <2> QED
    BY <1>5, <2>1, PopSessionType DEF TypeOK, Pop, prune, Control
<1> QED
  BY <1>1, <1>2, <1>3, <1>4, <1>5

\* TypeOK is kept by retry, look-up, cancel, shutdown and the end of a request.
LEMMA OtherTypes ==
  ASSUME TypeOK, NEW t \in Threads, ThreadInv(t),
         \/ \E kind \in {"confirm", "retry", "get", "cancel"} : NotFound(t, kind)
         \/ RetryLoad(t) \/ RetryCall(t) \/ GetSession(t) \/ CancelSession(t)
         \/ Shutdown(t) \/ Return(t)
  PROVE  TypeOK'
<1> DEFINE i == local[t].id
<1>0. NoLocal \in Local /\ NoPlan \in Plan
  BY DEF NoLocal, NoPlan, Local, Plan, Kinds, OrderName, States
<1>1. CASE \E kind \in {"confirm", "retry", "get", "cancel"} : NotFound(t, kind)
  BY <1>1, ReplyType DEF TypeOK, NotFound, shared, prune, Codes
<1>2. CASE RetryLoad(t)
  <2>1. [local[t] EXCEPT !.op = "transfer"] \in Local
    BY DEF TypeOK, Local, Operations
  <2>2. local' \in [Threads -> Local]
    BY <1>2, <2>1 DEF TypeOK, RetryLoad
  <2>3. (Goto(t, "loaded") /\ UNCHANGED plan) \/ Reply(t, 400)
    BY <1>2 DEF RetryLoad
  <2>4. pc' \in [Threads -> Control] /\ plan' \in [Threads -> Plan]
    BY <2>3, GotoType, ReplyType DEF TypeOK, Control, Codes
  <2> QED
    BY <1>2, <2>2, <2>4 DEF TypeOK, RetryLoad, shared, prune
<1>3. CASE RetryCall(t)
  <2>1. i \in Ids /\ local[t].name \in OrderName /\ client[i] \in Client
    BY <1>3 DEF TypeOK, RetryCall, ThreadInv, Local
  <2>2. Live(i) => [Marked(sessions[i], "running") EXCEPT !.name = local[t].name] \in Session
    <3>1. Live(i) => Marked(sessions[i], "running") \in Session
      BY <2>1, LiveType, MarkedType DEF States
    <3> QED
      BY <2>1, <3>1 DEF Session
  <2>3. sessions' \in [Ids -> Session \cup {Absent}]
    BY <1>3, <2>1, <2>2, StoreType DEF RetryCall
  <2>4. CallHandler(t, i, "transfer", local[t].name, "handler",
                    ClearPendingConfirmations(client[i]))
    BY <1>3 DEF RetryCall
  <2>5. ClearPendingConfirmations(client[i]) \in Client
    BY <2>1, ClearPendingType
  <2>6. /\ client' \in [Ids -> Client]
        /\ call' \in [Threads -> Call]
        /\ pc' \in [Threads -> Control]
    BY <2>1, <2>4, <2>5, CallHandlerType
  <2> QED
    BY <1>3, <2>3, <2>6 DEF TypeOK, RetryCall, prune
<1>4. CASE GetSession(t)
  BY <1>4, ReplyType DEF TypeOK, GetSession, shared, prune, Codes
<1>5. CASE CancelSession(t)
  <2>1. [NoPlan EXCEPT !.code = 200] \in Plan
    BY DEF NoPlan, Plan, States
  <2> QED
    BY <1>5, <2>1, GotoType DEF TypeOK, CancelSession, shared, prune, Control
<1>6. CASE Shutdown(t)
  <2>1. [NoLocal EXCEPT !.kind = "shutdown"] \in Local
    BY DEF NoLocal, Local, Kinds, OrderName
  <2>2. LiveIds \subseteq Ids
    BY DEF LiveIds
  <2> QED
    BY <1>6, <2>1, <2>2, GotoType DEF TypeOK, Shutdown, shared, Control
<1>7. CASE Return(t)
  BY <1>0, <1>7, GotoType DEF TypeOK, Return, shared, prune, Control
<1> QED
  BY <1>1, <1>2, <1>3, <1>4, <1>5, <1>6, <1>7

\* TypeOK is kept by the passing of time.
LEMMA TickType ==
  ASSUME TypeOK, Tick
  PROVE  TypeOK'
<1>1. ASSUME NEW i \in Ids, Live(i), sessions[i].idle < SessionTTL
      PROVE  [sessions[i] EXCEPT !.idle = @ + 1] \in Session
  <2>1. sessions[i] \in Session
    BY <1>1, LiveType
  <2>2. sessions[i].idle + 1 \in 0 .. SessionTTL
    BY <1>1, <2>1, TTLAssumption DEF Session
  <2> QED
    BY <2>1, <2>2 DEF Session
<1> QED
  BY <1>1 DEF TypeOK, Tick, prune

\* TypeOK is kept by every step.
LEMMA TypeStep ==
  ASSUME TypeOK, \A t \in Threads : ThreadInv(t), [Next]_vars
  PROVE  TypeOK'
<1>1. CASE \E t \in Threads : Request(t) \/ Serve(t) \/ Shutdown(t)
  BY <1>1, PruneTypes, OpenTypes, ConfirmTypes, ResumeTypes, OtherTypes DEF Serve
<1>2. CASE Tick
  BY <1>2, TickType
<1>3. CASE UNCHANGED vars
  BY <1>3 DEF TypeOK, vars, shared, prune
<1> QED
  BY <1>1, <1>2, <1>3 DEF Next, Stopped

-----------------------------------------------------------------------------
(* A thread's step leaves the locals of the other threads alone.             *)

SameThread(u) ==
  /\ pc'[u] = pc[u] /\ local'[u] = local[u] /\ closing'[u] = closing[u]
  /\ call'[u] = call[u] /\ plan'[u] = plan[u]

\* A step of thread t changes nothing that belongs to another thread.
LEMMA Frame ==
  ASSUME TypeOK, NEW t \in Threads, Request(t) \/ Serve(t) \/ Shutdown(t),
         NEW u \in Threads, u # t
  PROVE  SameThread(u)
<1> USE DEF TypeOK, SameThread, Goto, Reply, Decide, CallHandler, PopSession
<1>1. CASE Request(t) \/ ScanEnd(t) \/ Drop(t) \/ CloseClient(t)
  BY <1>1 DEF Request, ScanEnd, Drop, CloseClient
<1>2. CASE OpenRefused(t) \/ OpenCall(t) \/ OpenAnswer(t) \/ Register(t)
  BY <1>2 DEF OpenRefused, OpenCall, OpenAnswer, Register
<1>3. CASE ConfirmLoad(t) \/ ConfirmCall(t) \/ FinalizeAnswer(t) \/ Resume(t)
  BY <1>3 DEF ConfirmLoad, ConfirmCall, FinalizeAnswer, Resume
<1>4. CASE ConfirmAnswer(t)
  BY <1>4 DEF ConfirmAnswer
<1>5. CASE HandlerAnswer(t) \/ Mark(t) \/ Pop(t)
  BY <1>5 DEF HandlerAnswer, Mark, Pop
<1>6. CASE RetryLoad(t) \/ RetryCall(t) \/ GetSession(t) \/ CancelSession(t)
  BY <1>6 DEF RetryLoad, RetryCall, GetSession, CancelSession
<1>7. CASE (\E kind \in {"confirm", "retry", "get", "cancel"} : NotFound(t, kind))
           \/ Shutdown(t) \/ Return(t)
  BY <1>7 DEF NotFound, Shutdown, Return
<1> QED
  BY <1>1, <1>2, <1>3, <1>4, <1>5, <1>6, <1>7 DEF Serve

\* A step of thread t keeps ThreadInv for t itself.
LEMMA ThreadInvOwn ==
  ASSUME TypeOK, NEW t \in Threads, ThreadInv(t), Request(t) \/ Serve(t) \/ Shutdown(t)
  PROVE  ThreadInv(t)'
<1> USE DEF TypeOK, ThreadInv, Goto
<1>1. CASE Request(t)
  <2>1. PICK r \in Requests : local' = [local EXCEPT ![t] = r]
    BY <1>1 DEF Request
  <2>2. /\ r.kind \in {"confirm", "retry", "get", "cancel"} => r.id \in Ids
        /\ r.kind = "open" => r.op \in Operations
    BY ServedAssumption DEF Requests
  <2>3. pc'[t] \in {"prune", "scan"} /\ closing'[t] = closing[t] /\ local'[t] = r
    BY <1>1, <2>1 DEF Request
  <2>4. closing[t] = NoId
    BY <1>1 DEF Request
  <2> QED
    BY <2>2, <2>3, <2>4
<1>2. CASE ScanEnd(t)
  BY <1>2 DEF ScanEnd, Reply
<1>3. CASE Drop(t)
  BY <1>3, IdAssumption DEF Drop, PopSession
<1>4. CASE CloseClient(t)
  BY <1>4 DEF CloseClient
<1>5. CASE OpenRefused(t) \/ Register(t)
  BY <1>5 DEF OpenRefused, Body, Reply, Register
<1>6. CASE OpenCall(t)
  <2>1. PICK i \in Ids \ made :
          /\ local' = [local EXCEPT ![t].id = i]
          /\ CallHandler(t, i, local[t].op, local[t].name, "handler", client[i])
    BY <1>6 DEF OpenCall
  <2>2. local'[t] = [local[t] EXCEPT !.id = i] /\ local[t] \in Local
    BY <2>1
  <2>3. local'[t].kind = "open" /\ local'[t].id = i /\ local'[t].op = local[t].op
    BY <1>6, <2>2 DEF OpenCall, Body, Local
  <2>4. pc'[t] = "bank" /\ call'[t].fn = "handler"
    BY <2>1 DEF CallHandler
  <2>5. closing'[t] = NoId
    BY <1>6 DEF OpenCall, Body
  <2> QED
    BY <1>6, <2>3, <2>4, <2>5 DEF OpenCall, Body
<1>7. CASE OpenAnswer(t)
  <2>1. PICK answer \in HandlerAnswers(local[t].op) :
          IF answer \in Challenges
            THEN Decide(t, AwaitingState(answer), 409, answer)
            ELSE Reply(t, IF answer = "ok" THEN 200 ELSE ErrorCode(answer))
    BY <1>7 DEF OpenAnswer
  <2>2. \/ pc'[t] = "mark" /\ plan'[t].state \in AwaitingStates
        \/ pc'[t] = "done"
    BY <2>1, AwaitingStateType DEF Decide, Reply
  <2> QED
    BY <1>7, <2>2 DEF OpenAnswer
<1>8. CASE ConfirmLoad(t)
  <2>1. local'[t] = [local[t] EXCEPT !.op = sessions[local[t].id].op,
                                     !.name = sessions[local[t].id].name]
    BY <1>8 DEF ConfirmLoad
  <2>2. local'[t].kind = "confirm" /\ local'[t].id = local[t].id
    BY <1>8, <2>1 DEF ConfirmLoad, Body, Local
  <2> QED
    BY <1>8, <2>2 DEF ConfirmLoad, Body
<1>9. CASE ConfirmCall(t)
  BY <1>9 DEF ConfirmCall, Reply, Decide
<1>10. CASE ConfirmAnswer(t)
  <2>1. pc'[t] \in {"bank", "mark", "resume"}
    BY <1>10 DEF ConfirmAnswer, CallHandler, Decide
  <2>2. local[t].kind # "open"
    BY <1>10 DEF ConfirmAnswer
  <2> QED
    BY <1>10, <2>1, <2>2 DEF ConfirmAnswer
<1>11. CASE FinalizeAnswer(t)
  <2>1. pc'[t] \in {"mark", "resume"}
    BY <1>11 DEF FinalizeAnswer, Decide
  <2>2. local[t].kind # "open"
    BY <1>11 DEF FinalizeAnswer
  <2> QED
    BY <1>11, <2>1, <2>2 DEF FinalizeAnswer
<1>12. CASE Resume(t)
  BY <1>12 DEF Resume, CallHandler
<1>13. CASE HandlerAnswer(t)
  <2>1. pc'[t] \in {"mark", "done"}
    BY <1>13 DEF HandlerAnswer, Decide, Reply
  <2> QED
    BY <1>13, <2>1 DEF HandlerAnswer
<1>14. CASE Mark(t)
  BY <1>14 DEF Mark
<1>15. CASE Pop(t)
  BY <1>15, IdAssumption DEF Pop, PopSession
<1>16. CASE \E kind \in {"confirm", "retry", "get", "cancel"} : NotFound(t, kind)
  BY <1>16 DEF NotFound, Body, Reply
<1>17. CASE RetryLoad(t)
  <2>1. local'[t].kind = "retry" /\ local'[t].id = local[t].id
    BY <1>17 DEF RetryLoad, Body, Local
  <2> QED
    BY <1>17, <2>1 DEF RetryLoad, Body, Reply
<1>18. CASE RetryCall(t)
  BY <1>18 DEF RetryCall, CallHandler
<1>19. CASE GetSession(t) \/ CancelSession(t)
  BY <1>19 DEF GetSession, CancelSession, Body, Reply
<1>20. CASE Shutdown(t)
  <2>1. local'[t].kind = "shutdown"
    BY <1>20 DEF Shutdown, NoLocal
  <2> QED
    BY <1>20, <2>1 DEF Shutdown
<1>21. CASE Return(t)
  <2>1. local'[t].kind = "none"
    BY <1>21 DEF Return, NoLocal
  <2> QED
    BY <1>21, <2>1 DEF Return, Body
<1> QED
  BY <1>1, <1>2, <1>3, <1>4, <1>5, <1>6, <1>7, <1>8, <1>9, <1>10, <1>11, <1>12, <1>13,
     <1>14, <1>15, <1>16, <1>17, <1>18, <1>19, <1>20, <1>21 DEF Serve

\* ThreadInv is kept for every thread by every step.
LEMMA ThreadInvStep ==
  ASSUME TypeOK, \A t \in Threads : ThreadInv(t), [Next]_vars, NEW u \in Threads
  PROVE  ThreadInv(u)'
<1>1. ASSUME NEW t \in Threads, Request(t) \/ Serve(t) \/ Shutdown(t)
      PROVE  ThreadInv(u)'
  <2>1. CASE u = t
    BY <1>1, <2>1, ThreadInvOwn
  <2>2. CASE u # t
    BY <1>1, <2>2, Frame DEF SameThread, ThreadInv
  <2> QED
    BY <2>1, <2>2
<1>2. CASE Tick \/ UNCHANGED vars
  BY <1>2 DEF Tick, vars, ThreadInv
<1> QED
  BY <1>1, <1>2 DEF Next, Stopped

-----------------------------------------------------------------------------
(* What a step can do to the registry: a thread makes a client, registers    *)
(* it, withdraws a session, closes a withdrawn client, or does none of these. *)

Makes(t) == \E i \in Ids \ made :
  /\ made' = made \cup {i}
  /\ sessions' = sessions /\ born' = born /\ closing' = closing
  /\ Opening(t)' /\ local'[t].id = i

Registers(t) ==
  LET i == local[t].id
  IN
  /\ i \in Ids /\ Opening(t) /\ ~Opening(t)'
  /\ \A j \in Ids : Live(j)' <=> (j = i \/ Live(j))
  /\ born' = born \cup {i} /\ made' = made /\ closing' = closing

Withdraws(t) == \E i \in Ids :
  /\ Live(i) /\ sessions' = [sessions EXCEPT ![i] = Absent]
  /\ closing[t] = NoId /\ closing' = [closing EXCEPT ![t] = i]
  /\ born' = born /\ made' = made /\ ~Opening(t)'

Closes(t) ==
  /\ closing[t] # NoId /\ closing' = [closing EXCEPT ![t] = NoId]
  /\ sessions' = sessions /\ born' = born /\ made' = made /\ ~Opening(t)'

KeepsRegistry ==
  /\ \A i \in Ids : Live(i)' <=> Live(i)
  /\ born' = born /\ made' = made /\ closing' = closing

\* The thread's request still has the same unregistered client, or none.
KeepsOpening(t) == Opening(t)' => Opening(t) /\ local'[t].id = local[t].id

\* Storing a session under i neither adds nor removes a key of SESSIONS.
LEMMA StoreKeepsLive ==
  ASSUME TypeOK, NEW i \in Ids, NEW s, Live(i) => s \in Session, Store(i, s), NEW j \in Ids
  PROVE  Live(j)' <=> Live(j)
BY AbsentAssumption DEF TypeOK, Store, Live

\* Nor does _mark_session_state.
LEMMA StoreMarkedKeepsLive ==
  ASSUME TypeOK, NEW i \in Ids, NEW state \in States, Store(i, Marked(sessions[i], state)),
         NEW j \in Ids
  PROVE  Live(j)' <=> Live(j)
<1>1. Live(i) => Marked(sessions[i], state) \in Session
  BY LiveType, MarkedType
<1> QED
  BY <1>1, StoreKeepsLive

\* What one thread's step may do to the keys of SESSIONS and to born and made.
LEMMA RegistryStep ==
  ASSUME TypeOK, NEW t \in Threads, ThreadInv(t), Request(t) \/ Serve(t) \/ Shutdown(t)
  PROVE  \/ Makes(t) \/ Registers(t) \/ Withdraws(t) \/ Closes(t)
         \/ KeepsRegistry /\ KeepsOpening(t)
<1> DEFINE i == local[t].id
<1> USE DEF ThreadInv, TypeOK
<1>1. CASE Request(t) \/ ScanEnd(t)
  BY <1>1 DEF Request, ScanEnd, shared, Live, KeepsRegistry, KeepsOpening, Opening, Goto, Reply
<1>2. CASE Drop(t)
  <2>1. PICK d \in doomed[t] : PopSession(t, d, "dropclose", "prune")
    BY <1>2 DEF Drop
  <2>2. d \in Ids /\ closing[t] = NoId
    BY <1>2 DEF Drop
  <2>3. ~Opening(t)'
    BY <1>2, <2>1 DEF Drop, PopSession, Goto, Opening
  <2> QED
    BY <1>2, <2>1, <2>2, <2>3
    DEF Drop, PopSession, Withdraws, KeepsRegistry, KeepsOpening, Live
<1>3. CASE CloseClient(t)
  BY <1>3 DEF CloseClient, Closes, Goto, Opening
<1>4. CASE OpenCall(t)
  <2>1. PICK j \in Ids \ made :
          /\ made' = made \cup {j}
          /\ local' = [local EXCEPT ![t].id = j]
          /\ CallHandler(t, j, local[t].op, local[t].name, "handler", client[j])
    BY <1>4 DEF OpenCall
  <2>2. local'[t] = [local[t] EXCEPT !.id = j] /\ local[t] \in Local
    BY <2>1
  <2>3. local'[t].kind = "open" /\ local'[t].id = j
    BY <1>4, <2>2 DEF OpenCall, Body, Local
  <2>4. pc'[t] = "bank"
    BY <2>1 DEF CallHandler, Goto
  <2> QED
    BY <1>4, <2>1, <2>3, <2>4 DEF OpenCall, Makes, Opening
<1>5. CASE OpenRefused(t) \/ OpenAnswer(t)
  BY <1>5 DEF OpenRefused, OpenAnswer, Body, shared, Live, KeepsRegistry, KeepsOpening, Opening,
     Goto, Reply, Decide
<1>6. CASE Register(t)
  <2>1. i \in Ids /\ Opening(t)
    BY <1>6 DEF Register, Opening
  <2>2. ~Opening(t)'
    BY <1>6 DEF Register, Goto, Opening
  <2>3. [op |-> local[t].op, state |-> plan[t].state, name |-> local[t].name, idle |-> 0]
          \in Session
    BY <1>6, TTLAssumption DEF Register, Session, Local, Plan
  <2>4. \A j \in Ids : Live(j)' <=> (j = i \/ Live(j))
    BY <1>6, <2>1, <2>3, AbsentAssumption DEF Register, Live
  <2> QED
    BY <1>6, <2>1, <2>2, <2>4 DEF Register, Registers
<1>7. CASE ConfirmLoad(t) \/ RetryLoad(t)
  BY <1>7 DEF ConfirmLoad, RetryLoad, Body, shared, Live, KeepsRegistry, KeepsOpening, Opening,
     Goto, Reply
<1>8. CASE ConfirmCall(t)
  <2>1. \A j \in Ids : Live(j)' <=> Live(j)
    BY <1>8, StoreMarkedKeepsLive DEF ConfirmCall, States
  <2> QED
    BY <1>8, <2>1 DEF ConfirmCall, KeepsRegistry, KeepsOpening, Opening
<1>9. CASE ConfirmAnswer(t) \/ FinalizeAnswer(t)
  BY <1>9 DEF ConfirmAnswer, FinalizeAnswer, Live, KeepsRegistry, KeepsOpening, Opening
<1>10. CASE Resume(t)
  <2>1. \A j \in Ids : Live(j)' <=> Live(j)
    BY <1>10, StoreMarkedKeepsLive DEF Resume, States
  <2> QED
    BY <1>10, <2>1 DEF Resume, KeepsRegistry, KeepsOpening, Opening
<1>11. CASE HandlerAnswer(t)
  BY <1>11 DEF HandlerAnswer, Live, KeepsRegistry, KeepsOpening, Opening
<1>12. CASE Mark(t)
  <2>1. i \in Ids /\ plan[t].state \in States
    BY <1>12 DEF Mark, Plan
  <2>2. \A j \in Ids : Live(j)' <=> Live(j)
    BY <1>12, <2>1, StoreMarkedKeepsLive DEF Mark
  <2> QED
    BY <1>12, <2>2 DEF Mark, KeepsRegistry, KeepsOpening, Opening
<1>13. CASE Pop(t)
  <2>1. i \in Ids /\ closing[t] = NoId /\ ~Opening(t)'
    BY <1>13 DEF Pop, PopSession, Goto, Opening
  <2> QED
    BY <1>13, <2>1 DEF Pop, PopSession, Withdraws, KeepsRegistry, KeepsOpening, Live
<1>14. CASE (\E kind \in {"confirm", "retry", "get", "cancel"} : NotFound(t, kind))
            \/ GetSession(t) \/ CancelSession(t)
  BY <1>14 DEF NotFound, GetSession, CancelSession, shared, Live, KeepsRegistry, KeepsOpening,
     Opening, Goto, Reply
<1>15. CASE RetryCall(t)
  <2>1. i \in Ids
    BY <1>15 DEF RetryCall
  <2>2. Live(i) => [Marked(sessions[i], "running") EXCEPT !.name = local[t].name] \in Session
    <3>1. Live(i) => Marked(sessions[i], "running") \in Session
      BY <2>1, LiveType, MarkedType DEF States
    <3>2. local[t].name \in OrderName
      BY DEF Local
    <3> QED
      BY <3>1, <3>2 DEF Session
  <2>3. \A j \in Ids : Live(j)' <=> Live(j)
    BY <1>15, <2>1, <2>2, StoreKeepsLive DEF RetryCall
  <2> QED
    BY <1>15, <2>3 DEF RetryCall, KeepsRegistry, KeepsOpening, Opening
<1>16. CASE Shutdown(t) \/ Return(t)
  BY <1>16 DEF Shutdown, Return, shared, Live, KeepsRegistry, KeepsOpening, Opening, Goto
<1> QED
  BY <1>1, <1>2, <1>3, <1>4, <1>5, <1>6, <1>7, <1>8, <1>9, <1>10, <1>11, <1>12, <1>13,
     <1>14, <1>15, <1>16 DEF Serve

\* The passing of time changes no key of SESSIONS.
LEMMA TickKeepsRegistry ==
  ASSUME TypeOK, Tick
  PROVE  KeepsRegistry
<1>1. ASSUME NEW i \in Ids, Live(i), sessions[i].idle < SessionTTL
      PROVE  [sessions[i] EXCEPT !.idle = @ + 1] # Absent
  <2>1. sessions[i] \in Session
    BY <1>1, LiveType
  <2>2. sessions[i].idle + 1 \in 0 .. SessionTTL
    BY <1>1, <2>1, TTLAssumption DEF Session
  <2>3. [sessions[i] EXCEPT !.idle = @ + 1] \in Session
    BY <2>1, <2>2 DEF Session
  <2> QED
    BY <2>3, AbsentAssumption
<1> QED
  BY <1>1 DEF Tick, KeepsRegistry, Live

-----------------------------------------------------------------------------
(* The invariants are preserved.                                             *)

\* Every step is a step of one thread, or leaves registry and threads alone.
LEMMA StepCases ==
  ASSUME IInv, [Next]_vars
  PROVE  \/ \E t \in Threads :
              /\ \A u \in Threads : u # t => SameThread(u)
              /\ \/ Makes(t) \/ Registers(t) \/ Withdraws(t) \/ Closes(t)
                 \/ KeepsRegistry /\ KeepsOpening(t)
         \/ KeepsRegistry /\ \A t \in Threads : SameThread(t)
<1>1. ASSUME NEW t \in Threads, Request(t) \/ Serve(t) \/ Shutdown(t)
      PROVE  /\ \A u \in Threads : u # t => SameThread(u)
             /\ \/ Makes(t) \/ Registers(t) \/ Withdraws(t) \/ Closes(t)
                \/ KeepsRegistry /\ KeepsOpening(t)
  BY <1>1, Frame, RegistryStep DEF IInv
<1>2. CASE Tick
  BY <1>2, TickKeepsRegistry DEF IInv, Tick, SameThread
<1>3. CASE UNCHANGED vars
  BY <1>3 DEF vars, shared, KeepsRegistry, Live, SameThread
<1> QED
  BY <1>1, <1>2, <1>3 DEF Next, Stopped

\* FreshInv is kept by every step.
LEMMA FreshStep ==
  ASSUME IInv, [Next]_vars
  PROVE  FreshInv'
<1> USE DEF IInv, FreshInv, LiveIds
<1>1. CASE KeepsRegistry /\ \A t \in Threads : SameThread(t)
  BY <1>1 DEF KeepsRegistry, SameThread, Opening
<1>2. ASSUME NEW t \in Threads, \A u \in Threads : u # t => SameThread(u),
             \/ Makes(t) \/ Registers(t) \/ Withdraws(t) \/ Closes(t)
             \/ KeepsRegistry /\ KeepsOpening(t)
      PROVE  FreshInv'
  <2>1. \A u \in Threads : u # t => (Opening(u)' <=> Opening(u)) /\ local'[u].id = local[u].id
    BY <1>2 DEF SameThread, Opening
  <2>2. CASE Makes(t)
    BY <2>1, <2>2 DEF Makes, Live
  <2>3. CASE Registers(t)
    BY <2>1, <2>3 DEF Registers
  <2>4. CASE Withdraws(t)
    BY <2>1, <2>4 DEF Withdraws, Live, TypeOK
  <2>5. CASE Closes(t)
    BY <2>1, <2>5 DEF Closes, Live
  <2>6. CASE KeepsRegistry /\ KeepsOpening(t)
    BY <2>1, <2>6 DEF KeepsRegistry, KeepsOpening
  <2> QED
    BY <1>2, <2>2, <2>3, <2>4, <2>5, <2>6
<1> QED
  BY <1>1, <1>2, StepCases

\* OneCloser is kept by every step: only the pop hands a session to its closer.
LEMMA OneCloserStep ==
  ASSUME IInv, [Next]_vars
  PROVE  OneCloser'
<1> USE DEF IInv, OneCloser, TypeOK
<1>1. CASE KeepsRegistry /\ \A t \in Threads : SameThread(t)
  BY <1>1 DEF KeepsRegistry
<1>2. ASSUME NEW t \in Threads, \A u \in Threads : u # t => SameThread(u),
             \/ Makes(t) \/ Registers(t) \/ Withdraws(t) \/ Closes(t)
             \/ KeepsRegistry /\ KeepsOpening(t)
      PROVE  OneCloser'
  <2>1. CASE Makes(t)
    BY <2>1 DEF Makes, Live
  <2>2. CASE Registers(t)
    <3>1. local[t].id \notin born
      BY <2>2 DEF Registers, FreshInv
    <3> QED
      BY <2>2, <3>1 DEF Registers
  <2>3. CASE Withdraws(t)
    <3>1. PICK i \in Ids : /\ Live(i) /\ sessions' = [sessions EXCEPT ![i] = Absent]
                           /\ closing' = [closing EXCEPT ![t] = i] /\ born' = born
      BY <2>3 DEF Withdraws
    <3>2. i \in born /\ ~Live(i)' /\ \A j \in Ids : Live(j)' => Live(j)
      BY <3>1 DEF FreshInv, LiveIds, Live
    <3>3. \A u \in Threads : closing[u] # i
      BY <3>1, IdAssumption
    <3> QED
      BY <3>1, <3>2, <3>3
  <2>4. CASE Closes(t)
    BY <2>4 DEF Closes, Live
  <2>5. CASE KeepsRegistry /\ KeepsOpening(t)
    BY <2>5 DEF KeepsRegistry
  <2> QED
    BY <1>2, <2>1, <2>2, <2>3, <2>4, <2>5
<1> QED
  BY <1>1, <1>2, StepCases

\* What a step of thread t does to terminal states: one it stores is its own to
\* remove, and a session it was about to remove is gone.
LeavesNoTerminal(t) ==
  \A j \in Ids : Live(j)' /\ sessions'[j].state \in TerminalStates =>
    \/ pc'[t] = "pop" /\ local'[t].id = j
    \/ /\ Live(j) /\ sessions[j].state \in TerminalStates
       /\ ~(pc[t] = "pop" /\ local[t].id = j)

\* A step that makes a session terminal goes on to remove it.
LEMMA TerminalOwn ==
  ASSUME TypeOK, NEW t \in Threads, ThreadInv(t), Request(t) \/ Serve(t) \/ Shutdown(t)
  PROVE  LeavesNoTerminal(t)
<1> DEFINE i == local[t].id
<1> USE DEF ThreadInv, TypeOK, LeavesNoTerminal
<1>0. ASSUME NEW s, NEW state \in States \ TerminalStates, i \in Ids,
             Live(i) => s \in Session /\ s.state = state, Store(i, s), pc[t] # "pop"
      PROVE  LeavesNoTerminal(t)
  BY <1>0, AbsentAssumption DEF Store, Live
<1>a. ASSUME NEW state \in States, i \in Ids, Live(i)
      PROVE  Marked(sessions[i], state) \in Session /\ Marked(sessions[i], state).state = state
  BY <1>a, LiveType, MarkedType DEF Marked, Session
<1>b. {"running", "resuming"} \subseteq States \ TerminalStates
  BY DEF States, TerminalStates
<1>1. CASE Request(t) \/ ScanEnd(t) \/ CloseClient(t) \/ OpenRefused(t) \/ OpenCall(t)
           \/ OpenAnswer(t)
  BY <1>1 DEF Request, ScanEnd, CloseClient, OpenRefused, OpenCall, OpenAnswer, Body, shared, Live
<1>2. CASE Drop(t)
  BY <1>2 DEF Drop, PopSession, Live
<1>3. CASE Register(t)
  <2>1. plan[t].state \in AwaitingStates /\ i \in Ids
    BY <1>3 DEF Register
  <2>2. plan[t].state \notin TerminalStates
    BY <2>1 DEF AwaitingStates, TerminalStates
  <2> QED
    BY <1>3, <2>1, <2>2 DEF Register, Live
<1>4. CASE ConfirmLoad(t) \/ ConfirmAnswer(t) \/ FinalizeAnswer(t) \/ HandlerAnswer(t)
           \/ RetryLoad(t) \/ GetSession(t) \/ CancelSession(t) \/ Shutdown(t) \/ Return(t)
           \/ \E kind \in {"confirm", "retry", "get", "cancel"} : NotFound(t, kind)
  BY <1>4 DEF ConfirmLoad, ConfirmAnswer, FinalizeAnswer, HandlerAnswer, RetryLoad, GetSession,
     CancelSession, Shutdown, Return, NotFound, Body, shared, Live
<1>5. CASE ConfirmCall(t) \/ Resume(t)
  <2>1. \E state \in {"running", "resuming"} : Store(i, Marked(sessions[i], state))
    BY <1>5 DEF ConfirmCall, Resume
  <2>2. i \in Ids /\ pc[t] # "pop"
    BY <1>5 DEF ConfirmCall, Resume
  <2> QED
    BY <2>1, <2>2, <1>0, <1>a, <1>b
<1>6. CASE Mark(t)
  <2>1. i \in Ids /\ pc[t] # "pop" /\ plan[t].state \in States
    BY <1>6 DEF Mark, Plan
  <2>2. CASE plan[t].state \in TerminalStates
    <3>1. pc'[t] = "pop" /\ local'[t].id = i
      BY <1>6, <2>2 DEF Mark, Goto
    <3>2. \A j \in Ids : j # i => sessions'[j] = sessions[j]
      BY <1>6 DEF Mark, Store
    <3> QED
      BY <2>1, <3>1, <3>2 DEF Live
  <2>3. CASE plan[t].state \notin TerminalStates
    BY <1>6, <2>1, <2>3, <1>0, <1>a DEF Mark
  <2> QED
    BY <2>2, <2>3
<1>7. CASE Pop(t)
  BY <1>7 DEF Pop, PopSession, Live
<1>8. CASE RetryCall(t)
  <2>1. i \in Ids /\ pc[t] # "pop" /\ local[t].name \in OrderName
    BY <1>8 DEF RetryCall, Local
  <2> DEFINE s == [Marked(sessions[i], "running") EXCEPT !.name = local[t].name]
  <2>2. Live(i) => s \in Session /\ s.state = "running"
    BY <2>1, <1>a, <1>b DEF Session
  <2> QED
    BY <1>8, <2>1, <2>2, <1>0, <1>b DEF RetryCall
<1> QED
  BY <1>1, <1>2, <1>3, <1>4, <1>5, <1>6, <1>7, <1>8 DEF Serve

\* The passing of time changes no state of a session.
LEMMA TickKeepsStates ==
  ASSUME TypeOK, Tick, NEW j \in Ids, Live(j)'
  PROVE  Live(j) /\ sessions'[j].state = sessions[j].state
<1>1. Live(j)
  BY TickKeepsRegistry DEF KeepsRegistry
<1> QED
  BY <1>1, LiveType DEF Tick, Session

\* TerminalIsLeaving is kept by every step.
LEMMA TerminalStep ==
  ASSUME IInv, [Next]_vars
  PROVE  TerminalIsLeaving'
<1> USE DEF IInv, TerminalIsLeaving
<1>1. ASSUME NEW t \in Threads, Request(t) \/ Serve(t) \/ Shutdown(t)
      PROVE  TerminalIsLeaving'
  <2>1. LeavesNoTerminal(t)
    BY <1>1, TerminalOwn
  <2>2. \A u \in Threads : u # t => pc'[u] = pc[u] /\ local'[u] = local[u]
    BY <1>1, Frame DEF SameThread
  <2> QED
    BY <2>1, <2>2 DEF LeavesNoTerminal
<1>2. CASE Tick
  BY <1>2, TickKeepsStates DEF Tick
<1>3. CASE UNCHANGED vars
  BY <1>3 DEF vars, shared, Live
<1> QED
  BY <1>1, <1>2, <1>3 DEF Next, Stopped

\* The inductive invariant holds initially.
LEMMA InvInit == Init => IInv
<1> SUFFICES ASSUME Init PROVE IInv
  OBVIOUS
<1> USE DEF Init
<1>1. TypeOK
  <2>1. NoLocal \in Local /\ NoCall \in Call /\ NoPlan \in Plan
    BY DEF NoLocal, NoCall, NoPlan, Local, Call, Plan, Kinds, OrderName, States
  <2>2. 0 \in 0 .. MaxAccepted
    BY BoundAssumption
  <2> QED
    BY <2>1, <2>2, ClosedClientType DEF TypeOK, Control
<1>2. \A t \in Threads : ThreadInv(t)
  BY DEF ThreadInv, NoLocal
<1>3. LiveIds = {}
  BY DEF LiveIds, Live
<1>4. FreshInv
  BY <1>3 DEF FreshInv, Opening
<1>5. OneCloser
  BY DEF OneCloser
<1>6. TerminalIsLeaving
  BY DEF TerminalIsLeaving, Live
<1> QED
  BY <1>1, <1>2, <1>4, <1>5, <1>6 DEF IInv

\* The inductive invariant is kept by every step.
LEMMA InvStep == IInv /\ [Next]_vars => IInv'
<1> SUFFICES ASSUME IInv, [Next]_vars PROVE IInv'
  OBVIOUS
<1>1. TypeOK /\ \A t \in Threads : ThreadInv(t)
  BY DEF IInv
<1>2. TypeOK'
  BY <1>1, TypeStep
<1>3. (\A t \in Threads : ThreadInv(t))'
  BY <1>1, ThreadInvStep
<1> QED
  BY <1>2, <1>3, FreshStep, OneCloserStep, TerminalStep DEF IInv

\* The inductive invariant holds in every reachable state.
LEMMA Invariance == Spec => []IInv
BY InvInit, InvStep, PTL DEF Spec

-----------------------------------------------------------------------------
(* Every step of a request brings it closer to its answer.                   *)

\* The stages, named by the program counter and the call in progress.
LEMMA StageValues ==
  ASSUME NEW t \in Threads
  PROVE  /\ pc[t] = "scan" => Stage(t) = 11
         /\ pc[t] \in {"prune", "dropclose"} => Stage(t) = 10
         /\ pc[t] = "loaded" => Stage(t) = 9
         /\ pc[t] = "bank" => Stage(t) \in 5 .. 8
         /\ pc[t] = "bank" /\ call[t].fn \in {"confirm", "approve"} => Stage(t) = 8
         /\ pc[t] = "bank" /\ call[t].fn = "finalize" => Stage(t) = 7
         /\ pc[t] = "bank" /\ call[t].fn = "handler" => Stage(t) = 5
         /\ pc[t] = "resume" => Stage(t) = 6
         /\ pc[t] = "mark" => Stage(t) = 4
         /\ pc[t] = "pop" => Stage(t) = 3
         /\ pc[t] = "close" => Stage(t) = 2
         /\ pc[t] = "done" => Stage(t) = 1
         /\ pc[t] = "idle" => Stage(t) = 0
BY DEF Stage, CallStage

LEMMA NextStageValues ==
  ASSUME NEW t \in Threads
  PROVE  /\ pc'[t] \in {"prune", "dropclose"} => Stage(t)' = 10
         /\ pc'[t] = "loaded" => Stage(t)' = 9
         /\ pc'[t] = "bank" => Stage(t)' \in 5 .. 8
         /\ pc'[t] = "bank" /\ call'[t].fn = "finalize" => Stage(t)' = 7
         /\ pc'[t] = "bank" /\ call'[t].fn = "handler" => Stage(t)' = 5
         /\ pc'[t] = "resume" => Stage(t)' = 6
         /\ pc'[t] = "mark" => Stage(t)' = 4
         /\ pc'[t] = "pop" => Stage(t)' = 3
         /\ pc'[t] = "close" => Stage(t)' = 2
         /\ pc'[t] = "done" => Stage(t)' = 1
         /\ pc'[t] = "idle" => Stage(t)' = 0
BY DEF Stage, CallStage

\* The prune closes the sessions it found one after another and then ends.
LEMMA PruneDescends ==
  ASSUME TypeOK, NEW t \in Threads, ScanEnd(t) \/ Drop(t) \/ CloseClient(t)
  PROVE  Descends(t)
<1> USE DEF TypeOK, Goto
<1>1. CASE ScanEnd(t)
  <2>1. pc[t] = "scan" /\ pc'[t] \in {"prune", "done"}
    BY <1>1 DEF ScanEnd, Reply
  <2> QED BY <2>1, StageValues, NextStageValues DEF Descends
<1>2. CASE Drop(t)
  <2>1. /\ pc[t] = "prune" /\ pc'[t] \in {"prune", "dropclose"}
        /\ \E i \in doomed[t] : doomed'[t] = doomed[t] \ {i}
    BY <1>2 DEF Drop, PopSession
  <2> QED BY <2>1, StageValues, NextStageValues DEF Descends
<1>3. CASE CloseClient(t)
  <2>1. \/ pc[t] = "dropclose" /\ pc'[t] = "prune" /\ doomed'[t] = doomed[t]
        \/ pc[t] = "close" /\ pc'[t] = "done"
    BY <1>3 DEF CloseClient, prune
  <2> QED BY <2>1, StageValues, NextStageValues DEF Descends
<1> QED BY <1>1, <1>2, <1>3

\* What follows the prune directly: a refusal, a bank call, a load or a lookup.
LEMMA BodyDescends ==
  ASSUME TypeOK, NEW t \in Threads,
         \/ OpenRefused(t) \/ OpenCall(t) \/ ConfirmLoad(t) \/ RetryLoad(t)
         \/ GetSession(t) \/ CancelSession(t) \/ Return(t)
         \/ \E kind \in {"confirm", "retry", "get", "cancel"} : NotFound(t, kind)
  PROVE  Descends(t)
<1> USE DEF TypeOK, Goto
<1>1. CASE Return(t)
  <2>1. pc[t] \in {"done", "prune"} /\ pc'[t] = "idle"
    BY <1>1 DEF Return, Body
  <2> QED BY <2>1, StageValues, NextStageValues DEF Descends
<1>2. CASE OpenCall(t)
  <2>1. pc[t] = "prune" /\ pc'[t] = "bank"
    BY <1>2 DEF OpenCall, Body, CallHandler
  <2> QED BY <2>1, StageValues, NextStageValues DEF Descends
<1>3. CASE ~ (Return(t) \/ OpenCall(t))
  <2>1. pc[t] = "prune" /\ pc'[t] \in {"done", "loaded", "pop"}
    BY <1>3 DEF OpenRefused, ConfirmLoad, RetryLoad, GetSession, CancelSession, NotFound, Body, Reply
  <2> QED BY <2>1, StageValues, NextStageValues DEF Descends
<1> QED BY <1>1, <1>2, <1>3

\* A loaded session leads to one bank call, which may start another one, and so to the
\* operation, which is run at most once more.
LEMMA CallDescends ==
  ASSUME TypeOK, NEW t \in Threads,
         \/ OpenAnswer(t) \/ ConfirmCall(t) \/ ConfirmAnswer(t) \/ FinalizeAnswer(t)
         \/ Resume(t) \/ HandlerAnswer(t) \/ RetryCall(t)
  PROVE  Descends(t)
<1> USE DEF TypeOK, Goto
<1>1. CASE OpenAnswer(t)
  <2>1. pc[t] = "bank" /\ pc'[t] \in {"mark", "done"}
    BY <1>1 DEF OpenAnswer, Decide, Reply
  <2> QED BY <2>1, StageValues, NextStageValues DEF Descends
<1>2. CASE ConfirmCall(t)
  <2>1. pc[t] = "loaded" /\ pc'[t] \in {"bank", "mark", "done"}
    BY <1>2 DEF ConfirmCall, Decide, Reply
  <2> QED BY <2>1, StageValues, NextStageValues DEF Descends
<1>3. CASE ConfirmAnswer(t)
  <2>1. /\ pc[t] = "bank" /\ call[t].fn \in {"confirm", "approve"}
        /\ pc'[t] \in {"mark", "resume"} \/ (pc'[t] = "bank" /\ call'[t].fn = "finalize")
    BY <1>3 DEF ConfirmAnswer, Decide, CallHandler
  <2> QED BY <2>1, StageValues, NextStageValues DEF Descends
<1>4. CASE FinalizeAnswer(t)
  <2>1. pc[t] = "bank" /\ call[t].fn = "finalize" /\ pc'[t] \in {"mark", "resume"}
    BY <1>4 DEF FinalizeAnswer, Decide
  <2> QED BY <2>1, StageValues, NextStageValues DEF Descends
<1>5. CASE Resume(t) \/ RetryCall(t)
  <2>1. pc[t] \in {"resume", "loaded"} /\ pc'[t] = "bank" /\ call'[t].fn = "handler"
    BY <1>5 DEF Resume, RetryCall, CallHandler
  <2> QED BY <2>1, StageValues, NextStageValues DEF Descends
<1>6. CASE HandlerAnswer(t)
  <2>1. pc[t] = "bank" /\ pc'[t] \in {"mark", "done"}
    BY <1>6 DEF HandlerAnswer, Decide, Reply
  <2> QED BY <2>1, StageValues, NextStageValues DEF Descends
<1> QED BY <1>1, <1>2, <1>3, <1>4, <1>5, <1>6

\* The outcome is stored, the session withdrawn, and the request answered.
LEMMA EndDescends ==
  ASSUME TypeOK, NEW t \in Threads, Register(t) \/ Mark(t) \/ Pop(t)
  PROVE  Descends(t)
<1>1. \/ pc[t] = "mark" /\ pc'[t] \in {"pop", "done"}
      \/ pc[t] = "pop" /\ pc'[t] \in {"close", "done"}
  BY DEF Register, Mark, Pop, PopSession, Goto, TypeOK
<1> QED BY <1>1, StageValues, NextStageValues DEF Descends

LEMMA ServeDescends ==
  ASSUME TypeOK, NEW t \in Threads, Serve(t)
  PROVE  Descends(t)
BY PruneDescends, BodyDescends, CallDescends, EndDescends DEF Serve

\* The other threads do not touch what a thread is still to close.
LEMMA DoomedFrame ==
  ASSUME TypeOK, NEW t \in Threads, Request(t) \/ Serve(t) \/ Shutdown(t),
         NEW u \in Threads, u # t
  PROVE  doomed'[u] = doomed[u]
<1>1. CASE Request(t) \/ ScanEnd(t) \/ Drop(t) \/ Shutdown(t)
  BY <1>1 DEF Request, ScanEnd, Drop, Shutdown, prune, TypeOK
<1>2. CASE Serve(t) /\ ~ (ScanEnd(t) \/ Drop(t))
  <2>1. UNCHANGED prune
    BY <1>2 DEF Serve, CloseClient, OpenRefused, OpenCall, OpenAnswer, Register, NotFound, ConfirmLoad,
       ConfirmCall, ConfirmAnswer, FinalizeAnswer, Resume, HandlerAnswer, Mark, RetryLoad, RetryCall,
       GetSession, CancelSession, Return, Pop, prune
  <2> QED BY <2>1 DEF prune
<1> QED BY <1>1, <1>2

-----------------------------------------------------------------------------
(* The results.                                                              *)

\* Every variable keeps its type in every reachable state: the handlers never put a
\* value of another kind into the registry, a client object or a local variable.
THEOREM TypeCorrect == Spec => []TypeOK
<1>1. IInv => TypeOK
  BY DEF IInv
<1> QED
  BY <1>1, Invariance, PTL

\* However many requests overlap, no two close the client of one session, and the
\* session being closed is out of SESSIONS: the pop in _close_session decides.
THEOREM CloserIsUnique == Spec => []OneCloser
<1>1. IInv => OneCloser
  BY DEF IInv
<1> QED
  BY <1>1, Invariance, PTL

\* A session seen as completed or failed is about to be removed by a request at
\* _close_session, however its outcome was reached and whoever else works on it.
THEOREM TerminalSessionsLeave == Spec => []TerminalIsLeaving
<1>1. IInv => TerminalIsLeaving
  BY DEF IInv
<1> QED
  BY <1>1, Invariance, PTL

\* However many requests overlap, every step of a request brings it closer to its answer, and
\* the steps of the others do not take it back: no handler runs for ever while the bank answers.
THEOREM RequestsDescend == Spec => RequestDescends
<1>1. ASSUME IInv, [Next]_vars, NEW t \in Threads, pc[t] # "idle"
      PROVE  IF Serve(t) THEN Descends(t) ELSE UNCHANGED <<pc[t], call[t], doomed[t]>>
  <2>1. CASE Serve(t)
    BY <1>1, <2>1, ServeDescends DEF IInv
  <2>2. CASE ~ Serve(t)
    <3>1. ASSUME NEW u \in Threads, Request(u) \/ Serve(u) \/ Shutdown(u)
          PROVE  pc'[t] = pc[t] /\ call'[t] = call[t] /\ doomed'[t] = doomed[t]
      <4>1. u # t
        BY <1>1, <2>2, <3>1 DEF Request, Shutdown
      <4> QED BY <1>1, <3>1, <4>1, Frame, DoomedFrame DEF IInv, SameThread
    <3>2. pc'[t] = pc[t] /\ call'[t] = call[t] /\ doomed'[t] = doomed[t]
      <4>1. CASE Tick \/ UNCHANGED vars
        BY <4>1 DEF Tick, vars, prune
      <4> QED BY <1>1, <3>1, <4>1 DEF Next, Stopped
    <3> QED BY <2>2, <3>2
  <2> QED BY <2>1, <2>2
<1>2. IInv /\ [Next]_vars =>
        [\A t \in Threads : pc[t] # "idle" =>
           IF Serve(t) THEN Descends(t) ELSE UNCHANGED <<pc[t], call[t], doomed[t]>>]_vars
  BY <1>1
<1> QED BY <1>2, Invariance, PTL DEF Spec, RequestDescends

-----------------------------------------------------------------------------
(* The registry implements the life cycle.                                   *)

BeingClosed(i) == \E t \in Threads : closing[t] = i

\* SessionPhase as a function of the registry and of who is closing.
LEMMA PhaseOf ==
  ASSUME NEW i \in Ids
  PROVE  SessionPhase[i] = IF i \notin born THEN "unborn"
                           ELSE IF Live(i) THEN "live"
                           ELSE IF BeingClosed(i) THEN "closing" ELSE "closed"
BY DEF SessionPhase, BeingClosed

\* The same for the next state.
LEMMA PhaseOfNext ==
  ASSUME NEW i \in Ids
  PROVE  SessionPhase'[i] = IF i \notin born' THEN "unborn"
                            ELSE IF Live(i)' THEN "live"
                            ELSE IF BeingClosed(i)' THEN "closing" ELSE "closed"
BY DEF SessionPhase, BeingClosed

\* A step that changes the phase of no identifier but i moves i, or stutters.
LEMMA PhaseMove ==
  ASSUME NEW i \in Ids, \A j \in Ids \ {i} : SessionPhase'[j] = SessionPhase[j],
         NEW from, NEW to, SessionPhase[i] = from, SessionPhase'[i] = to
  PROVE  Lifecycle!Move(i, from, to)
<1>1. /\ SessionPhase = [j \in Ids |-> SessionPhase[j]]
      /\ SessionPhase' = [j \in Ids |-> SessionPhase'[j]]
  BY DEF SessionPhase
<1> QED
  BY <1>1 DEF Lifecycle!Move

\* A step that changes the phase of no identifier stutters.
LEMMA PhaseStutter ==
  ASSUME \A j \in Ids : SessionPhase'[j] = SessionPhase[j]
  PROVE  SessionPhase' = SessionPhase
BY DEF SessionPhase

\* The initial registry maps to the initial life cycle.
LEMMA LifecycleInit == Init => Lifecycle!Init
BY DEF Init, Lifecycle!Init, SessionPhase

\* Every step of the server is a step of the life cycle or a stutter.
LEMMA LifecycleStep == IInv /\ [Next]_vars => [Lifecycle!Next]_SessionPhase
<1> SUFFICES ASSUME IInv, [Next]_vars
             PROVE  Lifecycle!Next \/ SessionPhase' = SessionPhase
  OBVIOUS
<1> USE DEF BeingClosed
<1>0. /\ \A i \in Ids : Live(i) => i \in born
      /\ \A t \in Threads : closing[t] \in Ids \cup {NoId}
      /\ OneCloser
  BY DEF IInv, FreshInv, LiveIds, TypeOK
<1>1. ASSUME born' = born, \A i \in Ids : Live(i)' <=> Live(i),
             \A t \in Threads : closing'[t] = closing[t]
      PROVE  SessionPhase' = SessionPhase
  <2>1. \A i \in Ids : BeingClosed(i)' <=> BeingClosed(i)
    BY <1>1
  <2> QED
    BY <1>1, <2>1, PhaseOf, PhaseOfNext, PhaseStutter
<1>2. ASSUME NEW t \in Threads, \A u \in Threads : u # t => SameThread(u),
             \/ Makes(t) \/ Registers(t) \/ Withdraws(t) \/ Closes(t)
             \/ KeepsRegistry /\ KeepsOpening(t)
      PROVE  Lifecycle!Next \/ SessionPhase' = SessionPhase
  <2>1. CASE Makes(t) \/ KeepsRegistry
    BY <2>1, <1>1 DEF Makes, KeepsRegistry, Live
  <2>2. CASE Registers(t)
    <3> DEFINE i == local[t].id
    <3>1. /\ i \in Ids \ born /\ born' = born \cup {i}
          /\ \A j \in Ids : Live(j)' <=> (j = i \/ Live(j))
          /\ \A j \in Ids : BeingClosed(j)' <=> BeingClosed(j)
      BY <2>2 DEF Registers, IInv, FreshInv
    <3>2. SessionPhase[i] = "unborn" /\ SessionPhase'[i] = "live"
      BY <3>1, PhaseOf, PhaseOfNext
    <3>3. \A j \in Ids \ {i} : SessionPhase'[j] = SessionPhase[j]
      BY <3>1, PhaseOf, PhaseOfNext
    <3> QED
      BY <3>1, <3>2, <3>3, PhaseMove DEF Lifecycle!Next, Lifecycle!Register
  <2>3. CASE Withdraws(t)
    <3>1. PICK i \in Ids : /\ Live(i) /\ sessions' = [sessions EXCEPT ![i] = Absent]
                           /\ closing[t] = NoId /\ closing' = [closing EXCEPT ![t] = i]
                           /\ born' = born
      BY <2>3 DEF Withdraws
    <3>2. /\ i \in born /\ ~Live(i)' /\ BeingClosed(i)'
          /\ \A j \in Ids \ {i} : Live(j)' <=> Live(j)
      BY <3>1, <1>0 DEF Live, IInv, TypeOK
    <3>3. \A j \in Ids \ {i} : BeingClosed(j)' <=> BeingClosed(j)
      BY <3>1, IdAssumption DEF IInv, TypeOK
    <3>4. SessionPhase[i] = "live" /\ SessionPhase'[i] = "closing"
      BY <3>1, <3>2, PhaseOf, PhaseOfNext
    <3>5. \A j \in Ids \ {i} : SessionPhase'[j] = SessionPhase[j]
      BY <3>1, <3>2, <3>3, PhaseOf, PhaseOfNext
    <3> QED
      BY <3>4, <3>5, PhaseMove DEF Lifecycle!Next, Lifecycle!Withdraw
  <2>4. CASE Closes(t)
    <3>1. PICK i \in Ids : i = closing[t]
      BY <2>4, <1>0 DEF Closes
    <3>2. /\ i \in born /\ ~Live(i)
          /\ closing' = [closing EXCEPT ![t] = NoId]
          /\ born' = born /\ sessions' = sessions
      BY <2>4, <1>0, <3>1 DEF Closes, OneCloser
    <3>3. BeingClosed(i) /\ ~BeingClosed(i)'
      BY <3>1, <3>2, <1>0, IdAssumption DEF OneCloser, IInv, TypeOK
    <3>4. \A j \in Ids \ {i} : BeingClosed(j)' <=> BeingClosed(j)
      BY <3>1, <3>2, IdAssumption DEF IInv, TypeOK
    <3>5. SessionPhase[i] = "closing" /\ SessionPhase'[i] = "closed"
      BY <3>2, <3>3, PhaseOf, PhaseOfNext DEF Live
    <3>6. \A j \in Ids \ {i} : SessionPhase'[j] = SessionPhase[j]
      BY <3>2, <3>4, PhaseOf, PhaseOfNext DEF Live
    <3> QED
      BY <3>5, <3>6, PhaseMove DEF Lifecycle!Next, Lifecycle!Close
  <2> QED
    BY <1>2, <2>1, <2>2, <2>3, <2>4
<1>3. CASE KeepsRegistry /\ \A t \in Threads : SameThread(t)
  BY <1>3, <1>1 DEF KeepsRegistry
<1> QED
  BY <1>2, <1>3, StepCases

\* The registry implements the life cycle of SessionLifecycle: an identifier is used
\* once, is withdrawn once and closed once, and no late write of a request, a retry
\* or a prune that overlaps with it ever brings it back.
THEOREM RegistryImplementsLifecycle == Spec => LifecycleSpec
BY LifecycleInit, LifecycleStep, Invariance, PTL DEF Spec, LifecycleSpec, Lifecycle!Spec
=============================================================================
