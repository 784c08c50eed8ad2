-------------------------- MODULE SessionCalls_proofs --------------------------
(*****************************************************************************)
(* Requests, one at a time, use the client objects only in the ways          *)
(* FacadeCalls allows: for any sessions, names, kinds of answer and          *)
(* inactivity limit.                                                         *)
(*****************************************************************************)
EXTENDS SequentialStore_proofs, SessionCalls

\* A transfer carries a recipient name.
Named(op, name) == IF op = "transfer" THEN name \in Names ELSE name = NoName

\* Every transfer that is or will be sent carries one.
NameInv(t) ==
  /\ \A i \in Ids : Live(i) => Named(sessions[i].op, sessions[i].name)
  /\ local[t].kind = "open" => Named(local[t].op, local[t].name)
  /\ local[t].kind = "retry" => local[t].name \in Names

\* The confirmation that led to sending the order again.
Submitted(b) == IF b.vop THEN "approve" ELSE "confirm"

\* The client object after the result of that confirmation.
Resumed(b) == AfterSubmit(b, Submitted(b), "other_result")

\* Between calls the history shows the client object, or what will be left of it when its
\* pending confirmations have been dropped.
Between(t, i) ==
  IF Retrying(t) /\ local[t].id = i THEN ClearPendingConfirmations(client[i]) ELSE client[i]

\* During a call it shows what the call started from.
HistoryOf(t, i) ==
  LET b == before[i]
      c == client[i]
  IN /\ b \in Client
     /\ ~ InCall(t, i) => b = Between(t, i)
     /\ InCall(t, i) =>
          /\ pc[t] = "loaded" \/ call[t].fn \in {"confirm", "approve"} => b = c
          /\ pc[t] = "bank" /\ call[t].fn = "handler" =>
               /\ c = Calling(b, local[t].op, local[t].name)
               /\ call[t].owned = OwnsClient(b, local[t].op)
          /\ pc[t] = "bank" /\ call[t].fn = "finalize" =>
               /\ b.order # NoName /\ CanSubmit(b, Submitted(b))
               /\ "other_result" \in SubmitAnswers("transfer")
               /\ \E d \in Resumed(b) :
                    /\ c = Calling(d, "transfer", b.order)
                    /\ call[t].owned = OwnsClient(d, "transfer")


\* What a step does to client i, as FacadeCalls sees it.
Allowed(t, i) ==
  \/ \E answer \in Replies : Facade(t, i, answer)!Next
  \/ UNCHANGED <<before[i], Doing(t, i)>>

-----------------------------------------------------------------------------
(* The steps of FacadeCalls.                                                 *)

\* FacadeCalls and SessionStore describe a client object by the same operators.
LEMMA FacadeOperators ==
  ASSUME NEW t, NEW i, NEW a
  PROVE  /\ \A op : Facade(t, i, a)!HandlerAnswers(op) = HandlerAnswers(op)
         /\ \A c, op, name : Facade(t, i, a)!Calling(c, op, name) = Calling(c, op, name)
         /\ \A c, op : Facade(t, i, a)!OwnsClient(c, op) = OwnsClient(c, op)
         /\ \A c, op, answer, owned :
              Facade(t, i, a)!AfterHandler(c, op, answer, owned) = AfterHandler(c, op, answer, owned)
         /\ \A op : Facade(t, i, a)!SubmitAnswers(op) = SubmitAnswers(op)
         /\ \A c, action : Facade(t, i, a)!CanSubmit(c, action) = CanSubmit(c, action)
         /\ \A c, action, answer :
              Facade(t, i, a)!AfterSubmit(c, action, answer) = AfterSubmit(c, action, answer)
<1>1. \A op : Facade(t, i, a)!HandlerAnswers(op) = HandlerAnswers(op)
  BY DEF Facade!HandlerAnswers, HandlerAnswers
<1>2. \A c, op, name : Facade(t, i, a)!Calling(c, op, name) = Calling(c, op, name)
  BY DEF Facade!Calling, Calling
<1>3. \A c, op : Facade(t, i, a)!OwnsClient(c, op) = OwnsClient(c, op)
  BY DEF Facade!OwnsClient, OwnsClient
<1>4. \A c, op, answer, owned :
        Facade(t, i, a)!AfterHandler(c, op, answer, owned) = AfterHandler(c, op, answer, owned)
  BY DEF Facade!AfterHandler, AfterHandler, Facade!ClosedClient, ClosedClient
<1>5. \A op : Facade(t, i, a)!SubmitAnswers(op) = SubmitAnswers(op)
  BY DEF Facade!SubmitAnswers, SubmitAnswers
<1>6. \A c, action : Facade(t, i, a)!CanSubmit(c, action) = CanSubmit(c, action)
  BY DEF Facade!CanSubmit, CanSubmit
<1>7. \A c, action, answer :
        Facade(t, i, a)!AfterSubmit(c, action, answer) = AfterSubmit(c, action, answer)
  BY DEF Facade!AfterSubmit, AfterSubmit
<1> QED BY <1>1, <1>2, <1>3, <1>4, <1>5, <1>6, <1>7

\* A call begins.
LEMMA BeginAllowed ==
  ASSUME NEW t, NEW i, Doing(t, i) = NoDoing, before'[i] = before[i],
         \/ \E op \in Operations : \E name : /\ Named(op, name)
                                             /\ Doing(t, i)' = [fn |-> "handler", op |-> op, name |-> name]
         \/ Doing(t, i)' \in {[NoDoing EXCEPT !.fn = "confirm"], [NoDoing EXCEPT !.fn = "approve"]}
  PROVE  Allowed(t, i)
<1>1. Doing(t, i)' \in Facade(t, i, "none")!Calls
  <2>1. CASE \E op \in Operations : \E name : /\ Named(op, name)
                                              /\ Doing(t, i)' = [fn |-> "handler", op |-> op, name |-> name]
    BY <2>1 DEF Facade!Calls, Facade!Operations, Operations, Named
  <2>2. CASE Doing(t, i)' \in {[NoDoing EXCEPT !.fn = "confirm"], [NoDoing EXCEPT !.fn = "approve"]}
    BY <2>2 DEF Facade!Calls, NoDoing
  <2> QED BY <2>1, <2>2
<1>2. Facade(t, i, "none")!Begin
  BY <1>1 DEF Facade!Begin, Facade!NoDoing, NoDoing
<1>3. Facade(t, i, "none")!Next
  BY <1>2 DEF Facade!Next
<1> QED BY <1>3 DEF Allowed, Replies

\* The client is closed between two calls.
LEMMA CloseAllowed ==
  ASSUME NEW t, NEW i, Doing(t, i) = NoDoing, Doing(t, i)' = NoDoing, before'[i] = ClosedClient
  PROVE  Allowed(t, i)
<1>1. Facade(t, i, "none")!Close
  BY DEF Facade!Close, Facade!NoDoing, NoDoing, Facade!ClosedClient, ClosedClient
<1>2. Facade(t, i, "none")!Next
  BY <1>1 DEF Facade!Next
<1> QED BY <1>2 DEF Allowed, Replies

\* Its pending confirmations are dropped between two calls.
LEMMA ClearAllowed ==
  ASSUME NEW t, NEW i, Doing(t, i) = NoDoing, Doing(t, i)' = NoDoing,
         before'[i] = ClearPendingConfirmations(before[i])
  PROVE  Allowed(t, i)
<1>1. Facade(t, i, "none")!Clear
  BY DEF Facade!Clear, Facade!NoDoing, NoDoing, Facade!ClearPendingConfirmations,
     ClearPendingConfirmations
<1>2. Facade(t, i, "none")!Next
  BY <1>1 DEF Facade!Next
<1> QED BY <1>2 DEF Allowed, Replies

\* A handler answers.
LEMMA HandledAllowed ==
  ASSUME NEW t, NEW i, NEW c, NEW op, NEW name, NEW answer \in HandlerAnswers(op),
         before'[i] \in AfterHandler(Calling(c, op, name), op, answer, OwnsClient(c, op))
  PROVE  answer \in Replies /\ Facade(t, i, answer)!Handled(c, op, name)
<1>1. answer \in Replies
  BY DEF Replies, HandlerAnswers
<1>2. answer \in Facade(t, i, answer)!HandlerAnswers(op)
  BY FacadeOperators
<1>3. before'[i] \in Facade(t, i, answer)!AfterHandler(Facade(t, i, answer)!Calling(c, op, name), op,
                       answer, Facade(t, i, answer)!OwnsClient(c, op))
  BY FacadeOperators
<1> QED BY <1>1, <1>2, <1>3 DEF Facade!Handled

LEMMA HandlerAllowed ==
  ASSUME NEW t, NEW i, NEW op, NEW name, NEW answer \in HandlerAnswers(op),
         Doing(t, i) = [fn |-> "handler", op |-> op, name |-> name], Doing(t, i)' = NoDoing,
         before'[i] \in AfterHandler(Calling(before[i], op, name), op, answer, OwnsClient(before[i], op))
  PROVE  Allowed(t, i)
<1>1. answer \in Replies /\ Facade(t, i, answer)!Handled(before[i], op, name)
  BY HandledAllowed
<1>2. Facade(t, i, answer)!FinishHandler
  BY <1>1 DEF Facade!FinishHandler, Facade!NoDoing, NoDoing
<1>3. Facade(t, i, answer)!Next
  BY <1>2 DEF Facade!Next
<1> QED BY <1>1, <1>3 DEF Allowed

\* A confirmation answers without sending an order again.
LEMMA SubmitAllowed ==
  ASSUME NEW t, NEW i, NEW fn \in {"confirm", "approve"}, NEW answer \in SubmitAnswers("transfer"),
         Doing(t, i) = [NoDoing EXCEPT !.fn = fn], Doing(t, i)' = NoDoing,
         CanSubmit(before[i], fn), before'[i] \in AfterSubmit(before[i], fn, answer),
         answer = "other_result" => before[i].order = NoName
  PROVE  Allowed(t, i)
<1>1. answer \in Replies
  BY DEF Replies, SubmitAnswers
<1>2. /\ Doing(t, i).fn = fn
      /\ answer \in Facade(t, i, answer)!SubmitAnswers("transfer")
      /\ before'[i] \in Facade(t, i, answer)!AfterSubmit(before[i], Doing(t, i).fn, answer)
      /\ Facade(t, i, answer)!CanSubmit(before[i], Doing(t, i).fn)
  BY FacadeOperators DEF NoDoing
<1>3. Facade(t, i, answer)!FinishSubmit
  BY <1>2 DEF Facade!FinishSubmit, Facade!NoDoing, NoDoing
<1>4. Facade(t, i, answer)!Next
  BY <1>3 DEF Facade!Next
<1> QED BY <1>1, <1>4 DEF Allowed

\* A confirmation of what the client does not wait for fails on the client's own checks.
LEMMA FailureAllowed ==
  ASSUME NEW t, NEW i, NEW fn \in {"confirm", "approve"},
         Doing(t, i) = [NoDoing EXCEPT !.fn = fn], Doing(t, i)' = NoDoing,
         ~ CanSubmit(before[i], fn), before'[i] = before[i]
  PROVE  Allowed(t, i)
<1>1. Doing(t, i).fn = fn /\ ~ Facade(t, i, "error")!CanSubmit(before[i], Doing(t, i).fn)
  BY FacadeOperators DEF NoDoing
<1>2. Facade(t, i, "error")!FinishSubmit
  BY <1>1 DEF Facade!FinishSubmit, Facade!NoDoing, NoDoing
<1>3. Facade(t, i, "error")!Next
  BY <1>2 DEF Facade!Next
<1> QED BY <1>3 DEF Allowed, Replies

\* A confirmation that sent the pending order again ends with the answer to it.
LEMMA FinalizeAllowed ==
  ASSUME NEW t, NEW i, NEW fn \in {"confirm", "approve"}, NEW answer \in HandlerAnswers("transfer"),
         Doing(t, i) = [NoDoing EXCEPT !.fn = fn], Doing(t, i)' = NoDoing,
         before[i] \in Client, CanSubmit(before[i], fn), before[i].order # NoName,
         "other_result" \in SubmitAnswers("transfer"),
         NEW d \in AfterSubmit(before[i], fn, "other_result"),
         before'[i] \in AfterHandler(Calling(d, "transfer", before[i].order), "transfer", answer,
                                     OwnsClient(d, "transfer"))
  PROVE  Allowed(t, i)
<1> DEFINE e == [d EXCEPT !.order = NoName]
<1>1. d \in Client
  BY AfterSubmitType
<1>2. /\ Calling(e, "transfer", before[i].order) = Calling(d, "transfer", before[i].order)
      /\ OwnsClient(e, "transfer") = OwnsClient(d, "transfer")
  BY <1>1 DEF Calling, OwnsClient, Client
<1> HIDE DEF e
<1>3. answer \in Replies /\ Facade(t, i, answer)!Handled(e, "transfer", before[i].order)
  BY <1>2, HandledAllowed
<1>4. /\ Doing(t, i).fn = fn
      /\ "other_result" \in Facade(t, i, answer)!SubmitAnswers("transfer")
      /\ d \in Facade(t, i, answer)!AfterSubmit(before[i], Doing(t, i).fn, "other_result")
      /\ Facade(t, i, answer)!CanSubmit(before[i], Doing(t, i).fn)
  BY FacadeOperators DEF NoDoing
<1>5. Facade(t, i, answer)!FinishSubmit
  BY <1>3, <1>4 DEF Facade!FinishSubmit, Facade!NoDoing, NoDoing, e
<1>6. Facade(t, i, answer)!Next
  BY <1>5 DEF Facade!Next
<1> QED BY <1>3, <1>6 DEF Allowed

-----------------------------------------------------------------------------
(* The history.                                                              *)

\* With one thread, what the history remembers of client i.
LEMMA Remembered ==
  ASSUME NEW t \in Threads, Threads = {t}, Remember, NEW i \in Ids
  PROVE  before'[i] = IF InCall(t, i)' THEN before[i] ELSE Between(t, i)'
<1>1. before'[i] = IF \E u \in Threads : InCall(u, i)' THEN before[i]
                   ELSE IF \E u \in Threads : Retrying(u)' /\ local'[u].id = i
                     THEN ClearPendingConfirmations(client'[i])
                   ELSE client'[i]
  BY DEF Remember
<1>2. (\E u \in Threads : InCall(u, i)') <=> InCall(t, i)'
  OBVIOUS
<1>3. (\E u \in Threads : Retrying(u)' /\ local'[u].id = i) <=> Retrying(t)' /\ local'[t].id = i
  OBVIOUS
<1> QED BY <1>1, <1>2, <1>3 DEF Between

\* After a step that ends in no call, the history shows the client.
LEMMA RestoredHistory ==
  ASSUME NEW t \in Threads, Threads = {t}, TypeOK', Remember, NEW i \in Ids, ~ InCall(t, i)'
  PROVE  /\ HistoryOf(t, i)' /\ before'[i] = Between(t, i)'
         /\ Doing(t, i)' = NoDoing
<1>1. before'[i] = Between(t, i)'
  BY Remembered
<1>2. Between(t, i)' \in Client
  BY ClearPendingType DEF TypeOK, Between
<1>3. HistoryOf(t, i)'
  BY <1>1, <1>2 DEF HistoryOf
<1> QED BY <1>1, <1>3 DEF Doing

\* A client that no call and no retry concerns before or after a step, and that the step
\* leaves alone.
LEMMA ApartStep ==
  ASSUME NEW t \in Threads, Threads = {t}, TypeOK', Remember, NEW i \in Ids, HistoryOf(t, i),
         ~ InCall(t, i), ~ InCall(t, i)', Between(t, i)' = Between(t, i)
  PROVE  HistoryOf(t, i)' /\ Allowed(t, i)
<1>1. /\ HistoryOf(t, i)' /\ before'[i] = Between(t, i)
      /\ Doing(t, i)' = NoDoing
  BY RestoredHistory
<1>2. before[i] = Between(t, i)
  BY DEF HistoryOf
<1>3. Doing(t, i) = NoDoing
  BY DEF Doing
<1> QED BY <1>1, <1>2, <1>3 DEF Allowed

\* A step of the request of thread t on one client does not concern the others.
LEMMA OtherClient ==
  ASSUME NEW t \in Threads, Threads = {t}, TypeOK', Remember, NEW i \in Ids, HistoryOf(t, i),
         local[t].id # i \/ pc[t] \notin {"loaded", "bank"},
         local'[t].id # i \/ pc'[t] \notin {"loaded", "bank"},
         client'[i] = client[i]
  PROVE  HistoryOf(t, i)' /\ Allowed(t, i)
<1>1. ~ InCall(t, i) /\ ~ InCall(t, i)'
  BY DEF InCall, Confirming
<1>2. Between(t, i)' = Between(t, i)
  BY DEF Between, Retrying
<1> QED BY <1>1, <1>2, ApartStep

\* The steps before and after the part of a request that works on a client.
LEMMA OutsideStep ==
  ASSUME NEW t \in Threads, Threads = {t}, IInv, TypeOK', Remember, NEW i \in Ids, HistoryOf(t, i),
         \/ Request(t) \/ Shutdown(t)
         \/ ScanEnd(t) \/ Drop(t) \/ OpenRefused(t) \/ Register(t)
         \/ \E kind \in {"confirm", "retry", "get", "cancel"} : NotFound(t, kind)
         \/ Mark(t) \/ Pop(t) \/ GetSession(t) \/ CancelSession(t) \/ Return(t)
  PROVE  HistoryOf(t, i)' /\ Allowed(t, i)
<1>1. client' = client /\ pc[t] \notin {"loaded", "bank"} /\ pc'[t] \notin {"loaded", "bank"}
  <2>1. CASE Request(t) \/ Shutdown(t) \/ ScanEnd(t)
    BY <2>1 DEF Request, Shutdown, ScanEnd, Reply, Goto, shared, IInv, TypeOK
  <2>2. CASE Drop(t) \/ Pop(t)
    BY <2>2 DEF Drop, Pop, PopSession, Goto, IInv, TypeOK
  <2>3. CASE Register(t) \/ Mark(t) \/ CancelSession(t)
    BY <2>3 DEF Register, Mark, CancelSession, Body, Goto, shared, IInv, TypeOK
  <2>4. CASE \/ OpenRefused(t) \/ GetSession(t)
             \/ \E kind \in {"confirm", "retry", "get", "cancel"} : NotFound(t, kind)
    BY <2>4 DEF OpenRefused, GetSession, NotFound, Body, Reply, Goto, shared, IInv, TypeOK
  <2>5. CASE Return(t)
    BY <2>5 DEF Return, Body, Goto, shared, IInv, TypeOK
  <2> QED BY <2>1, <2>2, <2>3, <2>4, <2>5
<1> QED BY <1>1, OtherClient

LEMMA CloseStep ==
  ASSUME NEW t \in Threads, Threads = {t}, IInv, TypeOK', Remember, NEW i \in Ids, HistoryOf(t, i),
         CloseClient(t)
  PROVE  HistoryOf(t, i)' /\ Allowed(t, i)
<1>1. /\ pc[t] \in {"dropclose", "close"} /\ pc'[t] \in {"prune", "done"} /\ closing[t] \in Ids
      /\ client' = [client EXCEPT ![closing[t]] = ClosedClient]
  BY DEF CloseClient, Goto, IInv, TypeOK, ThreadInv
<1>2. CASE closing[t] # i
  BY <1>1, <1>2, OtherClient DEF IInv, TypeOK
<1>3. CASE closing[t] = i
  <2>1. client'[i] = ClosedClient
    BY <1>1, <1>3 DEF IInv, TypeOK
  <2>2. ~ InCall(t, i) /\ ~ InCall(t, i)' /\ ~ Retrying(t)'
    BY <1>1 DEF InCall, Confirming, Retrying
  <2>3. HistoryOf(t, i)' /\ before'[i] = ClosedClient /\ Doing(t, i)' = NoDoing
    BY <2>1, <2>2, RestoredHistory DEF Between
  <2> QED BY <2>2, <2>3, CloseAllowed DEF Doing
<1> QED BY <1>2, <1>3

\* Time, and the end of the process.
LEMMA StillStep ==
  ASSUME NEW t \in Threads, Threads = {t}, TypeOK', Remember, NEW i \in Ids, HistoryOf(t, i),
         UNCHANGED <<client, pc, local, call>>
  PROVE  HistoryOf(t, i)' /\ Allowed(t, i)
<1>1. InCall(t, i)' = InCall(t, i) /\ Between(t, i)' = Between(t, i)
  BY DEF InCall, Confirming, Between, Retrying
<1>2. CASE ~ InCall(t, i)
  BY <1>1, <1>2, ApartStep
<1>3. CASE InCall(t, i)
  <2>1. before'[i] = before[i]
    BY <1>1, <1>3, Remembered
  <2>2. HistoryOf(t, i)'
    BY <1>1, <1>3, <2>1 DEF HistoryOf
  <2>3. Doing(t, i)' = Doing(t, i)
    BY <1>1, <2>1 DEF Doing
  <2> QED BY <2>1, <2>2, <2>3 DEF Allowed
<1> QED BY <1>2, <1>3

\* A handler is called, on a client that no call was using.
LEMMA HandlerCalled ==
  ASSUME NEW t \in Threads, Threads = {t}, IInv, TypeOK', Remember, NEW i \in Ids, HistoryOf(t, i),
         ~ InCall(t, i), NEW op \in Operations, NEW name, Named(op, name),
         CallHandler(t, i, op, name, "handler", Between(t, i)),
         local'[t].id = i, local'[t].op = op, local'[t].name = name
  PROVE  HistoryOf(t, i)' /\ Allowed(t, i)
<1>1. /\ pc'[t] = "bank" /\ call'[t].fn = "handler" /\ call'[t].owned = OwnsClient(Between(t, i), op)
      /\ client'[i] = Calling(Between(t, i), op, name)
  BY DEF CallHandler, Goto, IInv, TypeOK
<1>2. InCall(t, i)'
  BY <1>1 DEF InCall
<1>3. before'[i] = before[i] /\ before[i] = Between(t, i) /\ before[i] \in Client
  BY <1>2, Remembered DEF HistoryOf
<1>4. HistoryOf(t, i)'
  BY <1>1, <1>2, <1>3 DEF HistoryOf
<1>5. Doing(t, i) = NoDoing /\ Doing(t, i)' = [fn |-> "handler", op |-> op, name |-> name]
  BY <1>1, <1>2 DEF Doing
<1> QED BY <1>3, <1>4, <1>5, BeginAllowed

LEMMA OpenCallStep ==
  ASSUME NEW t \in Threads, Threads = {t}, IInv, TypeOK', NameInv(t), Remember, NEW i \in Ids,
         HistoryOf(t, i), OpenCall(t)
  PROVE  HistoryOf(t, i)' /\ Allowed(t, i)
<1>1. PICK j \in Ids \ made :
        /\ local' = [local EXCEPT ![t].id = j]
        /\ CallHandler(t, j, local[t].op, local[t].name, "handler", client[j])
  BY DEF OpenCall
<1>2. pc[t] = "prune" /\ local[t].kind = "open" /\ local[t].op \in Operations
  BY DEF OpenCall, Body, IInv, ThreadInv
<1>3. /\ local'[t].op = local[t].op /\ local'[t].name = local[t].name /\ local'[t].id = j
  BY <1>1 DEF IInv, TypeOK, Local
<1>4. CASE i # j
  BY <1>1, <1>2, <1>3, <1>4, OtherClient DEF CallHandler, IInv, TypeOK
<1>5. CASE i = j
  <2>1. ~ InCall(t, i) /\ Between(t, i) = client[i]
    BY <1>2 DEF InCall, Confirming, Between, Retrying
  <2> QED BY <1>1, <1>2, <1>3, <1>5, <2>1, HandlerCalled DEF NameInv
<1> QED BY <1>4, <1>5

LEMMA ResumeStep ==
  ASSUME NEW t \in Threads, Threads = {t}, IInv, SeqInv(t), TypeOK', NameInv(t), Remember,
         NEW i \in Ids, HistoryOf(t, i), Resume(t)
  PROVE  HistoryOf(t, i)' /\ Allowed(t, i)
<1> DEFINE j == local[t].id
<1>1. /\ pc[t] = "resume" /\ UNCHANGED local /\ local[t].kind # "open" /\ j \in Ids
      /\ CallHandler(t, j, local[t].op, local[t].name, "handler", client[j])
  BY DEF Resume, IInv, ThreadInv
<1>2. Live(j) /\ local[t].op = sessions[j].op /\ local[t].name = sessions[j].name
  BY <1>1 DEF SeqInv, WorkInv, Busy
<1>3. local[t].op \in Operations /\ Named(local[t].op, local[t].name)
  BY <1>1, <1>2, LiveType DEF NameInv, IInv, Session
<1>4. CASE i # j
  BY <1>1, <1>4, OtherClient DEF CallHandler, IInv, TypeOK
<1>5. CASE i = j
  <2>1. ~ InCall(t, i) /\ Between(t, i) = client[i]
    BY <1>1 DEF InCall, Confirming, Between, Retrying
  <2> QED BY <1>1, <1>3, <1>5, <2>1, HandlerCalled
<1> QED BY <1>4, <1>5

\* The confirmations are dropped when the session is loaded, as far as the client's callers
\* can tell: nothing looks at the client between the load and the call.
LEMMA RetryLoadStep ==
  ASSUME NEW t \in Threads, Threads = {t}, IInv, TypeOK', Remember, NEW i \in Ids, HistoryOf(t, i),
         RetryLoad(t)
  PROVE  HistoryOf(t, i)' /\ Allowed(t, i)
<1> DEFINE j == local[t].id
<1>1. /\ pc[t] = "prune" /\ client' = client /\ j \in Ids
      /\ \/ pc'[t] = "loaded" /\ local' = [local EXCEPT ![t].op = "transfer"]
         \/ pc'[t] = "done" /\ local' = local
  BY DEF RetryLoad, Body, Reply, Goto, shared, IInv, TypeOK, ThreadInv
<1>2. local[t].kind = "retry" /\ local'[t].kind = "retry" /\ local'[t].id = j
  BY <1>1 DEF RetryLoad, Body, IInv, TypeOK, Local
<1>3. CASE i # j \/ pc'[t] = "done"
  BY <1>1, <1>2, <1>3, OtherClient
<1>4. CASE i = j /\ pc'[t] = "loaded"
  <2>1. ~ InCall(t, i) /\ ~ InCall(t, i)'
    BY <1>1, <1>2, <1>4 DEF InCall, Confirming
  <2>2. Between(t, i) = client[i] /\ Between(t, i)' = ClearPendingConfirmations(client[i])
    BY <1>1, <1>2, <1>4 DEF Between, Retrying
  <2>3. /\ HistoryOf(t, i)' /\ before'[i] = ClearPendingConfirmations(before[i])
        /\ Doing(t, i)' = NoDoing
    BY <2>1, <2>2, RestoredHistory DEF HistoryOf
  <2> QED BY <2>1, <2>3, ClearAllowed DEF Doing
<1> QED BY <1>1, <1>3, <1>4

LEMMA RetryCallStep ==
  ASSUME NEW t \in Threads, Threads = {t}, IInv, SeqInv(t), TypeOK', NameInv(t), Remember,
         NEW i \in Ids, HistoryOf(t, i), RetryCall(t)
  PROVE  HistoryOf(t, i)' /\ Allowed(t, i)
<1> DEFINE j == local[t].id
<1>1. /\ pc[t] = "loaded" /\ local[t].kind = "retry" /\ UNCHANGED local /\ j \in Ids
      /\ CallHandler(t, j, "transfer", local[t].name, "handler", ClearPendingConfirmations(client[j]))
  BY DEF RetryCall, IInv, ThreadInv
<1>2. local[t].op = "transfer"
  BY <1>1 DEF SeqInv, WorkInv
<1>3. "transfer" \in Operations /\ Named("transfer", local[t].name)
  BY <1>1 DEF NameInv, Named, Operations
<1>4. CASE i # j
  BY <1>1, <1>4, OtherClient DEF CallHandler, IInv, TypeOK
<1>5. CASE i = j
  <2>1. ~ InCall(t, i) /\ Between(t, i) = ClearPendingConfirmations(client[i])
    BY <1>1, <1>5 DEF InCall, Confirming, Between, Retrying
  <2> QED BY <1>1, <1>2, <1>3, <1>5, <2>1, HandlerCalled
<1> QED BY <1>4, <1>5

\* A confirmation whose call is going to be made has begun.
LEMMA ConfirmLoadStep ==
  ASSUME NEW t \in Threads, Threads = {t}, IInv, TypeOK', Remember, NEW i \in Ids, HistoryOf(t, i),
         ConfirmLoad(t)
  PROVE  HistoryOf(t, i)' /\ Allowed(t, i)
<1> DEFINE j == local[t].id
<1>1. /\ pc[t] = "prune" /\ pc'[t] = "loaded" /\ client' = client /\ j \in Ids
      /\ local[t].kind = "confirm" /\ call'[t].fn \in {"confirm", "approve"}
  BY DEF ConfirmLoad, Body, Goto, shared, IInv, TypeOK, ThreadInv, Call
<1>2. local'[t].kind = "confirm" /\ local'[t].id = j
  BY <1>1 DEF ConfirmLoad, IInv, TypeOK, Local
<1>3. CASE i # j
  BY <1>1, <1>2, <1>3, OtherClient
<1>4. CASE i = j
  <2>1. ~ InCall(t, i) /\ Between(t, i) = client[i] /\ Between(t, i)' = client[i]
    BY <1>1, <1>2 DEF InCall, Confirming, Between, Retrying
  <2>2. CASE ~ InCall(t, i)'
    BY <2>1, <2>2, ApartStep
  <2>3. CASE InCall(t, i)'
    <3>1. before'[i] = before[i] /\ before[i] = client[i] /\ before[i] \in Client
      BY <2>1, <2>3, Remembered DEF HistoryOf
    <3>2. HistoryOf(t, i)'
      BY <1>1, <2>3, <3>1 DEF HistoryOf
    <3>3. Doing(t, i) = NoDoing /\ Doing(t, i)' = [NoDoing EXCEPT !.fn = call'[t].fn]
      BY <1>1, <2>1, <2>3 DEF Doing
    <3> QED BY <1>1, <3>1, <3>2, <3>3, BeginAllowed
  <2> QED BY <2>2, <2>3
<1> QED BY <1>3, <1>4

\* A call that is under way at thread t.
LEMMA CallUnderWay ==
  ASSUME NEW t \in Threads, IInv, pc[t] = "bank"
  PROVE  /\ local[t].id \in Ids /\ InCall(t, local[t].id)
         /\ call[t].fn = "handler" =>
              Doing(t, local[t].id) = [fn |-> "handler", op |-> local[t].op, name |-> local[t].name]
         /\ call[t].fn = "finalize" =>
              Doing(t, local[t].id) = [NoDoing EXCEPT !.fn = Submitted(before[local[t].id])]
         /\ call[t].fn \in {"confirm", "approve"} =>
              Doing(t, local[t].id) = [NoDoing EXCEPT !.fn = call[t].fn]
BY DEF IInv, ThreadInv, InCall, Doing, Submitted

\* The step that ends a call: the history shows what it left.
LEMMA CallOver ==
  ASSUME NEW t \in Threads, Threads = {t}, TypeOK', Remember, NEW i \in Ids,
         pc'[t] \notin {"bank", "loaded"}
  PROVE  HistoryOf(t, i)' /\ before'[i] = client'[i] /\ Doing(t, i)' = NoDoing
<1>1. ~ InCall(t, i)' /\ Between(t, i)' = client'[i]
  BY DEF InCall, Confirming, Between, Retrying
<1> QED BY <1>1, RestoredHistory

\* The answer to a handler that was called from /confirm, /transfer/retry-with-name or an
\* opening request.
LEMMA HandlerAnswerStep ==
  ASSUME NEW t \in Threads, Threads = {t}, IInv, TypeOK', Remember, NEW i \in Ids, HistoryOf(t, i),
         HandlerAnswer(t) \/ OpenAnswer(t)
  PROVE  HistoryOf(t, i)' /\ Allowed(t, i)
<1> DEFINE j == local[t].id
           op == local[t].op
<1>1. /\ pc[t] = "bank" /\ call[t].fn = "handler" /\ j \in Ids /\ UNCHANGED local
      /\ pc'[t] \in {"mark", "done"}
  BY DEF HandlerAnswer, OpenAnswer, Decide, Reply, Goto, IInv, TypeOK, ThreadInv
<1>2. PICK answer \in HandlerAnswers(op) :
        \E c \in AfterHandler(client[j], op, answer, call[t].owned) : client' = [client EXCEPT ![j] = c]
  BY DEF HandlerAnswer, OpenAnswer
<1>3. PICK c \in AfterHandler(client[j], op, answer, call[t].owned) : client' = [client EXCEPT ![j] = c]
  BY <1>2
<1>4. CASE i # j
  BY <1>1, <1>3, <1>4, OtherClient DEF IInv, TypeOK
<1>5. CASE i = j
  <2>1. /\ client[i] = Calling(before[i], op, local[t].name)
        /\ call[t].owned = OwnsClient(before[i], op)
    BY <1>1, <1>5, CallUnderWay DEF HistoryOf
  <2>2. HistoryOf(t, i)' /\ before'[i] = c /\ Doing(t, i)' = NoDoing
    BY <1>1, <1>3, <1>5, CallOver DEF IInv, TypeOK
  <2> QED BY <1>1, <1>3, <1>5, <2>1, <2>2, CallUnderWay, HandlerAllowed
<1> QED BY <1>4, <1>5

LEMMA FinalizeAnswerStep ==
  ASSUME NEW t \in Threads, Threads = {t}, IInv, TypeOK', Remember, NEW i \in Ids, HistoryOf(t, i),
         FinalizeAnswer(t)
  PROVE  HistoryOf(t, i)' /\ Allowed(t, i)
<1> DEFINE j == local[t].id
<1>1. /\ pc[t] = "bank" /\ call[t].fn = "finalize" /\ j \in Ids /\ UNCHANGED local
      /\ pc'[t] \in {"mark", "resume"}
  BY DEF FinalizeAnswer, Decide, Goto, IInv, TypeOK, ThreadInv
<1>2. PICK answer \in HandlerAnswers("transfer") :
        \E c \in AfterHandler(client[j], "transfer", answer, call[t].owned) :
          client' = [client EXCEPT ![j] = c]
  BY DEF FinalizeAnswer
<1>3. PICK c \in AfterHandler(client[j], "transfer", answer, call[t].owned) :
        client' = [client EXCEPT ![j] = c]
  BY <1>2
<1>4. CASE i # j
  BY <1>1, <1>3, <1>4, OtherClient DEF IInv, TypeOK
<1>5. CASE i = j
  <2>1. /\ before[i] \in Client /\ before[i].order # NoName
        /\ CanSubmit(before[i], Submitted(before[i]))
        /\ "other_result" \in SubmitAnswers("transfer")
    BY <1>1, <1>5, CallUnderWay DEF HistoryOf
  <2>2. PICK d \in AfterSubmit(before[i], Submitted(before[i]), "other_result") :
          /\ client[i] = Calling(d, "transfer", before[i].order)
          /\ call[t].owned = OwnsClient(d, "transfer")
    BY <1>1, <1>5, CallUnderWay DEF HistoryOf, Resumed
  <2>3. HistoryOf(t, i)' /\ before'[i] = c /\ Doing(t, i)' = NoDoing
    BY <1>1, <1>3, <1>5, CallOver DEF IInv, TypeOK
  <2>4. Doing(t, i) = [NoDoing EXCEPT !.fn = Submitted(before[i])]
    BY <1>1, <1>5, CallUnderWay
  <2>5. Submitted(before[i]) \in {"confirm", "approve"}
    BY DEF Submitted
  <2>6. c \in AfterHandler(Calling(d, "transfer", before[i].order), "transfer", answer,
                           OwnsClient(d, "transfer"))
    BY <1>3, <1>5, <2>2
  <2> QED BY <2>1, <2>2, <2>3, <2>4, <2>5, <2>6, FinalizeAllowed
<1> QED BY <1>4, <1>5

\* A confirmation that goes to the bank is still the call that began with the load of the
\* session; one that is refused has begun none.
LEMMA ConfirmCallStep ==
  ASSUME NEW t \in Threads, Threads = {t}, IInv, SeqInv(t), TypeOK', Remember, NEW i \in Ids,
         HistoryOf(t, i), ConfirmCall(t)
  PROVE  HistoryOf(t, i)' /\ Allowed(t, i)
<1> DEFINE j == local[t].id
<1>1. /\ pc[t] = "loaded" /\ local[t].kind = "confirm" /\ UNCHANGED <<client, local>> /\ j \in Ids
      /\ client[j] \in Client
  BY DEF ConfirmCall, IInv, TypeOK, ThreadInv
<1>2. call[t].fn = IF client[j].vop THEN "approve" ELSE "confirm"
  BY <1>1 DEF SeqInv, WorkInv
<1>4. CASE i # j
  BY <1>1, <1>4, OtherClient
<1>5. CASE i = j /\ call[t].fn = "approve" /\ ~ local[t].approve
  <2>1. pc'[t] = "done"
    BY <1>5 DEF ConfirmCall, Reply, Goto, IInv, TypeOK
  <2>2. ~ InCall(t, i) /\ ~ InCall(t, i)' /\ Between(t, i)' = Between(t, i)
    BY <1>1, <1>5, <2>1 DEF InCall, Confirming, Between, Retrying
  <2> QED BY <2>2, ApartStep
<1>6. CASE i = j /\ ~ (call[t].fn = "approve" /\ ~ local[t].approve) /\ CanSubmit(client[j], call[t].fn)
  <2>1. pc'[t] = "bank" /\ call'[t].fn = call[t].fn
    BY <1>6 DEF ConfirmCall, Goto, IInv, TypeOK, Call
  <2>2. InCall(t, i) /\ InCall(t, i)'
    BY <1>1, <1>6, <2>1 DEF InCall, Confirming
  <2>3. before'[i] = before[i]
    BY <2>2, Remembered
  <2>4. HistoryOf(t, i)' /\ Doing(t, i)' = Doing(t, i)
    BY <1>1, <1>2, <2>1, <2>2, <2>3 DEF HistoryOf, Doing
  <2> QED BY <2>3, <2>4 DEF Allowed
<1>7. CASE i = j /\ ~ (call[t].fn = "approve" /\ ~ local[t].approve) /\ ~ CanSubmit(client[j], call[t].fn)
  <2>1. pc'[t] = "mark"
    BY <1>7 DEF ConfirmCall, Decide, Goto, IInv, TypeOK
  <2>2. InCall(t, i) /\ ~ InCall(t, i)' /\ ~ Retrying(t)'
    BY <1>1, <1>7, <2>1 DEF InCall, Confirming, Retrying
  <2>3. before[i] = client[i] /\ Doing(t, i) = [NoDoing EXCEPT !.fn = call[t].fn]
    BY <1>1, <1>2, <2>2 DEF HistoryOf, Doing
  <2>4. HistoryOf(t, i)' /\ before'[i] = before[i] /\ Doing(t, i)' = NoDoing
    BY <1>1, <2>2, <2>3, RestoredHistory DEF Between
  <2> QED BY <1>2, <1>7, <2>3, <2>4, FailureAllowed
<1> QED BY <1>4, <1>5, <1>6, <1>7

\* The answer to a confirmation ends the call, or sends the pending order again within it.
LEMMA ConfirmAnswerStep ==
  ASSUME NEW t \in Threads, Threads = {t}, IInv, SeqInv(t), TypeOK', Remember, NEW i \in Ids,
         HistoryOf(t, i), ConfirmAnswer(t)
  PROVE  HistoryOf(t, i)' /\ Allowed(t, i)
<1> DEFINE j == local[t].id
           fn == call[t].fn
           order == client[j].order
<1>1. /\ pc[t] = "bank" /\ fn \in {"confirm", "approve"} /\ UNCHANGED local /\ j \in Ids
      /\ local[t].kind # "open"
  BY DEF ConfirmAnswer, IInv, ThreadInv
<1>2. PICK answer \in SubmitAnswers(local[t].op) : \E c \in AfterSubmit(client[j], fn, answer) :
        IF answer = "other_result" /\ order # NoName
          THEN CallHandler(t, j, "transfer", order, "finalize", c)
          ELSE client' = [client EXCEPT ![j] = c] /\ pc'[t] \in {"mark", "resume"}
  BY DEF ConfirmAnswer, Decide, Goto, IInv, TypeOK
<1>3. PICK c \in AfterSubmit(client[j], fn, answer) :
        IF answer = "other_result" /\ order # NoName
          THEN CallHandler(t, j, "transfer", order, "finalize", c)
          ELSE client' = [client EXCEPT ![j] = c] /\ pc'[t] \in {"mark", "resume"}
  BY <1>2
<1>4. CASE i # j
  BY <1>1, <1>3, <1>4, OtherClient DEF CallHandler, IInv, TypeOK
<1>5. CASE i = j
  <2>1. /\ before[i] = client[i] /\ before[i] \in Client /\ InCall(t, i)
        /\ Doing(t, i) = [NoDoing EXCEPT !.fn = fn]
    BY <1>1, <1>5, CallUnderWay DEF HistoryOf
  <2>2. CanSubmit(before[i], fn) /\ fn = Submitted(before[i])
    BY <1>1, <1>5, <2>1 DEF SeqInv, WorkInv, CanSubmit, Submitted
  <2>3. answer \in SubmitAnswers("transfer")
    BY DEF SubmitAnswers
  <2>4. CASE answer = "other_result" /\ order # NoName
    <3>1. /\ pc'[t] = "bank" /\ call'[t].fn = "finalize" /\ call'[t].owned = OwnsClient(c, "transfer")
          /\ client'[i] = Calling(c, "transfer", order)
      BY <1>3, <1>5, <2>4 DEF CallHandler, Goto, IInv, TypeOK
    <3>2. InCall(t, i)'
      BY <1>1, <1>5, <3>1 DEF InCall
    <3>3. before'[i] = before[i]
      BY <3>2, Remembered
    <3>4. c \in Resumed(before[i])
      BY <1>3, <1>5, <2>1, <2>2, <2>4 DEF Resumed
    <3>5. HistoryOf(t, i)'
      BY <1>5, <2>1, <2>2, <2>3, <2>4, <3>1, <3>2, <3>3, <3>4 DEF HistoryOf
    <3>6. Doing(t, i)' = [NoDoing EXCEPT !.fn = Submitted(before[i])]
      BY <3>1, <3>2, <3>3 DEF Doing, Submitted
    <3> QED BY <2>1, <2>2, <3>3, <3>5, <3>6 DEF Allowed
  <2>5. CASE ~ (answer = "other_result" /\ order # NoName)
    <3>1. HistoryOf(t, i)' /\ before'[i] = c /\ Doing(t, i)' = NoDoing
      BY <1>3, <1>5, <2>5, CallOver DEF IInv, TypeOK
    <3> QED BY <1>1, <1>3, <1>5, <2>1, <2>2, <2>3, <2>5, <3>1, SubmitAllowed
  <2> QED BY <2>4, <2>5
<1> QED BY <1>4, <1>5

-----------------------------------------------------------------------------
(* The names of transfers.                                                   *)

\* A step that keeps operation and name of the sessions, and of the request.
LEMMA NamesStay ==
  ASSUME NEW t, NameInv(t),
         \A i \in Ids : Live(i)' => /\ Live(i) /\ sessions'[i].op = sessions[i].op
                                    /\ sessions'[i].name = sessions[i].name,
         \/ UNCHANGED local
         \/ local'[t].kind \notin {"open", "retry"}
         \/ /\ local'[t].kind = local[t].kind /\ local'[t].name = local[t].name
            /\ local[t].kind = "open" => local'[t].op = local[t].op
  PROVE  NameInv(t)'
BY DEF NameInv

LEMMA NameStep ==
  ASSUME NEW t \in Threads, IInv, SeqInv(t), NameInv(t),
         Request(t) \/ Shutdown(t) \/ Serve(t) \/ Tick
  PROVE  NameInv(t)'
<1>1. CASE Request(t)
  <2>1. UNCHANGED sessions /\ local'[t] \in Requests
    BY <1>1 DEF Request, shared, IInv, TypeOK
  <2>2. /\ local'[t].kind = "open" => Named(local'[t].op, local'[t].name)
        /\ local'[t].kind = "retry" => local'[t].name \in Names
    BY <2>1 DEF Requests, Named
  <2> QED BY <2>1, <2>2 DEF NameInv, Live
<1>2. CASE Shutdown(t) \/ Return(t)
  BY <1>2, NamesStay DEF Shutdown, Return, NoLocal, shared, Live, IInv, TypeOK
<1>3. CASE \/ ScanEnd(t) \/ OpenRefused(t) \/ CloseClient(t) \/ GetSession(t) \/ CancelSession(t)
           \/ OpenAnswer(t) \/ ConfirmAnswer(t) \/ FinalizeAnswer(t) \/ HandlerAnswer(t)
           \/ \E kind \in {"confirm", "retry", "get", "cancel"} : NotFound(t, kind)
  <2>1. UNCHANGED <<sessions, local>>
    BY <1>3 DEF ScanEnd, OpenRefused, CloseClient, GetSession, CancelSession, OpenAnswer,
       ConfirmAnswer, FinalizeAnswer, HandlerAnswer, NotFound, shared
  <2> QED BY <2>1, NamesStay DEF Live
<1>4. CASE Drop(t) \/ Pop(t)
  <2>1. UNCHANGED local /\ \A i \in Ids : sessions'[i] \in {sessions[i], Absent}
    BY <1>4 DEF Drop, Pop, PopSession, IInv, TypeOK
  <2> QED BY <2>1, NamesStay DEF Live
<1>5. CASE OpenCall(t) \/ ConfirmLoad(t) \/ RetryLoad(t)
  <2>1. UNCHANGED sessions
    BY <1>5 DEF OpenCall, ConfirmLoad, RetryLoad, shared
  <2>2. CASE OpenCall(t)
    BY <2>1, <2>2, NamesStay DEF OpenCall, Live, IInv, TypeOK, Local
  <2>3. CASE ConfirmLoad(t)
    <3>1. local'[t].kind = "confirm"
      BY <2>3 DEF ConfirmLoad, Body, IInv, TypeOK, Local
    <3> QED BY <2>1, <3>1, NamesStay DEF Live
  <2>4. CASE RetryLoad(t)
    <3>1. local'[t].kind = "retry" /\ local[t].kind = "retry" /\ local'[t].name = local[t].name
      BY <2>4 DEF RetryLoad, Body, IInv, TypeOK, Local
    <3> QED BY <2>1, <3>1, NamesStay DEF Live
  <2> QED BY <1>5, <2>2, <2>3, <2>4
<1>6. CASE Register(t)
  <2> DEFINE s == [op |-> local[t].op, state |-> plan[t].state, name |-> local[t].name, idle |-> 0]
  <2>1. UNCHANGED local /\ sessions' = [sessions EXCEPT ![local[t].id] = s] /\ local[t].kind = "open"
    BY <1>6 DEF Register
  <2>2. Named(s.op, s.name)
    BY <2>1 DEF NameInv
  <2> HIDE DEF s
  <2> QED BY <2>1, <2>2 DEF NameInv, Live, IInv, TypeOK
<1>7. CASE ConfirmCall(t) \/ Resume(t) \/ Mark(t)
  <2>1. PICK state \in States : Store(local[t].id, Marked(sessions[local[t].id], state))
    BY <1>7 DEF ConfirmCall, Resume, Mark, States, IInv, TypeOK, Plan
  <2>2. UNCHANGED local /\ local[t].id \in Ids
    BY <1>7 DEF ConfirmCall, Resume, Mark, IInv, ThreadInv
  <2>3. ASSUME NEW i \in Ids, Live(i)'
        PROVE  Live(i) /\ sessions'[i].op = sessions[i].op /\ sessions'[i].name = sessions[i].name
    BY <2>1, <2>2, <2>3, MarkedSession DEF Store, Live, IInv, TypeOK
  <2> QED BY <2>2, <2>3, NamesStay
<1>8. CASE RetryCall(t)
  <2> DEFINE j == local[t].id
             m == Marked(sessions[j], "running")
             s == [m EXCEPT !.name = local[t].name]
  <2>1. UNCHANGED local /\ local[t].kind = "retry" /\ j \in Ids /\ pc[t] = "loaded" /\ Store(j, s)
    BY <1>8 DEF RetryCall, IInv, ThreadInv
  <2>2. Live(j) /\ sessions[j].op = "transfer"
    BY <2>1 DEF SeqInv, WorkInv
  <2>3. m \in Session /\ m.op = "transfer"
    BY <2>1, <2>2, MarkedSession DEF IInv, States
  <2> HIDE DEF m
  <2>4. s.op = "transfer" /\ s.name \in Names
    BY <2>1, <2>3 DEF NameInv, Session
  <2> HIDE DEF s
  <2>5. sessions' = [sessions EXCEPT ![j] = s]
    BY <2>1, <2>2 DEF Store
  <2> QED BY <2>1, <2>4, <2>5 DEF NameInv, Named, Live, IInv, TypeOK
<1>9. CASE Tick
  <2>1. UNCHANGED local
    BY <1>9 DEF Tick
  <2>2. ASSUME NEW i \in Ids, Live(i)'
        PROVE  Live(i) /\ sessions'[i].op = sessions[i].op /\ sessions'[i].name = sessions[i].name
    <3>1. Live(i)
      BY <1>9, <2>2, TickKeepsRegistry DEF KeepsRegistry, IInv
    <3> QED BY <1>9, <3>1, LiveType DEF Tick, Session, IInv
  <2> QED BY <2>1, <2>2, NamesStay
<1> QED BY <1>1, <1>2, <1>3, <1>4, <1>5, <1>6, <1>7, <1>8, <1>9 DEF Serve

-----------------------------------------------------------------------------
(* The refinement.                                                           *)

CallInv(t) == NameInv(t) /\ \A i \in Ids : HistoryOf(t, i)

LEMMA CallsInitially ==
  ASSUME NEW t \in Threads, CallsInit
  PROVE  CallInv(t) /\ \A i \in Ids : Facade(t, i, "none")!Init
<1>1. NameInv(t)
  BY DEF CallsInit, Init, NameInv, Live, NoLocal
<1>2. ASSUME NEW i \in Ids
      PROVE  HistoryOf(t, i) /\ Facade(t, i, "none")!Init
  <2>1. ~ InCall(t, i) /\ ~ Retrying(t) /\ before[i] = client[i] /\ client[i] = ClosedClient
    BY DEF CallsInit, Init, InCall, Confirming, Retrying
  <2>2. HistoryOf(t, i)
    BY <2>1, ClosedClientType DEF HistoryOf, Between
  <2>3. Facade(t, i, "none")!Init
    BY <2>1 DEF Facade!Init, Doing, NoDoing, Facade!NoDoing, ClosedClient, Facade!ClosedClient
  <2> QED BY <2>2, <2>3
<1> QED BY <1>1, <1>2 DEF CallInv

LEMMA CallStep ==
  ASSUME NEW t \in Threads, Threads = {t}, IInv, SeqInv(t), CallInv(t), TypeOK',
         [Next /\ Remember]_callVars
  PROVE  CallInv(t)' /\ \A i \in Ids : Allowed(t, i)
<1>1. CASE UNCHANGED callVars
  <2>1. UNCHANGED <<vars, before>>
    BY <1>1 DEF callVars
  <2>2. UNCHANGED <<sessions, client, pc, local, call, before>>
    BY <2>1 DEF vars, shared
  <2>3. ASSUME NEW i \in Ids
        PROVE  HistoryOf(t, i)' /\ Allowed(t, i)
    BY <2>2 DEF CallInv, HistoryOf, InCall, Confirming, Between, Retrying, Allowed, Doing
  <2> QED BY <2>2, <2>3 DEF CallInv, NameInv, Live
<1>2. CASE Next /\ Remember
  <2>1. Request(t) \/ Shutdown(t) \/ Serve(t) \/ Tick \/ Stopped
    BY <1>2 DEF Next
  <2>2. NameInv(t)'
    <3>1. CASE Stopped
      BY <3>1 DEF Stopped, vars, shared, CallInv, NameInv, Live
    <3> QED BY <2>1, <3>1, NameStep DEF CallInv
  <2>3. ASSUME NEW i \in Ids
        PROVE  HistoryOf(t, i)' /\ Allowed(t, i)
    <3>1. HistoryOf(t, i) /\ NameInv(t)
      BY DEF CallInv
    <3>2. CASE Request(t) \/ Shutdown(t)
      BY <1>2, <3>1, <3>2, OutsideStep
    <3>3. CASE Tick \/ Stopped
      <4>1. UNCHANGED <<client, pc, local, call>>
        BY <3>3 DEF Tick, Stopped, vars, shared
      <4> QED BY <1>2, <3>1, <4>1, StillStep
    <3>4. CASE Serve(t)
      BY <1>2, <3>1, <3>4, OutsideStep, CloseStep, OpenCallStep, HandlerAnswerStep, ConfirmLoadStep,
         ConfirmCallStep, ConfirmAnswerStep, FinalizeAnswerStep, ResumeStep, RetryLoadStep,
         RetryCallStep DEF Serve
    <3> QED BY <2>1, <3>2, <3>3, <3>4
  <2> QED BY <2>2, <2>3 DEF CallInv
<1> QED BY <1>1, <1>2

\* One request at a time uses each client object as FacadeCalls has it: for any sessions,
\* names and kinds of answer.
THEOREM RequestsCallObjects ==
  ASSUME NEW CONSTANT worker, Threads = {worker}
  PROVE  CallsSpec => ObjectCalls
<1>1. worker \in Threads
  OBVIOUS
<1>2. CallsInit => Init /\ SeqInv(worker) /\ CallInv(worker)
  BY <1>1, SeqInit, CallsInitially DEF CallsInit
<1>3. CallsInit => \A t \in Threads, i \in Ids : Facade(t, i, "none")!Init
  BY CallsInitially
<1>4. [Next /\ Remember]_callVars => [Next]_vars
  BY DEF callVars
<1>5. IInv /\ SeqInv(worker) /\ [Next]_vars => SeqInv(worker)'
  BY <1>1, SeqStep
<1>6. IInv /\ SeqInv(worker) /\ CallInv(worker) /\ IInv' /\ [Next /\ Remember]_callVars =>
        CallInv(worker)' /\ \A i \in Ids : Allowed(worker, i)
  BY <1>1, CallStep DEF IInv
<1>7. (\A i \in Ids : Allowed(worker, i)) =>
        [\A t \in Threads, i \in Ids :
           \/ \E answer \in Replies : Facade(t, i, answer)!Next
           \/ UNCHANGED <<before[i], Doing(t, i)>>]_callVars
  BY DEF Allowed
<1> QED BY <1>2, <1>3, <1>4, <1>5, <1>6, <1>7, InvInit, InvStep, PTL DEF CallsSpec, ObjectCalls

=============================================================================
