---------------------------- MODULE SessionStore ----------------------------
(*****************************************************************************)
(* The confirmation sessions of the HTTP adapter (easy_fints/api.py).  The   *)
(* endpoints are plain functions, so the server runs them on a pool of       *)
(* threads; all of them share the module-level dictionary SESSIONS and the   *)
(* client objects stored in it, without a lock.  A request is a sequence of  *)
(* steps of its thread: every read or write of the shared dictionary, every  *)
(* call to the bank and every answer of the bank is a step of its own.       *)
(*****************************************************************************)
EXTENDS ClientFacade, FiniteSets

CONSTANTS
  Threads,       \* worker threads of the server
  Ids,           \* FinTSClient objects, and the uuid under which each is stored
  NoId,
  Absent,        \* value of sessions[i] when i is not a key of SESSIONS
  Served,        \* the operations clients start
  SessionTTL,    \* inactivity after which a session may be pruned
  MaxAccepted    \* bound of the history counter "accepted"

ASSUME IdAssumption == NoId \notin Ids
ASSUME TTLAssumption == SessionTTL \in Nat \ {0}
ASSUME BoundAssumption == MaxAccepted \in Nat
ASSUME ServedAssumption == Served \subseteq Operations

AwaitingStates == {"awaiting_tan", "awaiting_decoupled", "awaiting_vop"}
TerminalStates == {"completed", "failed"}
States == {"running", "resuming"} \cup AwaitingStates \cup TerminalStates

\* "idle" is the time since updated_at, counted up to SessionTTL.
Session == [op : Operations, state : States, name : OrderName, idle : 0 .. SessionTTL]

ASSUME AbsentAssumption == Absent \notin Session

VARIABLES
  up,          \* the server accepts requests
  sessions,    \* SESSIONS
  client,      \* the FinTSClient objects (ClosedClient before they exist)
  made,        \* the client objects constructed so far
  born,        \* history: identifiers that were ever put into SESSIONS
  accepted,    \* history: transfer orders the bank accepted through a client
  pc,          \* where each thread is in its request
  local,       \* the request and the handler's local copies of session fields
  doomed,      \* _prune_sessions: expired ids still to be closed
  seen,        \* _prune_sessions: the keys when the iteration started
  closing,     \* _close_session: popped, client.close() still to be called
  call,        \* the bank call in progress
  plan         \* the state to store and the reply to give after the bank's answer

shared == <<sessions, client, made, born, accepted>>
prune  == <<doomed, seen>>
vars   == <<up, shared, pc, local, prune, closing, call, plan>>

Kinds == {"none", "open", "confirm", "retry", "get", "cancel", "shutdown"}
Control == {"idle", "scan", "prune", "dropclose", "loaded", "bank", "mark",
            "resume", "pop", "close", "done"}

Local == [kind : Kinds, id : Ids \cup {NoId}, op : Operations \cup {"none"},
          name : OrderName, approve : BOOLEAN]
Call  == [fn : {"none", "handler", "finalize", "confirm", "approve"},
          owned : BOOLEAN, sending : OrderName]
Plan  == [state : States, code : {0, 200, 202, 400, 404, 409, 422, 500, 502},
          cause : {"none", "capability"}]

NoLocal == [kind |-> "none", id |-> NoId, op |-> "none", name |-> NoName, approve |-> FALSE]
NoCall  == [fn |-> "none", owned |-> FALSE, sending |-> NoName]
NoPlan  == [state |-> "running", code |-> 0, cause |-> "none"]

Live(i) == sessions[i] # Absent
LiveIds == {i \in Ids : Live(i)}

\* Mutant: a session expires one unit of time too early.
ExpiredEarly == {i \in LiveIds : sessions[i].idle + 1 >= SessionTTL}

Expired == {i \in LiveIds : sessions[i].idle >= SessionTTL}

TypeOK ==
  /\ up \in BOOLEAN
  /\ sessions \in [Ids -> Session \cup {Absent}]
  /\ client \in [Ids -> Client]
  /\ made \in SUBSET Ids
  /\ born \in SUBSET Ids
  /\ accepted \in [Ids -> 0 .. MaxAccepted]
  /\ pc \in [Threads -> Control]
  /\ local \in [Threads -> Local]
  /\ doomed \in [Threads -> SUBSET Ids]
  /\ seen \in [Threads -> SUBSET Ids]
  /\ closing \in [Threads -> Ids \cup {NoId}]
  /\ call \in [Threads -> Call]
  /\ plan \in [Threads -> Plan]

Init ==
  /\ up = TRUE
  /\ sessions = [i \in Ids |-> Absent]
  /\ client = [i \in Ids |-> ClosedClient]
  /\ made = {}
  /\ born = {}
  /\ accepted = [i \in Ids |-> 0]
  /\ pc = [t \in Threads |-> "idle"]
  /\ local = [t \in Threads |-> NoLocal]
  /\ doomed = [t \in Threads |-> {}]
  /\ seen = [t \in Threads |-> {}]
  /\ closing = [t \in Threads |-> NoId]
  /\ call = [t \in Threads |-> NoCall]
  /\ plan = [t \in Threads |-> NoPlan]

-----------------------------------------------------------------------------
(* Arrival of a request, and _prune_sessions, which every endpoint that uses *)
(* sessions calls first.                                                     *)

Goto(t, where) == pc' = [pc EXCEPT ![t] = where]

Reply(t, code) ==
  /\ Goto(t, "done")
  /\ plan' = [plan EXCEPT ![t] = [NoPlan EXCEPT !.code = code]]

\* A client can name a session only after it was told its identifier.
Requests ==
  [kind : {"open"}, id : {NoId}, op : Served \ {"transfer"}, name : {NoName}, approve : {FALSE}]
    \cup [kind : {"open"}, id : {NoId}, op : Served \cap {"transfer"}, name : Names, approve : {FALSE}]
    \cup [kind : {"confirm"}, id : born, op : {"none"}, name : {NoName}, approve : BOOLEAN]
    \cup [kind : {"retry"}, id : born, op : {"none"}, name : Names, approve : {FALSE}]
    \cup [kind : {"get"}, id : Ids, op : {"none"}, name : {NoName}, approve : {FALSE}]
    \cup [kind : {"cancel"}, id : born, op : {"none"}, name : {NoName}, approve : {FALSE}]

\* The prune of an empty dictionary returns at once.
Request(t) ==
  /\ up
  /\ pc[t] = "idle"
  /\ \E r \in Requests : local' = [local EXCEPT ![t] = r]
  /\ IF LiveIds = {}
       THEN Goto(t, "prune") /\ UNCHANGED prune
       ELSE /\ Goto(t, "scan")
            /\ doomed' = [doomed EXCEPT ![t] = Expired]
            /\ seen' = [seen EXCEPT ![t] = LiveIds]
  /\ UNCHANGED <<up, shared, closing, call, plan>>

\* Mutant: expired sessions are deleted while the dictionary is iterated over.
ScanEndDeleting(t) ==
  /\ pc[t] = "scan"
  /\ seen' = [seen EXCEPT ![t] = {}]
  /\ IF doomed[t] = {}
       THEN Goto(t, "prune") /\ UNCHANGED <<doomed, plan>>
       ELSE Reply(t, 500) /\ doomed' = [doomed EXCEPT ![t] = {}]
  /\ UNCHANGED <<up, shared, local, closing, call>>

\* The comprehension over SESSIONS.items() runs Python code for every entry, so
\* other threads get to run: if the dictionary's size changed meanwhile, the
\* iteration raises RuntimeError, which no handler catches.
ScanEnd(t) ==
  /\ pc[t] = "scan"
  /\ seen' = [seen EXCEPT ![t] = {}]
  /\ IF Cardinality(seen[t]) = Cardinality(LiveIds)
       THEN Goto(t, "prune") /\ UNCHANGED <<doomed, plan>>
       ELSE Reply(t, 500) /\ doomed' = [doomed EXCEPT ![t] = {}]
  /\ UNCHANGED <<up, shared, local, closing, call>>

\* Mutant: the result of the pop is not looked at before the client is closed.
PopUnchecked(t, i, closer, otherwise) ==
  /\ sessions' = [sessions EXCEPT ![i] = Absent]
  /\ closing' = [closing EXCEPT ![t] = i]
  /\ Goto(t, closer)

\* SESSIONS.pop(i, None): only the caller that gets the session closes its client.
PopSession(t, i, closer, otherwise) ==
  IF Live(i)
    THEN /\ sessions' = [sessions EXCEPT ![i] = Absent]
         /\ closing' = [closing EXCEPT ![t] = i]
         /\ Goto(t, closer)
    ELSE /\ Goto(t, otherwise)
         /\ UNCHANGED <<sessions, closing>>

\* Mutant: the prune insists on closing a session another request removed first.
DropInsisting(t) ==
  /\ pc[t] = "prune"
  /\ \E i \in doomed[t] :
       /\ Live(i)
       /\ doomed' = [doomed EXCEPT ![t] = @ \ {i}]
       /\ PopSession(t, i, "dropclose", "prune")
  /\ UNCHANGED <<up, client, made, born, accepted, local, seen, call, plan>>

\* Mutant: the expired sessions are looked for again after each one that is closed.
DropRescanning(t) ==
  /\ pc[t] = "prune"
  /\ \E i \in doomed[t] :
       /\ doomed' = [doomed EXCEPT ![t] = Expired \ {i}]
       /\ PopSession(t, i, "dropclose", "prune")
  /\ UNCHANGED <<up, client, made, born, accepted, local, seen, call, plan>>

Drop(t) ==
  /\ pc[t] = "prune"
  /\ \E i \in doomed[t] :
       /\ doomed' = [doomed EXCEPT ![t] = @ \ {i}]
       /\ PopSession(t, i, "dropclose", "prune")
  /\ UNCHANGED <<up, client, made, born, accepted, local, seen, call, plan>>

\* client.close(): exceptions are swallowed, the fields are reset in any case.
CloseClient(t) ==
  /\ pc[t] \in {"dropclose", "close"}
  /\ client' = [client EXCEPT ![closing[t]] = ClosedClient]
  /\ closing' = [closing EXCEPT ![t] = NoId]
  /\ Goto(t, IF pc[t] = "dropclose" THEN "prune" ELSE "done")
  /\ UNCHANGED <<up, sessions, made, born, accepted, local, prune, call, plan>>

\* The prune is over and the body of a request of this kind starts.
Body(t, kind) ==
  /\ pc[t] = "prune"
  /\ doomed[t] = {}
  /\ local[t].kind = kind

-----------------------------------------------------------------------------
(* Bank calls.                                                               *)

\* The handler of an operation is called on client i.
CallHandler(t, i, op, name, fn, c) ==
  /\ client' = [client EXCEPT ![i] = Calling(c, op, name)]
  /\ call' = [call EXCEPT ![t] = [fn |-> fn, owned |-> OwnsClient(c, op), sending |-> name]]
  /\ Goto(t, "bank")

\* The bank accepts the order it was sent, or not; MaxAccepted bounds the count.
CountAccepted(i, n) ==
  accepted' = [accepted EXCEPT ![i] = IF @ + n <= MaxAccepted THEN @ + n ELSE MaxAccepted]

\* The order of a transfer is accepted on success; after an error the bank may
\* have accepted it all the same, its answer being lost.
AcceptedBy(op, answer) ==
  IF op # "transfer" THEN {0}
  ELSE CASE answer = "ok"                          -> {1}
         [] answer \in {"transfer_result", "error"} -> {0, 1}
         [] OTHER                                  -> {0}

Decide(t, state, code, answer) ==
  /\ Goto(t, "mark")
  /\ plan' = [plan EXCEPT ![t] =
       [state |-> state, code |-> code,
        cause |-> IF answer = "capability" THEN "capability" ELSE "none"]]

\* Mutant: the kind of the challenge is stored for the state of the session.
AwaitingKind(answer) == answer

AwaitingState(answer) ==
  CASE answer = "tan"       -> "awaiting_tan"
    [] answer = "decoupled" -> "awaiting_decoupled"
    [] answer = "vop"       -> "awaiting_vop"

ErrorCode(answer) ==
  CASE answer = "validation" -> 400
    [] answer = "capability" -> 422
    [] answer = "raised"     -> 500
    [] OTHER                 -> 502

-----------------------------------------------------------------------------
(* POST /accounts, /balance, /transactions, /transfer                        *)
(* (_handle_client_operation).                                               *)

\* The configuration is incomplete, or create_client refuses it, which no except clause
\* catches: there is no client that could be left open.
OpenRefused(t) ==
  /\ Body(t, "open")
  /\ \E code \in {400, 500} : Reply(t, code)
  /\ UNCHANGED <<up, shared, local, prune, closing, call>>

OpenCall(t) ==
  /\ Body(t, "open")
  /\ \E i \in Ids \ made :
       /\ made' = made \cup {i}
       /\ local' = [local EXCEPT ![t].id = i]
       /\ CallHandler(t, i, local[t].op, local[t].name, "handler", client[i])
  /\ UNCHANGED <<up, sessions, born, accepted, prune, closing, plan>>

\* Only a challenge makes a session; otherwise the client object is dropped as is.
OpenAnswer(t) ==
  LET i  == local[t].id
      op == local[t].op
  IN
  /\ pc[t] = "bank"
  /\ local[t].kind = "open"
  /\ \E answer \in HandlerAnswers(op) :
       /\ \E c \in AfterHandler(client[i], op, answer, call[t].owned) :
            client' = [client EXCEPT ![i] = c]
       /\ \E n \in AcceptedBy(op, answer) : CountAccepted(i, n)
       /\ IF answer \in Challenges
            THEN Decide(t, AwaitingState(answer), 409, answer)
            ELSE Reply(t, IF answer = "ok" THEN 200 ELSE ErrorCode(answer))
  /\ call' = [call EXCEPT ![t] = NoCall]
  /\ UNCHANGED <<up, sessions, made, born, local, prune, closing>>

\* _create_session and the first _mark_session_state of the new entry.
Register(t) ==
  LET i == local[t].id
  IN
  /\ pc[t] = "mark"
  /\ local[t].kind = "open"
  /\ sessions' = [sessions EXCEPT ![i] =
       [op |-> local[t].op, state |-> plan[t].state, name |-> local[t].name, idle |-> 0]]
  /\ born' = born \cup {i}
  /\ Goto(t, "done")
  /\ UNCHANGED <<up, client, made, accepted, local, prune, closing, call, plan>>

-----------------------------------------------------------------------------
(* POST /confirm (_confirm_local).                                           *)

\* _mark_session_state stamps updated_at, and changes nothing if the session has
\* gone in the meantime.
Marked(s, state) == [s EXCEPT !.state = state, !.idle = 0]

Store(i, s) ==
  IF Live(i) THEN sessions' = [sessions EXCEPT ![i] = s]
             ELSE UNCHANGED sessions

NotFound(t, kind) ==
  /\ Body(t, kind)
  /\ ~Live(local[t].id)
  /\ Reply(t, 404)
  /\ UNCHANGED <<up, shared, local, prune, closing, call>>

\* Operation, parameters and state are copied out of the session, and the action
\* is chosen from the state and from the client's pending VoP response.
ConfirmLoad(t) ==
  LET i == local[t].id
  IN
  /\ Body(t, "confirm")
  /\ Live(i)
  /\ local' = [local EXCEPT ![t].op = sessions[i].op, ![t].name = sessions[i].name]
  /\ call' = [call EXCEPT ![t].fn =
       IF sessions[i].state = "awaiting_vop" \/ client[i].vop THEN "approve" ELSE "confirm"]
  /\ Goto(t, "loaded")
  /\ UNCHANGED <<up, shared, prune, closing, plan>>

\* The session is marked running, and then the request is refused for want of
\* approve_vop, fails on the client's own checks, or goes out to the bank.
ConfirmCall(t) ==
  LET i == local[t].id
      action == call[t].fn
  IN
  /\ pc[t] = "loaded"
  /\ local[t].kind = "confirm"
  /\ Store(i, Marked(sessions[i], "running"))
  /\ IF action = "approve" /\ ~local[t].approve
       THEN Reply(t, 400) /\ call' = [call EXCEPT ![t] = NoCall]
       ELSE IF CanSubmit(client[i], action)
         THEN /\ Goto(t, "bank")
              /\ call' = [call EXCEPT ![t].sending = client[i].order]
              /\ UNCHANGED plan
         ELSE Decide(t, "failed", 502, "error") /\ call' = [call EXCEPT ![t] = NoCall]
  /\ UNCHANGED <<up, client, made, born, accepted, local, prune, closing>>

\* Answer to send_tan or approve_vop_response.  A result goes through
\* _finalize_pending_transfer_result: with an order pending, a transaction
\* response is wrapped into a TransferResponse, which the API layer does not take
\* for the end of the transfer, and any other result starts the order again.
ConfirmAnswer(t) ==
  LET i  == local[t].id
      op == local[t].op
      fn == call[t].fn
      order == client[i].order
  IN
  /\ pc[t] = "bank"
  /\ fn \in {"confirm", "approve"}
  /\ \E answer \in SubmitAnswers(op) : \E c \in AfterSubmit(client[i], fn, answer) :
       /\ \E n \in AcceptedBy(op, answer) : CountAccepted(i, n)
       /\ IF answer = "other_result" /\ order # NoName
            THEN /\ CallHandler(t, i, "transfer", order, "finalize", c)
                 /\ UNCHANGED plan
            ELSE /\ client' = [client EXCEPT ![i] = c]
                 /\ call' = [call EXCEPT ![t] = NoCall]
                 /\ CASE answer \in Challenges ->
                           Decide(t, AwaitingState(answer),
                                  IF answer = "decoupled" THEN 202 ELSE 409, answer)
                      [] answer = "transfer_result" /\ order = NoName ->
                           Decide(t, "completed", 200, answer)
                      [] answer = "error" -> Decide(t, "failed", 502, answer)
                      [] OTHER -> Goto(t, "resume") /\ UNCHANGED plan
  /\ UNCHANGED <<up, sessions, made, born, local, prune, closing>>

\* Answer to the initiate_transfer that confirm_pending or approve_vop started.
FinalizeAnswer(t) ==
  LET i == local[t].id
  IN
  /\ pc[t] = "bank"
  /\ call[t].fn = "finalize"
  /\ \E answer \in HandlerAnswers("transfer") :
       /\ \E c \in AfterHandler(client[i], "transfer", answer, call[t].owned) :
            client' = [client EXCEPT ![i] = c]
       /\ \E n \in AcceptedBy("transfer", answer) : CountAccepted(i, n)
       /\ CASE answer \in Challenges ->
                 Decide(t, AwaitingState(answer),
                        IF answer = "decoupled" THEN 202 ELSE 409, answer)
            [] answer = "ok" -> Goto(t, "resume") /\ UNCHANGED plan
            [] answer = "capability" -> Decide(t, "failed", 422, answer)
            [] OTHER -> Decide(t, "failed", 502, answer)
  /\ call' = [call EXCEPT ![t] = NoCall]
  /\ UNCHANGED <<up, sessions, made, born, local, prune, closing>>

\* The stored operation is run again with the parameters read by ConfirmLoad.
Resume(t) ==
  LET i == local[t].id
  IN
  /\ pc[t] = "resume"
  /\ Store(i, Marked(sessions[i], "resuming"))
  /\ CallHandler(t, i, local[t].op, local[t].name, "handler", client[i])
  /\ UNCHANGED <<up, made, born, accepted, local, prune, closing, plan>>

\* Answer to the handler run by /confirm or /transfer/retry-with-name.  While a
\* retry reports a capability error as such, the resumed operation reports it as
\* a provider error.  What begin_accounts raises no except clause catches: the session
\* stays as it is.  (create_client, called again after another request has closed the
\* client, gets the configuration it was content with before.)
HandlerAnswer(t) ==
  LET i  == local[t].id
      op == local[t].op
      retry == local[t].kind = "retry"
  IN
  /\ pc[t] = "bank"
  /\ call[t].fn = "handler"
  /\ local[t].kind # "open"
  /\ \E answer \in HandlerAnswers(op) :
       /\ \E c \in AfterHandler(client[i], op, answer, call[t].owned) :
            client' = [client EXCEPT ![i] = c]
       /\ \E n \in AcceptedBy(op, answer) : CountAccepted(i, n)
       /\ CASE answer \in Challenges -> Decide(t, AwaitingState(answer), 409, answer)
            [] answer = "ok" -> Decide(t, "completed", 200, answer)
            [] answer = "raised" -> Reply(t, 500)
            [] answer = "capability" /\ ~retry -> Decide(t, "failed", 502, answer)
            [] OTHER -> Decide(t, "failed", ErrorCode(answer), answer)
  /\ call' = [call EXCEPT ![t] = NoCall]
  /\ UNCHANGED <<up, sessions, made, born, local, prune, closing>>

\* Mutant: only completed sessions are closed, failed ones stay.
MarkKeepingFailed(t) ==
  LET i == local[t].id
  IN
  /\ pc[t] = "mark"
  /\ local[t].kind # "open"
  /\ Store(i, Marked(sessions[i], plan[t].state))
  /\ Goto(t, IF plan[t].state = "completed" THEN "pop" ELSE "done")
  /\ UNCHANGED <<up, client, made, born, accepted, local, prune, closing, call, plan>>

\* Mutant: the session is written back from the copy the request loaded, whether or
\* not it is still in the registry.
MarkWritingBack(t) ==
  LET i == local[t].id
  IN
  /\ pc[t] = "mark"
  /\ local[t].kind # "open"
  /\ sessions' = [sessions EXCEPT ![i] =
       [op |-> local[t].op, state |-> plan[t].state, name |-> local[t].name, idle |-> 0]]
  /\ Goto(t, IF plan[t].state \in TerminalStates THEN "pop" ELSE "done")
  /\ UNCHANGED <<up, client, made, born, accepted, local, prune, closing, call, plan>>

\* The state decided by the answer is stored.  A terminal state is followed by _close_session.
Mark(t) ==
  LET i == local[t].id
  IN
  /\ pc[t] = "mark"
  /\ local[t].kind # "open"
  /\ Store(i, Marked(sessions[i], plan[t].state))
  /\ Goto(t, IF plan[t].state \in TerminalStates THEN "pop" ELSE "done")
  /\ UNCHANGED <<up, client, made, born, accepted, local, prune, closing, call, plan>>

Pop(t) ==
  /\ pc[t] = "pop"
  /\ PopSession(t, local[t].id, "close", "done")
  /\ UNCHANGED <<up, client, made, born, accepted, local, prune, call, plan>>

-----------------------------------------------------------------------------
(* POST /transfer/retry-with-name (_retry_transfer_with_name_local).         *)

RetryLoad(t) ==
  LET i == local[t].id
  IN
  /\ Body(t, "retry")
  /\ Live(i)
  /\ IF sessions[i].op = "transfer" /\ sessions[i].state = "awaiting_vop"
       THEN /\ local' = [local EXCEPT ![t].op = "transfer"]
            /\ Goto(t, "loaded")
            /\ UNCHANGED plan
       ELSE Reply(t, 400) /\ UNCHANGED local
  /\ UNCHANGED <<up, shared, prune, closing, call>>

\* Mutant: the corrected name reaches the bank and not the parameters of the session.
RetryCallForgettingName(t) ==
  LET i == local[t].id
  IN
  /\ pc[t] = "loaded"
  /\ local[t].kind = "retry"
  /\ Store(i, Marked(sessions[i], "running"))
  /\ CallHandler(t, i, "transfer", local[t].name, "handler",
                 ClearPendingConfirmations(client[i]))
  /\ UNCHANGED <<up, made, born, accepted, local, prune, closing, plan>>

\* Mutant: the pending confirmations survive the retry.
RetryCallKeepingPending(t) ==
  LET i == local[t].id
  IN
  /\ pc[t] = "loaded"
  /\ local[t].kind = "retry"
  /\ Store(i, [Marked(sessions[i], "running") EXCEPT !.name = local[t].name])
  /\ CallHandler(t, i, "transfer", local[t].name, "handler", client[i])
  /\ UNCHANGED <<up, made, born, accepted, local, prune, closing, plan>>

\* The pending confirmations are dropped, the new name is stored in the session,
\* and the transfer is started again on the client of the session.
RetryCall(t) ==
  LET i == local[t].id
  IN
  /\ pc[t] = "loaded"
  /\ local[t].kind = "retry"
  /\ Store(i, [Marked(sessions[i], "running") EXCEPT !.name = local[t].name])
  /\ CallHandler(t, i, "transfer", local[t].name, "handler",
                 ClearPendingConfirmations(client[i]))
  /\ UNCHANGED <<up, made, born, accepted, local, prune, closing, plan>>

-----------------------------------------------------------------------------
(* GET and DELETE /sessions/{session_id}, and the lifespan shutdown.         *)

\* Mutant: looking a session up counts as activity.
GetSessionTouching(t) ==
  LET i == local[t].id
  IN
  /\ Body(t, "get")
  /\ Live(i)
  /\ Store(i, Marked(sessions[i], sessions[i].state))
  /\ Reply(t, 200)
  /\ UNCHANGED <<up, client, made, born, accepted, local, prune, closing, call>>

GetSession(t) ==
  /\ Body(t, "get")
  /\ Live(local[t].id)
  /\ Reply(t, 200)
  /\ UNCHANGED <<up, shared, local, prune, closing, call>>

\* Mutant: the session is deleted and its client is left to itself.
CancelWithoutClose(t) ==
  LET i == local[t].id
  IN
  /\ Body(t, "cancel")
  /\ Live(i)
  /\ sessions' = [sessions EXCEPT ![i] = Absent]
  /\ Reply(t, 200)
  /\ UNCHANGED <<up, client, made, born, accepted, local, prune, closing, call>>

CancelSession(t) ==
  /\ Body(t, "cancel")
  /\ Live(local[t].id)
  /\ Goto(t, "pop")
  /\ plan' = [plan EXCEPT ![t] = [NoPlan EXCEPT !.code = 200]]
  /\ UNCHANGED <<up, shared, local, prune, closing, call>>

\* The server has finished its requests when the lifespan handler runs
\* shutdown_active_sessions over the keys of SESSIONS.
Shutdown(t) ==
  /\ up
  /\ \A u \in Threads : pc[u] = "idle"
  /\ up' = FALSE
  /\ local' = [local EXCEPT ![t] = [NoLocal EXCEPT !.kind = "shutdown"]]
  /\ doomed' = [doomed EXCEPT ![t] = LiveIds]
  /\ Goto(t, "prune")
  /\ UNCHANGED <<shared, seen, closing, call, plan>>

Return(t) ==
  /\ pc[t] = "done" \/ Body(t, "shutdown")
  /\ Goto(t, "idle")
  /\ local' = [local EXCEPT ![t] = NoLocal]
  /\ plan' = [plan EXCEPT ![t] = NoPlan]
  /\ UNCHANGED <<up, shared, prune, closing, call>>

-----------------------------------------------------------------------------
\* Time passes for every session not touched meanwhile.
Tick ==
  /\ \E i \in LiveIds : sessions[i].idle < SessionTTL
  /\ sessions' = [i \in Ids |->
       IF Live(i) /\ sessions[i].idle < SessionTTL
         THEN [sessions[i] EXCEPT !.idle = @ + 1]
         ELSE sessions[i]]
  /\ UNCHANGED <<up, client, made, born, accepted, pc, local, prune, closing, call, plan>>

\* The process ends after shutdown.
Stopped ==
  /\ ~up
  /\ \A t \in Threads : pc[t] = "idle"
  /\ UNCHANGED vars

\* The steps of a request in progress.
Serve(t) ==
  \/ ScanEnd(t) \/ Drop(t) \/ CloseClient(t)
  \/ OpenRefused(t) \/ OpenCall(t) \/ OpenAnswer(t) \/ Register(t)
  \/ \E kind \in {"confirm", "retry", "get", "cancel"} : NotFound(t, kind)
  \/ ConfirmLoad(t) \/ ConfirmCall(t) \/ ConfirmAnswer(t) \/ FinalizeAnswer(t)
  \/ Resume(t) \/ HandlerAnswer(t) \/ Mark(t) \/ Pop(t)
  \/ RetryLoad(t) \/ RetryCall(t)
  \/ GetSession(t) \/ CancelSession(t)
  \/ Return(t)

Next ==
  \/ \E t \in Threads : Request(t) \/ Serve(t) \/ Shutdown(t)
  \/ Tick
  \/ Stopped

Spec == Init /\ [][Next]_vars

=============================================================================
