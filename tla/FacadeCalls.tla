---------------------------- MODULE FacadeCalls ----------------------------
(*****************************************************************************)
(* What one FinTSClient object promises to its callers: each call leaves it  *)
(* in a state that ClientFacade lists for the answer the call returned, with *)
(* everything that happens inside the call left out.                         *)
(*****************************************************************************)
EXTENDS ClientFacade

VARIABLES
  obj,    \* the object, as the last completed call left it
  doing,  \* the call in progress
  reply   \* the answer of the last completed call

vars == <<obj, doing, reply>>

Calls == [fn : {"handler"}, op : Operations \ {"transfer"}, name : {NoName}]
           \cup [fn : {"handler"}, op : {"transfer"}, name : Names]
           \cup [fn : {"confirm", "approve"}, op : {"none"}, name : {NoName}]

NoDoing == [fn |-> "none", op |-> "none", name |-> NoName]

Init == obj = ClosedClient /\ doing = NoDoing /\ reply = "none"

Begin ==
  /\ doing = NoDoing
  /\ doing' \in Calls
  /\ UNCHANGED <<obj, reply>>

\* A handler started on c answers; or a transfer is refused before it touches c; or
\* create_client fails, outside of _run and of the scope, and there still is no client.
Handled(c, op, name) ==
  \/ \E answer \in HandlerAnswers(op) :
       /\ reply' = answer
       /\ \/ obj' \in AfterHandler(Calling(c, op, name), op, answer, OwnsClient(c, op))
          \/ answer = "validation" /\ obj' = c
  \/ ~c.open /\ obj' = c /\ reply' \in BankAnswers \cap {"raised"}

FinishHandler ==
  /\ doing.fn = "handler"
  /\ Handled(obj, doing.op, doing.name)
  /\ doing' = NoDoing

\* A confirmation without an order pending, or with a result for the order, ends with
\* the bank's answer; with any other result the order pending is sent again.
FinishSubmit ==
  /\ doing.fn \in {"confirm", "approve"}
  /\ doing' = NoDoing
  /\ \/ /\ ~CanSubmit(obj, doing.fn)
        /\ obj' = obj /\ reply' = "error"
     \/ /\ CanSubmit(obj, doing.fn)
        /\ \E answer \in SubmitAnswers("transfer") : \E c \in AfterSubmit(obj, doing.fn, answer) :
             IF answer = "other_result" /\ obj.order # NoName
               THEN Handled([c EXCEPT !.order = NoName], "transfer", obj.order)
               ELSE obj' = c /\ reply' = answer

Close == doing = NoDoing /\ obj' = ClosedClient /\ UNCHANGED <<doing, reply>>

Clear == doing = NoDoing /\ obj' = ClearPendingConfirmations(obj) /\ UNCHANGED <<doing, reply>>

Next == Begin \/ FinishHandler \/ FinishSubmit \/ Close \/ Clear

Spec == Init /\ [][Next]_vars

=============================================================================
