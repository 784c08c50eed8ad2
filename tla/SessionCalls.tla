---------------------------- MODULE SessionCalls ----------------------------
(*****************************************************************************)
(* How the request handlers use the client objects: SessionStore, joined to  *)
(* FacadeCalls, the promise that ClientRuntime is shown to keep.  A request  *)
(* changes a client object only by calls that FacadeCalls knows, one at a    *)
(* time, and reckons with what each may leave behind.                        *)
(*****************************************************************************)
EXTENDS SessionProperties

VARIABLE before  \* history: the client objects, as their last completed call left them

callVars == <<vars, before>>

NoDoing == [fn |-> "none", op |-> "none", name |-> NoName]

\* Thread t is between the load of a session and the call on its client, which it is
\* going to make: without approve_vop a payee is not approved.
Confirming(t) ==
  /\ pc[t] = "loaded" /\ local[t].kind = "confirm"
  /\ call[t].fn = "approve" => local[t].approve

\* The pending confirmations are going to be dropped.
Retrying(t) == pc[t] = "loaded" /\ local[t].kind = "retry"

\* A call on client i is in progress.
InCall(t, i) == local[t].id = i /\ (pc[t] = "bank" \/ Confirming(t))

\* While it is, its beginning is remembered.
Remember ==
  before' = [i \in Ids |->
    IF \E t \in Threads : InCall(t, i)' THEN before[i]
    ELSE IF \E t \in Threads : Retrying(t)' /\ local'[t].id = i THEN ClearPendingConfirmations(client'[i])
    ELSE client'[i]]

\* The call of thread t on client i.  An order sent again while it is confirmed belongs to
\* the confirmation, which was chosen by the pending VoP response.
Doing(t, i) ==
  IF ~InCall(t, i) THEN NoDoing
  ELSE CASE call[t].fn = "handler"  -> [fn |-> "handler", op |-> local[t].op, name |-> local[t].name]
         [] call[t].fn = "finalize" -> [NoDoing EXCEPT !.fn = IF before[i].vop THEN "approve" ELSE "confirm"]
         [] OTHER                   -> [NoDoing EXCEPT !.fn = call[t].fn]

CallsInit == Init /\ before = client

CallsSpec == CallsInit /\ [][Next /\ Remember]_callVars

-----------------------------------------------------------------------------
(* FacadeCalls writes the answer of a call and never reads it, so a fixed    *)
(* value in its place stands for the answer that the step at hand returns.   *)

Facade(t, i, answer) ==
  INSTANCE FacadeCalls WITH obj <- before[i], doing <- Doing(t, i), reply <- answer

Replies == BankAnswers \cup {"error", "none"}

\* To each client object the requests do only what FacadeCalls lists: calls one after
\* another, with the parameters of their operation and from the state the last one left,
\* through confirmations that send an order again, retries, resumptions and expiry.
ObjectCalls ==
  /\ \A t \in Threads, i \in Ids : Facade(t, i, "none")!Init
  /\ [][\A t \in Threads, i \in Ids :
          \/ \E answer \in Replies : Facade(t, i, answer)!Next
          \/ UNCHANGED <<before[i], Doing(t, i)>>]_callVars

=============================================================================
