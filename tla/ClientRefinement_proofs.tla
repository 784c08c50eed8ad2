------------------------ MODULE ClientRefinement_proofs ------------------------
(*****************************************************************************)
(* ClientRuntime implements FacadeCalls, for all names, kinds of answer and  *)
(* numbers of challenges: what happens inside a call ends in a state that    *)
(* ClientFacade lists for the answer the call returns.                       *)
(*****************************************************************************)
EXTENDS ClientRuntime_proofs

Handling   == call.fn \in {"handler", "finalize"}
Submitting == call.fn \in {"confirm", "approve"}

\* The object from which the handler in progress started: the object before the call, or
\* what the result of a confirmation left of it before the order was sent again.
Base ==
  IF call.fn = "finalize"
    THEN [before EXCEPT !.vop = FALSE, !.tan = (request.fn = "approve" /\ before.tan), !.order = NoName]
    ELSE before

Begun == Calling(Base, call.op, call.name)

\* No challenge is remembered without a client.
BareInv == conn = "none" => tan = 0 /\ ~vop

\* The call in progress is the one that was requested, or sends its pending order again.
RequestInv ==
  pc # "idle" =>
    /\ Handling \/ Submitting
    /\ ~Base.open => Base.order = NoName
    /\ Submitting => request.fn = call.fn /\ ~ call.owned
    /\ call.fn = "handler" => request = [fn |-> "handler", op |-> call.op, name |-> call.name]
    /\ Handling => call.op \in Operations /\ call.owned = OwnsClient(Base, call.op)
    /\ call.fn = "finalize" =>
         /\ request.fn \in {"confirm", "approve"} /\ CanSubmit(before, request.fn)
         /\ "other_result" \in BankAnswers
         /\ before.order # NoName /\ call.name = before.order

\* What the end of a handler makes of the object.
Settled ==
  [Current EXCEPT !.order = IF call.op = "transfer" /\ outcome.answer \notin Challenges
                              THEN NoName ELSE order]

\* What an answer adds to an object while the scope is left.
Interrupted(c, answer) ==
  [c EXCEPT !.tan = c.tan \/ answer = "tan", !.vop = c.vop \/ answer = "vop"]

\* Where a handler has come to, against where it began.
HandlerInv ==
  Handling =>
    /\ pc = "validate" => Current = Base
    /\ pc = "prepare" => ~Base.open /\ conn = "none" /\ Current = [Begun EXCEPT !.open = FALSE]
    /\ pc \in {"enter", "operate"} => Current = Begun
    /\ pc = "exit" =>
         /\ outcome.answer \in HandlerAnswers(call.op)
              \/ (outcome.answer = "raised" /\ "error" \in BankAnswers /\ call.op # "accounts")
         /\ Current = Interrupted(Begun, outcome.answer)
    /\ pc = "settle" =>
         \/ /\ outcome.answer \in HandlerAnswers(call.op)
            /\ Settled \in AfterHandler(Begun, call.op, outcome.answer, call.owned)
         \/ /\ outcome.answer \in BankAnswers \cap {"raised"}
            /\ ~Base.open /\ Settled = Base

\* A confirmation changes the object when it settles, unless the dialog had to be opened
\* again and the bank asked for a TAN.
SubmitInv ==
  Submitting =>
    /\ pc \notin {"validate", "prepare"}
    /\ pc \in {"enter", "operate", "exit"} => Current = before /\ CanSubmit(before, call.fn)
    /\ pc = "exit" =>
         outcome.answer \in SubmitAnswers("transfer")
           \/ (outcome.answer = "raised" /\ "error" \in BankAnswers)
    /\ pc = "settle" =>
         IF CanSubmit(before, call.fn)
           THEN /\ outcome.answer \in SubmitAnswers("transfer")
                /\ \/ Current = before
                   \/ outcome.answer = "tan" /\ outcome.tan = tan
                        /\ Current = [before EXCEPT !.tan = TRUE]
           ELSE outcome.answer = "error" /\ Current = before

RunInv == RequestInv /\ HandlerInv /\ SubmitInv

-----------------------------------------------------------------------------
LEMMA ViewType ==
  ASSUME TypeOK
  PROVE  /\ Current \in Client /\ Base \in Client /\ Begun \in Client /\ NoName \in OrderName
<1>1. Current \in Client
  BY CurrentType
<1>2. NoName \in OrderName
  BY DEF OrderName
<1>3. Base \in Client
  BY <1>2 DEF TypeOK, Base, Client
<1>4. call.op \in Operations \cup {"none"} /\ call.name \in OrderName
  BY CallKinds DEF TypeOK, Call, Operations
<1>5. Begun \in Client
  BY <1>3, <1>4 DEF Begun, Calling, Client
<1> QED BY <1>1, <1>2, <1>3, <1>5

LEMMA OwnedType == TypeOK => call.owned \in BOOLEAN
BY DEF TypeOK, Call

\* While a call goes on, what its beginning was stays the same.
LEMMA BaseStays ==
  ASSUME UNCHANGED <<before, request, call>>
  PROVE  Base' = Base /\ Begun' = Begun /\ Handling' = Handling /\ Submitting' = Submitting
BY DEF Base, Begun, Calling, Handling, Submitting

LEMMA CurrentStays ==
  ASSUME UNCHANGED <<conn, tan, vop, order>>
  PROVE  Current' = Current
BY DEF Current

LEMMA CurrentOpens ==
  ASSUME TypeOK, UNCHANGED <<tan, vop, order>>, conn' # "none"
  PROVE  Current' = [Current EXCEPT !.open = TRUE]
<1>1. Current \in Client
  BY ViewType
<1>2. /\ Current' \in Client /\ Current'.open = TRUE /\ Current'.tan = Current.tan
      /\ Current'.vop = Current.vop /\ Current'.order = Current.order
  BY DEF TypeOK, Current, Client
<1> QED BY <1>1, <1>2 DEF Client

LEMMA CurrentAwaitsTan ==
  ASSUME TypeOK, UNCHANGED <<conn, vop, order>>, tan' # 0
  PROVE  Current' = [Current EXCEPT !.tan = TRUE]
<1>1. Current \in Client
  BY ViewType
<1>2. /\ Current' \in Client /\ Current'.tan = TRUE /\ Current'.open = Current.open
      /\ Current'.vop = Current.vop /\ Current'.order = Current.order
  BY DEF TypeOK, Current, Client
<1> QED BY <1>1, <1>2 DEF Client

LEMMA CurrentAwaitsApproval ==
  ASSUME TypeOK, UNCHANGED <<conn, tan, order>>, vop'
  PROVE  Current' = [Current EXCEPT !.vop = TRUE]
<1>1. Current \in Client
  BY ViewType
<1>2. /\ Current' \in Client /\ Current'.vop = TRUE /\ Current'.open = Current.open
      /\ Current'.tan = Current.tan /\ Current'.order = Current.order
  BY Zenon, <1>1 DEF TypeOK, Current, Client
<1> QED BY <1>1, <1>2 DEF Client

\* The answers that interrupt an operation, and those that do not.
LEMMA InterruptedClient ==
  ASSUME NEW c \in Client
  PROVE  /\ Interrupted(c, "tan") = [c EXCEPT !.tan = TRUE]
         /\ Interrupted(c, "vop") = [c EXCEPT !.vop = TRUE]
         /\ \A answer : answer \notin {"tan", "vop"} => Interrupted(c, answer) = c
<1>1. Interrupted(c, "tan") = [c EXCEPT !.tan = TRUE]
  BY DEF Interrupted, Client
<1>2. Interrupted(c, "vop") = [c EXCEPT !.vop = TRUE]
  BY DEF Interrupted, Client
<1>3. ASSUME NEW answer, answer \notin {"tan", "vop"}
      PROVE  Interrupted(c, answer) = c
  BY <1>3 DEF Interrupted, Client
<1> QED BY <1>1, <1>2, <1>3

\* A call that ends without a challenge settles as AfterHandler says.
LEMMA PlainEnd ==
  ASSUME TypeOK, NEW answer, answer \notin Challenges,
         NEW c, c.order = order,
         NEW owned \in BOOLEAN, owned => answer \notin {"ok", "validation"}
  PROVE  [c EXCEPT !.order = IF call.op = "transfer" /\ answer \notin Challenges
                               THEN NoName ELSE order]
           \in AfterHandler(c, call.op, answer, owned)
BY DEF AfterHandler, Challenges

-----------------------------------------------------------------------------
(* The invariant, step by step.                                              *)

LEMMA RunInit == Init => RunInv
BY DEF Init, RunInv, RequestInv, HandlerInv, SubmitInv, NoCall, Handling, Submitting

\* An object without a client keeps no order between calls.
LEMMA BareOrder ==
  ASSUME IInv, BareInv, pc = "idle", ~Current.open
  PROVE  Current.order = NoName
BY DEF IInv, OrderInv, BareInv, Current

LEMMA StartReadRun ==
  ASSUME IInv, RunInv, BareInv, StartRead
  PROVE  RunInv'
<1>1. PICK op \in Operations \ {"transfer"} : Start("handler", op, NoName)
  BY DEF StartRead
<1>2. /\ call' = [fn |-> "handler", op |-> op, name |-> NoName,
                  owned |-> op # "accounts" /\ conn = "none"]
      /\ request' = [fn |-> "handler", op |-> op, name |-> NoName]
      /\ before' = Current /\ UNCHANGED object
  BY <1>1 DEF Start
<1>3. Current' = Current /\ Base' = Current /\ Current \in Client
  BY <1>2, ViewType DEF Base, object, Current, IInv
<1>4. pc' = IF conn = "none" THEN "prepare" ELSE "enter"
  BY DEF StartRead, Approach
<1>5. call'.owned = OwnsClient(Current, op)
  BY <1>2 DEF OwnsClient, Current
<1>6. Begun' = [Current EXCEPT !.open = TRUE]
  BY <1>2, <1>3 DEF Begun, Calling, Client
<1>7. RequestInv'
  BY <1>1, <1>2, <1>3, <1>4, <1>5, BareOrder DEF RequestInv, Handling, Submitting, Start
<1>8. conn # "none" => Current.open = TRUE
  BY DEF Current
<1>9. conn # "none" => Begun' = Current
  BY <1>3, <1>6, <1>8 DEF Client
<1>12. conn = "none" => ~Current.open /\ conn' = "none" /\ Current = [Begun' EXCEPT !.open = FALSE]
  BY <1>2, <1>3, <1>6 DEF Current, Client, object
<1>10. HandlerInv'
  BY <1>2, <1>3, <1>4, <1>9, <1>12 DEF HandlerInv
<1>11. SubmitInv'
  BY <1>2 DEF SubmitInv, Submitting
<1> QED BY <1>7, <1>10, <1>11 DEF RunInv

LEMMA StartTransferRun ==
  ASSUME IInv, RunInv, BareInv, StartTransfer
  PROVE  RunInv'
<1>1. PICK name \in Names : Start("handler", "transfer", name)
  BY DEF StartTransfer
<1>2. /\ call' = [fn |-> "handler", op |-> "transfer", name |-> name, owned |-> conn = "none"]
      /\ request' = [fn |-> "handler", op |-> "transfer", name |-> name]
      /\ before' = Current /\ UNCHANGED object /\ pc' = "validate"
  BY <1>1 DEF Start, StartTransfer
<1>3. Current' = Current /\ Base' = Current
  BY <1>2 DEF Base, object, Current
<1>4. call'.owned = OwnsClient(Current, "transfer")
  BY <1>2 DEF OwnsClient, Current
<1>5. RequestInv'
  BY <1>1, <1>2, <1>3, <1>4, BareOrder DEF RequestInv, Handling, Submitting, Operations, Start
<1>6. HandlerInv' /\ SubmitInv'
  BY <1>2, <1>3 DEF HandlerInv, SubmitInv, Submitting
<1> QED BY <1>5, <1>6 DEF RunInv

LEMMA StartSubmitRun ==
  ASSUME IInv, RunInv, BareInv, StartSubmit
  PROVE  RunInv'
<1>1. PICK fn \in {"confirm", "approve"} :
        /\ Start(fn, "none", NoName)
        /\ IF conn # "none" /\ (IF fn = "confirm" THEN tan # 0 ELSE vop)
             THEN pc' = "enter" /\ UNCHANGED outcome
             ELSE pc' = "settle" /\ outcome' = [NoOutcome EXCEPT !.answer = "error"]
  BY DEF StartSubmit
<1>2. /\ call'.fn = fn /\ ~ call'.owned /\ request'.fn = fn /\ before' = Current /\ UNCHANGED object
  BY <1>1 DEF Start
<1>3. Current' = Current
  BY <1>2 DEF object, Current
<1>4. CanSubmit(Current, fn) <=> conn # "none" /\ (IF fn = "confirm" THEN tan # 0 ELSE vop)
  BY DEF CanSubmit, Current
<1>8. ~Base'.open => Base'.order = NoName
  BY <1>1, <1>2, BareOrder DEF Base, Start
<1>5. RequestInv' /\ HandlerInv'
  BY <1>2, <1>8 DEF RequestInv, HandlerInv, Handling, Submitting
<1>6. pc' = "settle" => outcome'.answer = "error"
  BY <1>1 DEF NoOutcome
<1>7. SubmitInv'
  <2>1. CASE CanSubmit(Current, fn)
    BY <1>1, <1>2, <1>3, <1>4, <2>1 DEF SubmitInv, CanSubmit
  <2>2. CASE ~ CanSubmit(Current, fn)
    BY <1>1, <1>2, <1>3, <1>4, <1>6, <2>2 DEF SubmitInv, CanSubmit
  <2> QED BY <2>1, <2>2
<1> QED BY <1>5, <1>7 DEF RunInv

LEMMA ValidateRun ==
  ASSUME IInv, RunInv, Validate
  PROVE  RunInv'
<1>1. CASE Return([NoOutcome EXCEPT !.answer = "validation"])
  BY <1>1 DEF Return, NoCall, RunInv, RequestInv, HandlerInv, SubmitInv, Handling, Submitting
<1>2. CASE /\ pc = "validate" /\ order' = call.name /\ Approach
           /\ UNCHANGED <<conn, dialog, initTan, tan, vop, call, outcome, issued, history>>
  <2>1. call.op = "transfer" /\ Handling /\ Current = Base
    BY <1>2 DEF IInv, StepInv, RunInv, RequestInv, HandlerInv, SubmitInv
  <2>2. pc' = IF conn = "none" THEN "prepare" ELSE "enter"
    BY <1>2 DEF Approach
  <2>3. Base' = Base /\ Begun' = Begun /\ Handling' /\ ~ Submitting'
    BY <1>2, <2>1, BaseStays DEF history, Handling, Submitting
  <2>4. Current' = [Base EXCEPT !.order = call.name]
    BY <1>2, <2>1 DEF Current
  <2>5. Begun = [Base EXCEPT !.open = TRUE, !.order = call.name]
    BY <2>1 DEF Begun, Calling
  <2>6. conn # "none" => Base.open = TRUE
    BY <2>1 DEF Current
  <2>7. conn = "none" => ~Base.open /\ conn' = "none" /\ Current' = [Begun EXCEPT !.open = FALSE]
    <3>1. conn = "none" => Base.open = FALSE
      BY <2>1 DEF Current
    <3> QED BY <1>2, <2>4, <2>5, <3>1, ViewType DEF IInv, Client
  <2>8. conn # "none" => Current' = Begun
    BY <2>4, <2>5, <2>6, ViewType DEF IInv, Client
  <2>9. RequestInv'
    BY <1>2, <2>1, <2>3 DEF RunInv, RequestInv, Handling, Submitting, history
  <2>10. HandlerInv'
    BY <2>2, <2>3, <2>7, <2>8 DEF HandlerInv
  <2>11. SubmitInv'
    BY <2>3 DEF SubmitInv
  <2> QED BY <2>9, <2>10, <2>11 DEF RunInv
<1> QED BY <1>1, <1>2 DEF Validate

LEMMA PrepareRun ==
  ASSUME IInv, RunInv, Prepare
  PROVE  RunInv'
<1>1. /\ pc = "prepare" /\ UNCHANGED <<tan, vop, order, call, before, request>>
      /\ \/ conn' # "none" /\ pc' = "enter"
         \/ /\ conn' # "none" /\ pc' = "settle"
            /\ outcome'.answer \in BankAnswers \cap {"error", "capability"}
         \/ /\ conn' = conn /\ pc' = "settle"
            /\ outcome'.answer \in BankAnswers \cap {"raised"}
  BY DEF Prepare, Leave, history
<1>2. Handling /\ ~Base.open /\ Current = [Begun EXCEPT !.open = FALSE]
  BY <1>1 DEF RunInv, RequestInv, HandlerInv, SubmitInv
<1>9. [Current EXCEPT !.open = TRUE] = Begun
  BY <1>2, ViewType DEF IInv, Begun, Calling, Client
<1>3. Base' = Base /\ Begun' = Begun /\ Handling' /\ ~ Submitting'
  BY <1>1, <1>2, BaseStays DEF Handling, Submitting
<1>4. conn' # "none" => Current' = Begun
  BY <1>1, <1>9, CurrentOpens DEF IInv
<1>5. RequestInv'
  BY <1>1, <1>3 DEF RunInv, RequestInv, Handling, Submitting
<1>6. call.op \in Operations
  BY <1>1, <1>2 DEF RunInv, RequestInv
<1>7. CASE conn' # "none" /\ pc' = "enter"
  BY <1>2, <1>3, <1>4, <1>5, <1>7 DEF RunInv, HandlerInv, SubmitInv
<1>8. CASE conn' # "none" /\ pc' = "settle" /\ outcome'.answer \in BankAnswers \cap {"error", "capability"}
  <2>1. outcome'.answer \in HandlerAnswers(call.op)
    BY <1>6, <1>8 DEF HandlerAnswers, Operations
  <2>2. Settled' = [Begun EXCEPT !.order = IF call.op = "transfer" THEN NoName ELSE Begun.order]
    BY <1>1, <1>4, <1>8 DEF Settled, Challenges, Current
  <2>3. Settled' \in AfterHandler(Begun, call.op, outcome'.answer, call.owned)
    BY <1>8, <2>2 DEF AfterHandler
  <2> QED BY <1>1, <1>3, <1>5, <1>8, <2>1, <2>3 DEF RunInv, HandlerInv, SubmitInv
<1>10. CASE conn' = conn /\ pc' = "settle" /\ outcome'.answer \in BankAnswers \cap {"raised"}
  <2>1. Current' = Current
    BY <1>1, <1>10, CurrentStays
  <2>2. Base \in Client /\ (~Base.open => Base.order = NoName)
    BY <1>1, ViewType DEF IInv, RunInv, RequestInv
  <2>3. Settled' = [Begun EXCEPT !.open = FALSE,
                                 !.order = IF call.op = "transfer" THEN NoName ELSE Begun.order]
    BY <1>1, <1>2, <1>10, <2>1, ViewType DEF Settled, Challenges, Current, IInv, Client
  <2>4. Settled' = Base
    BY <1>2, <2>2, <2>3 DEF Begun, Calling, Client
  <2> QED BY <1>1, <1>2, <1>3, <1>5, <1>10, <2>4 DEF RunInv, HandlerInv, SubmitInv
<1> QED BY <1>1, <1>7, <1>8, <1>10

LEMMA EnterStandingRun ==
  ASSUME IInv, RunInv, EnterStanding
  PROVE  RunInv'
<1>1. /\ pc = "enter" /\ pc' = "operate" /\ UNCHANGED <<call, before, request>>
      /\ UNCHANGED <<conn, tan, vop, order>>
  BY DEF EnterStanding, object, history
<1>2. Base' = Base /\ Begun' = Begun /\ Handling' = Handling /\ Submitting' = Submitting
  BY <1>1, BaseStays
<1>3. Current' = Current
  BY <1>1, CurrentStays
<1>4. RequestInv' /\ HandlerInv' /\ SubmitInv'
  BY <1>1, <1>2, <1>3 DEF RunInv, RequestInv, HandlerInv, SubmitInv
<1> QED BY <1>4 DEF RunInv

\* What a handler's end makes of the object where it began, when it is interrupted by a TAN.
LEMMA TanSettles ==
  ASSUME NEW op \in Operations, NEW owned, NEW c, "tan" \in BankAnswers
  PROVE  /\ "tan" \in HandlerAnswers(op) /\ "tan" \in SubmitAnswers("transfer")
         /\ [c EXCEPT !.tan = TRUE] \in AfterHandler(c, op, "tan", owned)
BY DEF HandlerAnswers, SubmitAnswers, AfterHandler

\* An object given up is what is left of an owned client.
LEMMA ClosedEnd ==
  ASSUME Closed, NEW op, NEW answer \in HandlerAnswers(op), answer \notin Challenges
  PROVE  Current' = ClosedClient /\ order' = NoName
         /\ \A c : ClosedClient \in AfterHandler(c, op, answer, TRUE)
         /\ \A b \in BOOLEAN : [ClosedClient EXCEPT !.order = IF b THEN NoName ELSE order'] = ClosedClient
<1>1. order' = NoName
  BY DEF Closed
<1>2. Current' = ClosedClient
  BY DEF Closed, Current, ClosedClient
<1>3. \A c : ClosedClient \in AfterHandler(c, op, answer, TRUE)
  BY DEF AfterHandler, Challenges
<1>4. ASSUME NEW b \in BOOLEAN
      PROVE  [ClosedClient EXCEPT !.order = IF b THEN NoName ELSE order'] = ClosedClient
  <2>1. ClosedClient \in Client /\ ClosedClient.order = NoName
    BY DEF ClosedClient, Client, OrderName
  <2>2. (IF b THEN NoName ELSE order') = NoName
    BY <1>1
  <2> QED BY <2>1, <2>2 DEF Client
<1> QED BY <1>1, <1>2, <1>3, <1>4

LEMMA OpenDialogRun ==
  ASSUME IInv, RunInv, OpenDialog
  PROVE  RunInv'
<1>1. /\ pc = "enter" /\ UNCHANGED <<conn, vop, order, call, before, request>>
      /\ \/ pc' = "operate" /\ tan' = tan
         \/ /\ pc' = "settle" /\ tan' # 0 /\ outcome' = [answer |-> "tan", tan |-> tan']
            /\ "tan" \in BankAnswers
  BY DEF OpenDialog, Leave, history, IInv, StepInv
<1>2. Base' = Base /\ Begun' = Begun /\ Handling' = Handling /\ Submitting' = Submitting
  BY <1>1, BaseStays
<1>3. RequestInv'
  BY <1>1, <1>2 DEF RunInv, RequestInv
<1>4. CASE pc' = "operate" /\ tan' = tan
  <2>1. Current' = Current
    BY <1>1, <1>4, CurrentStays
  <2> QED BY <1>1, <1>2, <1>3, <1>4, <2>1 DEF RunInv, RequestInv, HandlerInv, SubmitInv
<1>5. CASE /\ pc' = "settle" /\ tan' # 0 /\ outcome' = [answer |-> "tan", tan |-> tan']
           /\ "tan" \in BankAnswers
  <2>1. Current' = [Current EXCEPT !.tan = TRUE]
    BY <1>1, <1>5, CurrentAwaitsTan DEF IInv
  <2>2. Settled' = Current'
    BY <1>5 DEF Settled, Challenges, Current
  <2>3. HandlerInv'
    <3>1. SUFFICES ASSUME Handling PROVE HandlerInv'
      BY <1>2 DEF HandlerInv
    <3>2. call.op \in Operations /\ Current = Begun
      BY <1>1, <3>1 DEF RunInv, RequestInv, HandlerInv
    <3> QED BY <1>1, <1>2, <1>5, <2>1, <2>2, <3>2, TanSettles DEF HandlerInv
  <2>4. SubmitInv'
    <3>1. "tan" \in SubmitAnswers("transfer")
      BY <1>5, TanSettles DEF Operations
    <3> QED BY <1>1, <1>2, <1>5, <2>1, <3>1 DEF RunInv, SubmitInv
  <2> QED BY <1>3, <2>3, <2>4 DEF RunInv
<1> QED BY <1>1, <1>4, <1>5

LEMMA OpenDialogFailsRun ==
  ASSUME IInv, RunInv, OpenDialogFails
  PROVE  RunInv'
<1>1. /\ pc = "enter" /\ pc' = "settle" /\ UNCHANGED <<call, before, request>>
      /\ outcome'.answer = "error" /\ "error" \in BankAnswers
      /\ IF call.owned THEN Closed ELSE UNCHANGED <<conn, tan, vop, order>>
  BY DEF OpenDialogFails, Leave, history
<1>2. Base' = Base /\ Begun' = Begun /\ Handling' = Handling /\ Submitting' = Submitting
  BY <1>1, BaseStays
<1>3. RequestInv'
  BY <1>1, <1>2 DEF RunInv, RequestInv
<1>4. HandlerInv'
  <2>1. SUFFICES ASSUME Handling PROVE HandlerInv'
    BY <1>2 DEF HandlerInv
  <2>2. call.op \in Operations /\ Current = Begun
    BY <1>1, <2>1 DEF RunInv, RequestInv, HandlerInv
  <2>3. "error" \in HandlerAnswers(call.op) /\ "error" \notin Challenges
    BY <1>1, <2>2 DEF HandlerAnswers, Challenges
  <2>4. Settled' \in AfterHandler(Begun, call.op, "error", call.owned)
    <3>1. CASE call.owned
      <4>1. Settled' = ClosedClient
        BY <1>1, <2>3, <3>1, ClosedEnd DEF Settled
      <4>2. call.owned = TRUE
        BY <3>1, OwnedType DEF IInv
      <4> QED BY <1>1, <2>3, <3>1, <4>1, <4>2, ClosedEnd
    <3>2. CASE ~ call.owned
      <4>1. Current' = Current /\ order' = order /\ Current.order = order
        BY <1>1, <3>2, CurrentStays DEF Current
      <4>2. Settled' = [Begun EXCEPT !.order = IF call.op = "transfer" /\ "error" \notin Challenges
                                                THEN NoName ELSE order]
        BY <1>1, <2>2, <4>1 DEF Settled
      <4> QED BY <2>2, <2>3, <3>2, <4>1, <4>2, OwnedType, PlainEnd DEF IInv
    <3> QED BY <3>1, <3>2
  <2> QED BY <1>1, <1>2, <2>3, <2>4 DEF HandlerInv
<1>5. SubmitInv'
  <2>1. SUFFICES ASSUME Submitting PROVE SubmitInv'
    BY <1>2 DEF SubmitInv
  <2>2. "error" \in SubmitAnswers("transfer")
    BY <1>1 DEF SubmitAnswers
  <2>3. Current' = Current
    BY <1>1, <2>1, CurrentStays DEF RunInv, RequestInv
  <2> QED BY <1>1, <1>2, <2>1, <2>2, <2>3 DEF RunInv, SubmitInv
<1> QED BY <1>3, <1>4, <1>5 DEF RunInv

LEMMA OperateRun ==
  ASSUME IInv, RunInv, Operate
  PROVE  RunInv'
<1>1. /\ pc = "operate" /\ pc' = "exit" /\ UNCHANGED <<call, before, request, conn, order>>
      /\ Handling
      /\ \/ /\ outcome'.answer \in HandlerAnswers(call.op) \ Challenges
            /\ UNCHANGED <<tan, vop>>
         \/ /\ outcome'.answer = "raised" /\ "error" \in BankAnswers /\ call.op # "accounts"
            /\ UNCHANGED <<tan, vop>>
         \/ /\ outcome'.answer = "tan" /\ "tan" \in HandlerAnswers(call.op)
            /\ tan' # 0 /\ vop' = vop
         \/ /\ outcome'.answer = "vop" /\ "vop" \in HandlerAnswers(call.op)
            /\ tan' = tan /\ vop'
  <2>1. \A id : Issue(id) => id # 0
    BY IssueType DEF IInv
  <2>2. "error" \in HandlerAnswers(call.op) => "error" \in BankAnswers
    BY DEF HandlerAnswers
  <2> QED BY <2>1, <2>2 DEF Operate, Leave, history, Handling
<1>2. Base' = Base /\ Begun' = Begun /\ Handling' /\ ~ Submitting'
  BY <1>1, BaseStays DEF Handling, Submitting
<1>3. Current = Begun /\ Begun \in Client
  BY <1>1, ViewType DEF RunInv, HandlerInv, IInv
<1>4. Current' = Interrupted(Begun, outcome'.answer)
  <2>1. CASE UNCHANGED <<tan, vop>> /\ outcome'.answer \notin {"tan", "vop"}
    BY <1>1, <1>3, <2>1, CurrentStays, InterruptedClient
  <2>2. CASE outcome'.answer = "tan" /\ tan' # 0 /\ vop' = vop
    BY <1>1, <1>3, <2>2, CurrentAwaitsTan, InterruptedClient DEF IInv
  <2>3. CASE outcome'.answer = "vop" /\ tan' = tan /\ vop'
    BY <1>1, <1>3, <2>3, CurrentAwaitsApproval, InterruptedClient DEF IInv
  <2> QED BY <1>1, <2>1, <2>2, <2>3 DEF Challenges
<1>5. RequestInv'
  BY <1>1, <1>2 DEF RunInv, RequestInv, Handling, Submitting
<1>6. HandlerInv' /\ SubmitInv'
  BY <1>1, <1>2, <1>4 DEF HandlerInv, SubmitInv
<1> QED BY <1>5, <1>6 DEF RunInv

LEMMA SubmitRun ==
  ASSUME IInv, RunInv, Submit
  PROVE  RunInv'
<1>1. /\ pc = "operate" /\ pc' = "exit" /\ UNCHANGED <<object, call, before, request>>
      /\ Submitting
      /\ outcome'.answer \in SubmitAnswers("transfer")
           \/ (outcome'.answer = "raised" /\ "error" \in BankAnswers)
  <2>1. "tan" \in BankAnswers => "tan" \in SubmitAnswers("transfer")
    BY DEF SubmitAnswers
  <2> QED BY <2>1 DEF Submit, Leave, history, Submitting
<1>2. Current' = Current /\ ~ Handling' /\ Submitting' /\ Base' = Base
  BY <1>1, CurrentStays, BaseStays DEF object, Handling, Submitting
<1>3. RequestInv'
  BY <1>1, <1>2 DEF RunInv, RequestInv, Handling, Submitting
<1>4. HandlerInv' /\ SubmitInv'
  BY <1>1, <1>2 DEF RunInv, HandlerInv, SubmitInv
<1> QED BY <1>3, <1>4 DEF RunInv

LEMMA ExitRun ==
  ASSUME IInv, RunInv, Exit
  PROVE  RunInv'
<1> DEFINE raised == outcome.answer = "raised" /\ call.op # "accounts"
           closes == call.owned /\ ~ raised /\ outcome.answer \notin Challenges
<1>1. /\ pc = "exit" /\ pc' = "settle" /\ UNCHANGED <<call, before, request>>
      /\ outcome' = IF raised THEN [outcome EXCEPT !.answer = "error"] ELSE outcome
      /\ IF closes THEN Closed ELSE UNCHANGED <<conn, tan, vop, order>>
  BY DEF Exit, history
<1>2. Base' = Base /\ Begun' = Begun /\ Handling' = Handling /\ Submitting' = Submitting
  BY <1>1, BaseStays
<1>3. RequestInv'
  BY <1>1, <1>2 DEF RunInv, RequestInv
<1>4. outcome'.answer = IF raised THEN "error" ELSE outcome.answer
  BY <1>1 DEF IInv, TypeOK, Outcome
<1>5. HandlerInv'
  <2>1. SUFFICES ASSUME Handling PROVE HandlerInv'
    BY <1>2 DEF HandlerInv
  <2>2. /\ call.op \in Operations
        /\ \/ outcome.answer \in HandlerAnswers(call.op)
           \/ outcome.answer = "raised" /\ "error" \in BankAnswers /\ call.op # "accounts"
        /\ Current = Interrupted(Begun, outcome.answer) /\ Begun \in Client
    BY <1>1, <2>1, ViewType DEF RunInv, RequestInv, HandlerInv, IInv
  <2>3. outcome'.answer \in HandlerAnswers(call.op) /\ outcome'.answer # "decoupled"
    BY <1>1, <1>4, <2>2 DEF HandlerAnswers, IInv, OrderInv, Leaving
  <2>4. Settled' \in AfterHandler(Begun, call.op, outcome'.answer, call.owned)
    <3>1. CASE closes
      <4>1. outcome'.answer \notin Challenges
        BY <1>4, <3>1
      <4>2. Settled' = ClosedClient
        BY <1>1, <2>3, <3>1, <4>1, ClosedEnd DEF Settled
      <4>3. call.owned = TRUE
        BY <3>1, OwnedType DEF IInv
      <4> QED BY <1>1, <2>3, <3>1, <4>1, <4>2, <4>3, ClosedEnd
    <3>2. CASE ~ closes /\ outcome'.answer \in {"tan", "vop"}
      <4>1. outcome'.answer = outcome.answer
        BY <1>4, <3>2
      <4>2. Current' = Interrupted(Begun, outcome'.answer)
        BY <1>1, <2>2, <3>2, <4>1, CurrentStays
      <4>3. Settled' = Current'
        BY <3>2 DEF Settled, Challenges, Current
      <4> QED BY <2>2, <3>2, <4>2, <4>3, InterruptedClient DEF AfterHandler
    <3>3. CASE ~ closes /\ outcome'.answer \notin {"tan", "vop"}
      <4>1. outcome'.answer \notin Challenges /\ outcome.answer \notin {"tan", "vop"}
        BY <1>4, <2>3, <3>3 DEF Challenges
      <4>2. Current' = Begun /\ Current' = Current
        BY <1>1, <2>2, <3>3, <4>1, CurrentStays, InterruptedClient
      <4>3. Begun.order = order' /\ order' = order
        BY <1>1, <3>3, <4>2 DEF Current
      <4>4. Settled' = [Begun EXCEPT !.order = IF call.op = "transfer" /\ outcome'.answer \notin Challenges
                                                THEN NoName ELSE order]
        BY <1>1, <4>2, <4>3 DEF Settled
      <4>5. call.owned \in BOOLEAN /\ (call.owned => outcome'.answer \notin {"ok", "validation"})
        BY <1>4, <3>3, <4>1, OwnedType DEF IInv
      <4> QED BY <4>1, <4>3, <4>4, <4>5, PlainEnd DEF IInv
    <3> QED BY <3>1, <3>2, <3>3
  <2> QED BY <1>1, <1>2, <2>3, <2>4 DEF HandlerInv
<1>6. SubmitInv'
  <2>1. SUFFICES ASSUME Submitting PROVE SubmitInv'
    BY <1>2 DEF SubmitInv
  <2>2. Current' = Current
    BY <1>1, <2>1, CurrentStays DEF RunInv, RequestInv
  <2>3. /\ Current = before /\ CanSubmit(before, call.fn)
        /\ \/ outcome.answer \in SubmitAnswers("transfer")
           \/ outcome.answer = "raised" /\ "error" \in BankAnswers
    BY <1>1, <2>1 DEF RunInv, SubmitInv
  <2>4. outcome'.answer \in SubmitAnswers("transfer")
    BY <1>4, <2>1, <2>3, CallKinds DEF SubmitAnswers, Submitting, IInv
  <2> QED BY <1>1, <1>2, <2>2, <2>3, <2>4 DEF SubmitInv
<1> QED BY <1>3, <1>5, <1>6 DEF RunInv

\* Between calls nothing has to be known.
LEMMA IdleRun ==
  ASSUME pc' = "idle", call' = NoCall
  PROVE  RunInv'
BY DEF NoCall, RunInv, RequestInv, HandlerInv, SubmitInv, Handling, Submitting

\* The confirmed order is sent again.
LEMMA SendAgainRun ==
  ASSUME IInv, RunInv, SettleResult, order # NoName, outcome.answer = "other_result"
  PROVE  RunInv'
<1>1. /\ pc = "settle" /\ Submitting
      /\ tan' = IF call.fn = "confirm" THEN 0 ELSE tan
      /\ vop' = FALSE /\ order' = NoName /\ conn' = conn
      /\ call' = [fn |-> "finalize", op |-> "transfer", name |-> order, owned |-> FALSE]
      /\ pc' = "validate" /\ UNCHANGED <<before, request>>
  BY DEF SettleResult, history, Submitting
<1>2. /\ CanSubmit(before, call.fn) /\ Current = before /\ request.fn = call.fn
      /\ "other_result" \in BankAnswers
  BY <1>1 DEF RunInv, RequestInv, SubmitInv, CanSubmit, SubmitAnswers
<1>3. before.order = order /\ before.open = TRUE
  BY <1>2 DEF Current, CanSubmit, IInv, TypeOK, Client
<1>4. Base' = [before EXCEPT !.vop = FALSE, !.tan = (call.fn = "approve" /\ before.tan), !.order = NoName]
  BY <1>1, <1>2 DEF Base
<1>5. TypeOK' /\ before \in Client
  BY InvStep DEF Next, IInv, TypeOK
<1>6. Current' = Base'
  <2>1. Current' \in Client
    BY <1>5 DEF TypeOK, Current, Client
  <2>2. Base' \in Client
    BY <1>4, <1>5 DEF Client, OrderName
  <2>3. /\ Current'.open = before.open /\ Current'.vop = FALSE /\ Current'.order = NoName
        /\ Current'.tan = (call.fn = "approve" /\ before.tan)
    <3>1. CASE call.fn = "confirm"
      BY <1>1, <1>2, <3>1 DEF Current
    <3>2. CASE call.fn = "approve"
      BY <1>1, <1>2, <1>5, <3>2 DEF Current, Client
    <3> QED BY <1>1, <3>1, <3>2 DEF Submitting
  <2>4. /\ Base'.open = before.open /\ Base'.vop = FALSE /\ Base'.order = NoName
        /\ Base'.tan = (call.fn = "approve" /\ before.tan)
    BY <1>4, <1>5 DEF Client
  <2> QED BY <2>1, <2>2, <2>3, <2>4 DEF Client
<1>7. call'.owned = OwnsClient(Base', "transfer")
  BY <1>1, <1>3, <1>4, <1>5 DEF OwnsClient, Client
<1>10. Base'.order = NoName
  BY <1>4, <1>5 DEF Client
<1>8. RequestInv'
  BY <1>1, <1>2, <1>3, <1>7, <1>10 DEF RequestInv, Handling, Submitting, Operations
<1>9. HandlerInv' /\ SubmitInv'
  BY <1>1, <1>6 DEF HandlerInv, SubmitInv, Submitting
<1> QED BY <1>8, <1>9 DEF RunInv

LEMMA SettleRun ==
  ASSUME IInv, RunInv, SettleHandler \/ SettleFailure \/ SettleChallenge \/ SettleResult
  PROVE  RunInv'
<1>1. \/ Return(outcome)
      \/ SettleResult /\ order # NoName /\ outcome.answer = "other_result"
  BY DEF SettleHandler, SettleFailure, SettleChallenge, SettleResult
<1>2. CASE Return(outcome)
  BY <1>2, IdleRun DEF Return
<1> QED BY <1>1, <1>2, SendAgainRun

LEMMA CloseRun ==
  ASSUME IInv, RunInv, Close \/ ClearPending
  PROVE  RunInv'
<1>1. pc' = "idle" /\ call' = call /\ pc = "idle"
  BY DEF Close, ClearPending
<1> QED BY <1>1 DEF RunInv, RequestInv, HandlerInv, SubmitInv, Handling, Submitting

LEMMA RunStep ==
  ASSUME IInv, RunInv, BareInv, [Next]_vars
  PROVE  RunInv'
<1>1. CASE UNCHANGED vars
  <2>1. UNCHANGED <<pc, call, outcome, before, request>> /\ UNCHANGED <<conn, tan, vop, order>>
    BY <1>1 DEF vars, object, history
  <2>2. Base' = Base /\ Begun' = Begun /\ Handling' = Handling /\ Submitting' = Submitting
        /\ Current' = Current
    BY <2>1, BaseStays, CurrentStays
  <2>3. Settled' = Settled
    BY <2>1, <2>2 DEF Settled
  <2> QED BY <2>1, <2>2, <2>3 DEF RunInv, RequestInv, HandlerInv, SubmitInv
<1>2. CASE Next
  BY <1>2, StartReadRun, StartTransferRun, StartSubmitRun, ValidateRun, PrepareRun,
     EnterStandingRun, OpenDialogRun, OpenDialogFailsRun, OperateRun, SubmitRun, ExitRun,
     SettleRun, CloseRun DEF Next
<1> QED BY <1>1, <1>2

LEMMA BareInit == Init => BareInv
BY DEF Init, BareInv

\* A handler goes to work, and a confirmation passes its first check, only with a client.
LEMMA ClientAtWork ==
  ASSUME IInv, RunInv
  PROVE  /\ pc \in {"enter", "operate"} => conn # "none"
         /\ pc = "settle" /\ Submitting /\ outcome.answer # "error" => conn # "none"
<1>1. before \in Client /\ Base \in Client
  BY ViewType DEF IInv, TypeOK
<1>2. pc \in {"enter", "operate"} => Current = Begun \/ (Current = before /\ CanSubmit(before, call.fn))
  BY DEF RunInv, RequestInv, HandlerInv, SubmitInv
<1>3. Begun.open = TRUE
  BY <1>1 DEF Begun, Calling, Client
<1>4. pc = "settle" /\ Submitting /\ outcome.answer # "error" =>
        CanSubmit(before, call.fn) /\ Current.open = before.open
  BY <1>1 DEF RunInv, SubmitInv, Client
<1>5. CanSubmit(before, call.fn) => before.open = TRUE
  BY <1>1 DEF CanSubmit, Client
<1>6. Current.open = TRUE => conn # "none"
  BY DEF Current
<1>7. pc \in {"enter", "operate"} => Current.open = TRUE
  BY <1>2, <1>3, <1>5
<1> QED BY <1>4, <1>5, <1>6, <1>7

LEMMA BareStep ==
  ASSUME IInv, RunInv, BareInv, [Next]_vars
  PROVE  BareInv'
<1>1. CASE Prepare \/ UNCHANGED <<conn, tan, vop>>
  BY <1>1 DEF BareInv, Prepare
<1>2. CASE Closed
  BY <1>2 DEF BareInv, Closed
<1>3. CASE OpenDialog \/ Operate
  BY <1>3, ClientAtWork DEF BareInv, OpenDialog, Operate
<1>4. CASE SettleHandler
  BY <1>4 DEF SettleHandler, BareInv, IInv, TanInv, Leaving
<1>5. CASE SettleChallenge \/ SettleResult
  BY <1>5, ClientAtWork DEF SettleChallenge, SettleResult, BareInv, Submitting, Challenges
<1>6. CASE ClearPending
  BY <1>6 DEF BareInv, ClearPending
<1>7. \/ Prepare \/ UNCHANGED <<conn, tan, vop>> \/ Closed \/ OpenDialog \/ Operate
      \/ SettleHandler \/ SettleChallenge \/ SettleResult \/ ClearPending
  BY DEF Next, vars, object, StartRead, StartTransfer, StartSubmit, Start, Validate, EnterStanding,
         OpenDialogFails, Submit, Exit, SettleFailure, Close
<1> QED BY <1>1, <1>2, <1>3, <1>4, <1>5, <1>6, <1>7

LEMMA RunHolds == Spec => [](IInv /\ RunInv /\ BareInv)
BY InitInv, InvStep, RunInit, RunStep, BareInit, BareStep, PTL DEF Spec

-----------------------------------------------------------------------------
(* The refinement.                                                           *)

\* FacadeCalls and ClientRuntime describe the object by the same operators.
LEMMA FacadeOperators ==
  /\ \A op : Facade!HandlerAnswers(op) = HandlerAnswers(op)
  /\ \A c, op, name : Facade!Calling(c, op, name) = Calling(c, op, name)
  /\ \A c, op : Facade!OwnsClient(c, op) = OwnsClient(c, op)
  /\ \A c, op, answer, owned :
       Facade!AfterHandler(c, op, answer, owned) = AfterHandler(c, op, answer, owned)
  /\ \A op : Facade!SubmitAnswers(op) = SubmitAnswers(op)
  /\ \A c, action : Facade!CanSubmit(c, action) = CanSubmit(c, action)
  /\ \A c, action, answer : Facade!AfterSubmit(c, action, answer) = AfterSubmit(c, action, answer)
<1>1. \A op : Facade!HandlerAnswers(op) = HandlerAnswers(op)
  BY DEF Facade!HandlerAnswers, HandlerAnswers
<1>2. \A c, op, name : Facade!Calling(c, op, name) = Calling(c, op, name)
  BY DEF Facade!Calling, Calling
<1>3. \A c, op : Facade!OwnsClient(c, op) = OwnsClient(c, op)
  BY DEF Facade!OwnsClient, OwnsClient
<1>4. \A c, op, answer, owned :
        Facade!AfterHandler(c, op, answer, owned) = AfterHandler(c, op, answer, owned)
  BY DEF Facade!AfterHandler, AfterHandler, Facade!ClosedClient, ClosedClient
<1>5. \A op : Facade!SubmitAnswers(op) = SubmitAnswers(op)
  BY DEF Facade!SubmitAnswers, SubmitAnswers
<1>6. \A c, action : Facade!CanSubmit(c, action) = CanSubmit(c, action)
  BY DEF Facade!CanSubmit, CanSubmit
<1>7. \A c, action, answer : Facade!AfterSubmit(c, action, answer) = AfterSubmit(c, action, answer)
  BY DEF Facade!AfterSubmit, AfterSubmit
<1> QED BY <1>1, <1>2, <1>3, <1>4, <1>5, <1>6, <1>7

LEMMA FacadeInit == Init => Facade!Init
BY DEF Init, Facade!Init, Current, ClosedClient, Facade!ClosedClient, NoRequest, Facade!NoDoing

\* What happens inside a call is not seen.
LEMMA FacadeInside ==
  ASSUME pc # "idle", pc' # "idle", UNCHANGED <<before, request, reply>>
  PROVE  UNCHANGED Facade!vars
BY DEF Facade!vars

LEMMA FacadeBegins ==
  ASSUME IInv, StartRead \/ StartTransfer \/ StartSubmit
  PROVE  Facade!Next
<1>1. /\ pc = "idle" /\ pc' # "idle" /\ before' = Current /\ reply' = reply
      /\ \/ \E op \in Operations \ {"transfer"} :
              request' = [fn |-> "handler", op |-> op, name |-> NoName]
         \/ \E name \in Names : request' = [fn |-> "handler", op |-> "transfer", name |-> name]
         \/ \E fn \in {"confirm", "approve"} : request' = [fn |-> fn, op |-> "none", name |-> NoName]
  BY DEF StartRead, StartTransfer, StartSubmit, Start, Approach
<1>2. request' \in Facade!Calls
  BY <1>1 DEF Facade!Calls, Facade!Operations, Operations
<1> QED BY <1>1, <1>2 DEF Facade!Next, Facade!Begin, Facade!NoDoing, NoRequest

\* A handler that answers has done what FacadeCalls allows, from where it began.
LEMMA HandlerEnds ==
  ASSUME IInv, RunInv, SettleHandler
  PROVE  pc' = "idle" /\ UNCHANGED <<before, request>> /\ Facade!Handled(Base, call.op, call.name)
<1>1. /\ pc = "settle" /\ Handling /\ Return(outcome)
      /\ order' = IF call.op = "transfer" /\ outcome.answer \notin Challenges THEN NoName ELSE order
      /\ tan' = IF call.fn = "finalize" /\ outcome.answer = "tan" /\ initTan # 0 THEN initTan ELSE tan
      /\ UNCHANGED <<conn, vop>>
  BY DEF SettleHandler, Handling
<1>2. tan' = tan
  BY <1>1 DEF IInv, TanInv, Leaving, Handling
<1>3. Current' = Settled
  BY <1>1, <1>2 DEF Current, Settled
<1>4. \/ /\ outcome.answer \in HandlerAnswers(call.op)
         /\ Settled \in AfterHandler(Calling(Base, call.op, call.name), call.op, outcome.answer,
                                     OwnsClient(Base, call.op))
      \/ outcome.answer \in BankAnswers \cap {"raised"} /\ ~Base.open /\ Settled = Base
  BY <1>1 DEF RunInv, RequestInv, HandlerInv, Begun
<1>5. pc' = "idle" /\ reply' = outcome.answer /\ UNCHANGED <<before, request>>
  BY <1>1 DEF Return
<1> QED BY <1>3, <1>4, <1>5, FacadeOperators DEF Facade!Handled

LEMMA RefusalEnds ==
  ASSUME IInv, RunInv, Validate, pc' = "idle"
  PROVE  UNCHANGED <<before, request>> /\ Facade!Handled(Base, call.op, call.name)
<1>1. /\ pc = "validate" /\ "validation" \in BankAnswers /\ UNCHANGED <<object, before, request>>
      /\ reply' = "validation"
  BY DEF Validate, Return, Approach, NoOutcome
<1>2. call.op = "transfer" /\ Current = Base
  BY <1>1 DEF IInv, StepInv, RunInv, RequestInv, HandlerInv, SubmitInv
<1>3. Current' = Base
  BY <1>1, <1>2, CurrentStays DEF object
<1>4. "validation" \in HandlerAnswers(call.op)
  BY <1>1, <1>2 DEF HandlerAnswers
<1> QED BY <1>1, <1>3, <1>4, FacadeOperators DEF Facade!Handled

\* A handler is a call of its own, or the second half of a confirmation.
LEMMA HandlerFinishes ==
  ASSUME IInv, RunInv, Handling, pc # "idle", pc' = "idle", UNCHANGED <<before, request>>,
         Facade!Handled(Base, call.op, call.name)
  PROVE  Facade!Next
<1>1. CASE call.fn = "handler"
  <2>1. request = [fn |-> "handler", op |-> call.op, name |-> call.name] /\ Base = before
    BY <1>1 DEF RunInv, RequestInv, Base
  <2>2. Facade!FinishHandler
    BY <2>1 DEF Facade!FinishHandler, Facade!NoDoing, NoRequest
  <2> QED BY <2>2 DEF Facade!Next
<1>2. CASE call.fn = "finalize"
  <2> DEFINE met == [before EXCEPT !.vop = FALSE, !.tan = (request.fn = "approve" /\ before.tan)]
  <2>1. /\ request.fn \in {"confirm", "approve"} /\ CanSubmit(before, request.fn)
        /\ "other_result" \in BankAnswers /\ before.order # NoName
        /\ call.name = before.order /\ call.op = "transfer"
    BY <1>2, CallKinds DEF RunInv, RequestInv, IInv
  <2>2. met \in AfterSubmit(before, request.fn, "other_result")
    BY DEF AfterSubmit
  <2>3. Base = [met EXCEPT !.order = NoName]
    BY <1>2 DEF Base, IInv, TypeOK, Client
  <2>4. "other_result" \in SubmitAnswers("transfer")
    BY <2>1 DEF SubmitAnswers
  <2> HIDE DEF met
  <2>5. Facade!Handled([met EXCEPT !.order = NoName], "transfer", before.order)
    BY <2>1, <2>3
  <2>6. Facade!FinishSubmit
    BY <2>1, <2>2, <2>4, <2>5, FacadeOperators DEF Facade!FinishSubmit, Facade!NoDoing, NoRequest
  <2> QED BY <2>6 DEF Facade!Next
<1> QED BY <1>1, <1>2 DEF Handling

\* A confirmation ends with the bank's answer.
LEMMA SubmitFinishes ==
  ASSUME pc # "idle", pc' = "idle", UNCHANGED <<before, request>>,
         request.fn \in {"confirm", "approve"}, CanSubmit(before, request.fn),
         NEW answer \in SubmitAnswers("transfer"), reply' = answer,
         Current' \in AfterSubmit(before, request.fn, answer),
         ~ (answer = "other_result" /\ before.order # NoName)
  PROVE  Facade!Next
<1>1. Facade!FinishSubmit
  BY FacadeOperators DEF Facade!FinishSubmit, Facade!NoDoing, NoRequest
<1> QED BY <1>1 DEF Facade!Next

LEMMA FailureEnds ==
  ASSUME IInv, RunInv, SettleFailure
  PROVE  Facade!Next
<1>1. /\ pc = "settle" /\ Submitting /\ outcome.answer = "error"
      /\ pc' = "idle" /\ reply' = "error" /\ UNCHANGED <<object, before, request>>
  BY DEF SettleFailure, Return, Submitting
<1>2. Current' = Current /\ request.fn = call.fn /\ Current = before
  BY <1>1, CurrentStays DEF object, RunInv, RequestInv, SubmitInv
<1>3. CASE CanSubmit(before, call.fn)
  <2>1. "error" \in SubmitAnswers("transfer")
    BY <1>1, <1>3 DEF RunInv, SubmitInv
  <2>2. before \in AfterSubmit(before, call.fn, "error")
    BY DEF AfterSubmit
  <2> QED BY <1>1, <1>2, <1>3, <2>1, <2>2, SubmitFinishes DEF Submitting
<1>4. CASE ~ CanSubmit(before, call.fn)
  <2>1. Facade!FinishSubmit
    BY <1>1, <1>2, <1>4, FacadeOperators
       DEF Facade!FinishSubmit, Facade!NoDoing, NoRequest, Submitting
  <2> QED BY <2>1 DEF Facade!Next
<1> QED BY <1>3, <1>4

LEMMA ChallengeEnds ==
  ASSUME IInv, RunInv, SettleChallenge
  PROVE  Facade!Next
<1> DEFINE reopened == outcome.answer = "tan" /\ outcome.tan = tan
<1>1. /\ pc = "settle" /\ Submitting /\ outcome.answer \in {"tan", "vop"}
      /\ tan' = IF reopened /\ initTan # 0 THEN initTan
                ELSE IF outcome.answer = "tan" THEN outcome.tan
                ELSE IF call.fn = "confirm" THEN 0 ELSE tan
      /\ vop' = (outcome.answer = "vop" \/ (call.fn = "confirm" /\ reopened /\ vop))
      /\ UNCHANGED <<conn, order, before, request>>
      /\ pc' = "idle" /\ reply' = outcome.answer
  BY DEF SettleChallenge, Return, Submitting, IInv, OrderInv, Leaving, Challenges
<1>2. /\ request.fn = call.fn /\ CanSubmit(before, call.fn)
      /\ outcome.answer \in SubmitAnswers("transfer")
      /\ \/ Current = before
         \/ outcome.answer = "tan" /\ Current = [before EXCEPT !.tan = TRUE]
  BY <1>1 DEF RunInv, RequestInv, SubmitInv
<1>3. before \in Client /\ Current \in Client
  BY ViewType DEF IInv, TypeOK
<1>4. /\ Current.open = before.open /\ Current.vop = before.vop /\ Current.order = before.order
      /\ outcome.answer = "vop" => Current.tan = before.tan
  BY <1>1, <1>2, <1>3 DEF Client
<1>5. TypeOK'
  BY InvStep DEF Next, IInv
<1>6. Current' \in Client /\ Current'.open = before.open /\ Current'.order = before.order
  BY <1>1, <1>4, <1>5 DEF TypeOK, Current, Client
<1>7. Current' \in AfterSubmit(before, call.fn, outcome.answer)
  <2>1. CASE outcome.answer = "tan"
    <3>1. tan' # 0
      BY <1>1, <2>1 DEF IInv, TanInv, Leaving
    <3>2. Current'.tan = TRUE
      BY <3>1 DEF Current
    <3>3. Current'.vop \in {FALSE} \cup (IF call.fn = "confirm" THEN {before.vop} ELSE {})
      <4>1. CASE call.fn = "confirm" /\ reopened
        <5>1. vop' = vop
          BY <1>1, <2>1, <4>1, <1>3 DEF IInv, TypeOK
        <5> QED BY <1>4, <4>1, <5>1 DEF Current
      <4>2. CASE ~ (call.fn = "confirm" /\ reopened)
        <5>1. vop' = FALSE
          BY <1>1, <2>1, <4>2
        <5> QED BY <5>1 DEF Current
      <4> QED BY <4>1, <4>2
    <3>4. Current' = [before EXCEPT !.tan = TRUE, !.vop = Current'.vop]
      BY <1>3, <1>6, <3>2 DEF Client
    <3> QED BY <2>1, <3>3, <3>4 DEF AfterSubmit
  <2>2. CASE outcome.answer = "vop"
    <3>1. Current'.vop = TRUE
      BY <1>1, <2>2 DEF Current
    <3>2. Current'.tan = (call.fn = "approve" /\ before.tan)
      <4>1. CASE call.fn = "confirm"
        BY <1>1, <2>2, <4>1 DEF Current
      <4>2. CASE call.fn = "approve"
        <5>1. tan' = tan
          BY <1>1, <2>2, <4>2
        <5>2. Current'.tan = before.tan
          BY <1>4, <2>2, <5>1 DEF Current
        <5> QED BY <1>3, <4>2, <5>2 DEF Client
      <4> QED BY <1>1, <4>1, <4>2 DEF Submitting
    <3>3. Current' = [before EXCEPT !.vop = TRUE, !.tan = (call.fn = "approve" /\ before.tan)]
      BY <1>3, <1>6, <3>1, <3>2 DEF Client
    <3> QED BY <2>2, <3>3 DEF AfterSubmit
  <2> QED BY <1>1, <2>1, <2>2
<1> QED BY <1>1, <1>2, <1>7, SubmitFinishes DEF Submitting

LEMMA ResultEnds ==
  ASSUME IInv, RunInv, SettleResult, pc' = "idle"
  PROVE  Facade!Next
<1>1. /\ pc = "settle" /\ Submitting /\ outcome.answer \in {"transfer_result", "other_result"}
      /\ tan' = IF call.fn = "confirm" THEN 0 ELSE tan
      /\ vop' = FALSE /\ order' = NoName
      /\ ~ (outcome.answer = "other_result" /\ order # NoName)
      /\ UNCHANGED <<conn, before, request>> /\ reply' = outcome.answer
  BY DEF SettleResult, Return, Submitting, history
<1>2. /\ request.fn = call.fn /\ CanSubmit(before, call.fn) /\ Current = before
      /\ outcome.answer \in SubmitAnswers("transfer")
  BY <1>1 DEF RunInv, RequestInv, SubmitInv
<1>3. before \in Client /\ before.order = order
  BY <1>2 DEF IInv, TypeOK, Current
<1>4. TypeOK'
  BY InvStep DEF Next, IInv
<1>5. Current' \in Client /\ Current'.open = before.open /\ Current'.vop = FALSE /\ Current'.order = NoName
  BY <1>1, <1>2, <1>4 DEF TypeOK, Current, Client
<1>6. Current'.tan = (call.fn = "approve" /\ before.tan)
  <2>1. CASE call.fn = "confirm"
    BY <1>1, <2>1 DEF Current
  <2>2. CASE call.fn = "approve"
    BY <1>1, <1>2, <1>3, <2>2 DEF Current, Client
  <2> QED BY <1>1, <2>1, <2>2 DEF Submitting
<1>7. Current' = [before EXCEPT !.vop = FALSE, !.tan = (call.fn = "approve" /\ before.tan), !.order = NoName]
  BY <1>3, <1>5, <1>6 DEF Client
<1>8. outcome.answer = "other_result" =>
        Current' = [before EXCEPT !.vop = FALSE, !.tan = (call.fn = "approve" /\ before.tan)]
  BY <1>1, <1>3, <1>5, <1>6 DEF Client
<1>9. Current' \in AfterSubmit(before, call.fn, outcome.answer)
  BY <1>1, <1>7, <1>8 DEF AfterSubmit
<1> QED BY <1>1, <1>2, <1>3, <1>9, SubmitFinishes DEF Submitting

LEMMA CloseEnds ==
  ASSUME IInv, Close \/ ClearPending
  PROVE  Facade!Next
<1>1. /\ pc = "idle" /\ pc' = "idle" /\ reply' = reply /\ tan' = 0 /\ vop' = FALSE /\ order' = NoName
      /\ \/ conn' = "none" /\ Close
         \/ conn' = conn /\ ClearPending
  BY DEF Close, ClearPending, Closed, history
<1>2. CASE conn' = "none"
  <2>1. Current' = ClosedClient
    BY <1>1, <1>2 DEF Current, ClosedClient
  <2> QED BY <1>1, <2>1 DEF Facade!Next, Facade!Close, ClosedClient, Facade!ClosedClient,
                            NoRequest, Facade!NoDoing
<1>3. CASE conn' = conn
  <2>1. Current' = ClearPendingConfirmations(Current)
    <3>1. Current \in Client
      BY ViewType DEF IInv
    <3>2. /\ Current' \in Client /\ Current'.open = Current.open /\ Current'.tan = FALSE
          /\ Current'.vop = FALSE /\ Current'.order = NoName
      BY <1>1, <1>3 DEF Current, Client, OrderName
    <3> QED BY <3>1, <3>2 DEF ClearPendingConfirmations, Client
  <2> QED BY <1>1, <2>1 DEF Facade!Next, Facade!Clear, ClearPendingConfirmations,
                            Facade!ClearPendingConfirmations, NoRequest, Facade!NoDoing
<1> QED BY <1>1, <1>2, <1>3

LEMMA FacadeStep ==
  ASSUME IInv, RunInv, [Next]_vars
  PROVE  [Facade!Next]_(Facade!vars)
<1>1. CASE UNCHANGED vars
  BY <1>1, CurrentStays DEF vars, object, history, Facade!vars
<1>2. CASE StartRead \/ StartTransfer \/ StartSubmit
  BY <1>2, FacadeBegins
<1>3. CASE Validate
  <2>1. pc # "idle"
    BY <1>3 DEF Validate
  <2>2. CASE pc' = "idle"
    <3>1. Handling
      BY <1>3 DEF Validate, RunInv, RequestInv, SubmitInv
    <3> QED BY <1>3, <2>1, <2>2, <3>1, RefusalEnds, HandlerFinishes
  <2>3. CASE pc' # "idle"
    BY <1>3, <2>1, <2>3, FacadeInside DEF Validate, Return, history
  <2> QED BY <2>2, <2>3
<1>4. CASE Prepare \/ EnterStanding \/ OpenDialog \/ OpenDialogFails \/ Operate \/ Submit \/ Exit
  <2>1. pc # "idle" /\ pc' # "idle" /\ UNCHANGED history
    BY <1>4 DEF Prepare, EnterStanding, OpenDialog, OpenDialogFails, Operate, Submit, Exit, Leave
  <2> QED BY <2>1, FacadeInside DEF history
<1>5. CASE SettleHandler
  <2>1. pc # "idle" /\ Handling
    BY <1>5 DEF SettleHandler, Handling
  <2> QED BY <1>5, <2>1, HandlerEnds, HandlerFinishes
<1>6. CASE SettleFailure \/ SettleChallenge
  BY <1>6, FailureEnds, ChallengeEnds
<1>7. CASE SettleResult
  <2>1. CASE pc' = "idle"
    BY <1>7, <2>1, ResultEnds
  <2>2. CASE pc' # "idle"
    BY <1>7, <2>2, FacadeInside DEF SettleResult, Return, history
  <2> QED BY <2>1, <2>2
<1>8. CASE Close \/ ClearPending
  BY <1>8, CloseEnds
<1> QED BY <1>1, <1>2, <1>3, <1>4, <1>5, <1>6, <1>7, <1>8 DEF Next

\* However a call goes on inside - dialogs that ask for TANs, failures in the bootstrap or in
\* the scope, orders sent again -, it leaves the client object in a state that FacadeCalls
\* lists for the answer it returns: SessionStore may take a call for one change.
THEOREM ClientImplementsFacade == Spec => FacadeSpec
BY FacadeInit, FacadeStep, RunHolds, PTL DEF Spec, FacadeSpec, Facade!Spec

=============================================================================
