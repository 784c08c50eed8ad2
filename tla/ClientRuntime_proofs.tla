------------------------- MODULE ClientRuntime_proofs -------------------------
(*****************************************************************************)
(* Proofs about ClientRuntime, for all names, kinds of answer and numbers of *)
(* challenges.                                                               *)
(*****************************************************************************)
EXTENDS ClientRuntime, TLAPS

Control == {"idle", "validate", "prepare", "enter", "operate", "exit", "settle"}

\* The call has an outcome.
Leaving == pc \in {"exit", "settle"}

\* What may be set when.  init_tan_response comes from a challenge, and an exception that
\* is no FinTSOperationError does not leave the scope; only begin_accounts has none.
StepInv ==
  /\ initTan # 0 => "tan" \in BankAnswers
  /\ pc = "settle" => outcome.answer \in BankAnswers \cup {"error"}
  /\ pc = "exit" => outcome.answer \in BankAnswers \cup {"raised"}
  /\ pc = "exit" /\ call.op = "accounts" => outcome.answer \in BankAnswers
  /\ pc = "validate" => call.op = "transfer"

\* The kinds of call, by what they are called on.
LEMMA CallKinds ==
  ASSUME TypeOK
  PROVE  /\ call \in Call /\ call.name \in OrderName
         /\ call.fn \in {"none", "confirm", "approve"} => call.op = "none"
         /\ call.fn = "handler" => call.op \in Operations
         /\ call.fn = "finalize" => call.op = "transfer"
         /\ call.op = "transfer" => call.name \in Names
BY DEF TypeOK, Call, OrderName, Operations

\* Challenges are remembered after they were issued.
CountInv == tan <= issued /\ initTan <= issued /\ (Leaving => outcome.tan <= issued)

\* Except while a new TAN challenge is on its way out of a call, the challenge remembered
\* is the one shown.  The new one is remembered already if a handler was interrupted; a
\* confirmation remembers it when it settles, and then takes init_tan_response, if set,
\* for the challenge of a dialog opened again.
TanInv ==
  /\ (Leaving /\ outcome.answer = "tan") \/ tan \in {0, shown}
  /\ Leaving /\ outcome.answer = "tan" =>
       /\ outcome.tan # 0
       /\ IF call.fn \in {"handler", "finalize"} THEN outcome.tan = tan
          ELSE outcome.tan = tan => initTan \in {0, tan}
  /\ call.fn = "finalize" =>
       initTan = 0 \/ (pc = "settle" /\ outcome.answer = "tan" /\ initTan = outcome.tan)

\* An order is kept with a challenge, or by a transfer that is at work.
OrderInv ==
  /\ order # NoName =>
       \/ tan # 0 \/ vop
       \/ call.op = "transfer" /\ pc \in {"prepare", "enter", "operate", "exit", "settle"}
  /\ Leaving =>
       /\ outcome.answer # "decoupled"
       /\ call.fn \in {"handler", "finalize"} /\ outcome.answer = "vop" => vop

IInv == TypeOK /\ StepInv /\ CountInv /\ TanInv /\ OrderInv

-----------------------------------------------------------------------------
(* Types.                                                                    *)

LEMMA InitInv == Init => IInv
<1> SUFFICES ASSUME Init PROVE IInv
  OBVIOUS
<1>1. 0 \in Tans /\ NoName \in OrderName
  BY ChallengesAssumption DEF Tans, OrderName
<1>2. NoCall \in Call /\ NoOutcome \in Outcome
  BY <1>1 DEF NoCall, Call, NoOutcome, Outcome
<1>3. ClosedClient \in Client /\ NoRequest \in [fn : {"none", "handler", "confirm", "approve"},
                                                op : Operations \cup {"none"}, name : OrderName]
  BY <1>1 DEF ClosedClient, Client, NoRequest
<1>4. TypeOK
  BY <1>1, <1>2, <1>3 DEF Init, TypeOK
<1>5. StepInv /\ CountInv /\ TanInv /\ OrderInv
  BY DEF Init, StepInv, CountInv, TanInv, OrderInv, Leaving, NoCall
<1> QED BY <1>4, <1>5 DEF IInv

\* The object as the facade shows it.
LEMMA CurrentType == TypeOK => Current \in Client
BY DEF TypeOK, Current, Client

\* Returning to the caller keeps the types.
LEMMA ReturnType ==
  ASSUME TypeOK, NEW o \in Outcome, o.answer \in BankAnswers \cup {"none", "error"}, Return(o)
  PROVE  /\ pc' = "idle" /\ call' = NoCall /\ call' \in Call /\ outcome' = NoOutcome
         /\ outcome' \in Outcome /\ shown' \in Tans /\ reply' \in BankAnswers \cup {"none", "error"}
         /\ shown' = IF o.answer = "tan" THEN o.tan ELSE shown
         /\ UNCHANGED <<issued, before, request>>
<1>1. 0 \in Tans
  BY ChallengesAssumption DEF Tans
<1>2. NoCall \in Call /\ NoOutcome \in Outcome
  BY <1>1 DEF NoCall, Call, NoOutcome, Outcome, OrderName
<1>3. o.tan \in Tans /\ o.answer \in BankAnswers \cup {"none", "error"}
  BY DEF Outcome
<1> QED BY <1>2, <1>3 DEF TypeOK, Return

\* A challenge issued now is new.
LEMMA IssueType ==
  ASSUME TypeOK, NEW id, Issue(id)
  PROVE  /\ id \in Tans /\ id # 0 /\ issued' = id /\ issued' \in Tans
         /\ issued < id /\ issued \in Nat /\ id \in Nat
<1>1. issued \in Nat /\ MaxChallenges \in Nat
  BY ChallengesAssumption DEF TypeOK, Tans
<1>2. id \in Nat /\ id # 0 /\ issued < id /\ id <= MaxChallenges
  BY <1>1 DEF Issue
<1> QED BY <1>1, <1>2 DEF Issue, Tans

-----------------------------------------------------------------------------
(* One step.                                                                 *)

\* A call that begins.
LEMMA StartStep ==
  ASSUME TypeOK, NEW fn \in {"handler", "confirm", "approve"}, NEW op \in Operations \cup {"none"},
         NEW name \in OrderName, Start(fn, op, name),
         IF fn # "handler" THEN op = "none" /\ name = NoName
         ELSE IF op = "transfer" THEN name \in Names ELSE op # "none" /\ name = NoName
  PROVE  /\ call' \in Call /\ call'.fn = fn /\ call'.op = op
         /\ request' \in [fn : {"none", "handler", "confirm", "approve"},
                          op : Operations \cup {"none"}, name : OrderName]
         /\ before' \in Client
         /\ pc = "idle" /\ UNCHANGED <<object, issued, shown, reply>>
<1>1. before' \in Client
  BY CurrentType DEF Start
<1>2. call' = [fn |-> fn, op |-> op, name |-> name,
               owned |-> fn = "handler" /\ op # "accounts" /\ conn = "none"]
  BY DEF Start
<1>3. (fn = "handler" /\ op # "accounts" /\ conn = "none") \in BOOLEAN
  OBVIOUS
<1>4. call' \in Call /\ call'.fn = fn /\ call'.op = op
  <2>1. CASE fn # "handler"
    BY <1>2, <2>1 DEF Call
  <2>2. CASE fn = "handler"
    BY <1>2, <1>3, <2>2 DEF Call
  <2> QED BY <2>1, <2>2
<1> QED BY <1>1, <1>4 DEF Start

LEMMA StartReadStep ==
  ASSUME IInv, StartRead
  PROVE  IInv'
<1>1. PICK op \in Operations \ {"transfer"} : Start("handler", op, NoName)
  BY DEF StartRead
<1>2. NoName \in OrderName /\ op # "none"
  BY DEF OrderName, Operations
<1>3. /\ call' \in Call /\ call'.fn = "handler" /\ call'.op = op
      /\ request' \in [fn : {"none", "handler", "confirm", "approve"},
                       op : Operations \cup {"none"}, name : OrderName]
      /\ before' \in Client
      /\ pc = "idle" /\ UNCHANGED <<object, issued, shown, reply>>
  BY <1>1, <1>2, StartStep DEF IInv
<1>4. pc' \in {"prepare", "enter"} /\ outcome' = outcome
  BY DEF StartRead, Approach
<1>5. TypeOK'
  BY <1>3, <1>4 DEF IInv, TypeOK, object
<1>6. StepInv' /\ CountInv' /\ TanInv' /\ OrderInv'
  BY <1>3, <1>4 DEF IInv, StepInv, CountInv, TanInv, OrderInv, Leaving, object
<1> QED BY <1>5, <1>6 DEF IInv

LEMMA StartTransferStep ==
  ASSUME IInv, StartTransfer
  PROVE  IInv'
<1>1. PICK name \in Names : Start("handler", "transfer", name)
  BY DEF StartTransfer
<1>2. name \in OrderName /\ "transfer" \in Operations
  BY DEF OrderName, Operations
<1>3. /\ call' \in Call /\ call'.fn = "handler" /\ call'.op = "transfer"
      /\ request' \in [fn : {"none", "handler", "confirm", "approve"},
                       op : Operations \cup {"none"}, name : OrderName]
      /\ before' \in Client
      /\ pc = "idle" /\ UNCHANGED <<object, issued, shown, reply>>
  BY <1>1, <1>2, StartStep DEF IInv
<1>4. pc' = "validate" /\ outcome' = outcome
  BY DEF StartTransfer
<1>5. TypeOK'
  BY <1>3, <1>4 DEF IInv, TypeOK, object
<1>6. StepInv' /\ CountInv' /\ TanInv' /\ OrderInv'
  BY <1>3, <1>4 DEF IInv, StepInv, CountInv, TanInv, OrderInv, Leaving, object
<1> QED BY <1>5, <1>6 DEF IInv

LEMMA StartSubmitStep ==
  ASSUME IInv, StartSubmit
  PROVE  IInv'
<1>1. PICK fn \in {"confirm", "approve"} :
        /\ Start(fn, "none", NoName)
        /\ \/ pc' = "enter" /\ UNCHANGED outcome
           \/ pc' = "settle" /\ outcome' = [NoOutcome EXCEPT !.answer = "error"]
  BY DEF StartSubmit
<1>2. NoName \in OrderName
  BY DEF OrderName
<1>3. /\ call' \in Call /\ call'.fn = fn /\ call'.op = "none"
      /\ request' \in [fn : {"none", "handler", "confirm", "approve"},
                       op : Operations \cup {"none"}, name : OrderName]
      /\ before' \in Client
      /\ pc = "idle" /\ UNCHANGED <<object, issued, shown, reply>>
  BY <1>1, <1>2, StartStep DEF IInv
<1>4. \/ pc' = "enter" /\ outcome' = outcome
      \/ pc' = "settle" /\ outcome' = [answer |-> "error", tan |-> 0]
  BY <1>1 DEF NoOutcome
<1>5. outcome' \in Outcome
  BY <1>4, ChallengesAssumption DEF IInv, TypeOK, Outcome, Tans
<1>6. TypeOK'
  BY <1>3, <1>4, <1>5 DEF IInv, TypeOK, object
<1>7. issued \in Nat
  BY ChallengesAssumption DEF IInv, TypeOK, Tans
<1>8. StepInv' /\ CountInv' /\ TanInv' /\ OrderInv'
  BY <1>3, <1>4, <1>7 DEF IInv, StepInv, CountInv, TanInv, OrderInv, Leaving, object
<1> QED BY <1>6, <1>8 DEF IInv

LEMMA ValidateStep ==
  ASSUME IInv, Validate
  PROVE  IInv'
<1>1. CASE /\ "validation" \in BankAnswers
           /\ Return([NoOutcome EXCEPT !.answer = "validation"])
           /\ UNCHANGED object
  <2>1. /\ [NoOutcome EXCEPT !.answer = "validation"] \in Outcome
        /\ [NoOutcome EXCEPT !.answer = "validation"].answer = "validation"
    BY <1>1, ChallengesAssumption DEF NoOutcome, Outcome, Tans
  <2>2. /\ pc' = "idle" /\ call' = NoCall /\ call' \in Call /\ outcome' \in Outcome /\ shown' = shown
        /\ shown' \in Tans /\ reply' \in BankAnswers \cup {"none", "error"}
        /\ UNCHANGED <<issued, before, request>>
    BY <1>1, <2>1, ReturnType DEF IInv
  <2>3. TypeOK'
    BY <1>1, <2>2 DEF IInv, TypeOK, object
  <2>4. pc = "validate"
    BY DEF Validate
  <2>5. StepInv' /\ CountInv' /\ TanInv' /\ OrderInv'
    BY <1>1, <2>2, <2>4 DEF IInv, StepInv, CountInv, TanInv, OrderInv, Leaving, object, NoCall
  <2> QED BY <2>3, <2>5 DEF IInv
<1>2. CASE /\ order' = call.name
           /\ Approach
           /\ UNCHANGED <<conn, dialog, initTan, tan, vop, call, outcome, issued, history>>
  <2>1. pc = "validate" /\ pc' \in {"prepare", "enter"}
    BY <1>2 DEF Validate, Approach
  <2>2. call.name \in OrderName
    BY CallKinds DEF IInv
  <2>3. TypeOK'
    BY <1>2, <2>1, <2>2 DEF IInv, TypeOK, history
  <2>4. call.op = "transfer"
    BY <2>1 DEF IInv, StepInv
  <2>5. StepInv' /\ CountInv' /\ TanInv' /\ OrderInv'
    BY <1>2, <2>1, <2>4 DEF IInv, StepInv, CountInv, TanInv, OrderInv, Leaving, history
  <2> QED BY <2>3, <2>5 DEF IInv
<1> QED BY <1>1, <1>2 DEF Validate

\* Creating and preparing the python-fints client.
LEMMA PrepareStep ==
  ASSUME IInv, Prepare
  PROVE  IInv'
<1>1. /\ pc = "prepare" /\ conn' \in {"ready", "raw", conn}
      /\ UNCHANGED <<dialog, initTan, vop, order, call, history, tan, issued>>
  BY DEF Prepare
<1>2. \/ pc' = "enter" /\ outcome' = outcome
      \/ pc' = "settle" /\ outcome' = [answer |-> outcome'.answer, tan |-> 0]
           /\ outcome'.answer \in BankAnswers \cap {"error", "capability", "raised"}
  BY DEF Prepare, Leave
<1>3. outcome' \in Outcome
  BY <1>2, ChallengesAssumption DEF IInv, TypeOK, Outcome, Tans
<1>4. TypeOK'
  BY <1>1, <1>2, <1>3 DEF IInv, TypeOK, history
<1>5. issued \in Nat
  BY ChallengesAssumption DEF IInv, TypeOK, Tans
<1>6. \/ pc' = "enter"
      \/ pc' = "settle" /\ outcome'.answer \in BankAnswers \cap {"error", "capability", "raised"}
           /\ outcome'.tan = 0
  BY <1>2
<1>7. StepInv' /\ CountInv' /\ TanInv' /\ OrderInv'
  BY <1>1, <1>5, <1>6 DEF IInv, StepInv, CountInv, TanInv, OrderInv, Leaving, history
<1> QED BY <1>4, <1>7 DEF IInv

\* Entering a dialog.
LEMMA EnterStandingStep ==
  ASSUME IInv, EnterStanding
  PROVE  IInv'
<1>1. pc = "enter" /\ pc' = "operate" /\ UNCHANGED <<object, call, outcome, issued, history>>
  BY DEF EnterStanding
<1>2. TypeOK'
  BY <1>1 DEF IInv, TypeOK, object, history
<1>3. StepInv' /\ CountInv' /\ TanInv' /\ OrderInv'
  BY <1>1 DEF IInv, StepInv, CountInv, TanInv, OrderInv, Leaving, object, history
<1> QED BY <1>2, <1>3 DEF IInv

LEMMA OpenDialogStep ==
  ASSUME IInv, OpenDialog
  PROVE  IInv'
<1>1. /\ pc = "enter" /\ dialog' = TRUE
      /\ UNCHANGED <<conn, vop, order, call, history>>
  BY DEF OpenDialog
<1>2. /\ initTan' \in Tans /\ issued' \in Tans /\ issued <= issued' /\ initTan' <= issued'
      /\ issued \in Nat /\ issued' \in Nat
      /\ initTan' # 0 => "tan" \in BankAnswers
      /\ call.fn = "finalize" => initTan = 0
  <2>1. issued \in Nat
    BY ChallengesAssumption DEF IInv, TypeOK, Tans
  <2>2. CASE UNCHANGED <<initTan, issued>>
    BY <1>1, <2>1, <2>2 DEF IInv, TypeOK, StepInv, CountInv, TanInv
  <2>3. CASE "tan" \in BankAnswers /\ Issue(initTan')
    BY <1>1, <2>1, <2>3, IssueType DEF IInv, TanInv
  <2> QED BY <2>2, <2>3 DEF OpenDialog
<1>3. CASE initTan' # 0
  <2>1. tan' = initTan' /\ pc' = "settle" /\ outcome' = [answer |-> "tan", tan |-> initTan']
    BY <1>3 DEF OpenDialog, Leave
  <2>2. outcome' \in Outcome
    BY <1>2, <1>3, <2>1 DEF Outcome
  <2>3. TypeOK'
    BY <1>1, <1>2, <2>1, <2>2 DEF IInv, TypeOK, history
  <2>4. outcome'.answer = "tan" /\ outcome'.tan = initTan'
    BY <2>1
  <2>5. StepInv' /\ CountInv' /\ TanInv' /\ OrderInv'
    BY <1>1, <1>2, <1>3, <2>1, <2>4 DEF IInv, StepInv, CountInv, TanInv, OrderInv, Leaving, history
  <2> QED BY <2>3, <2>5 DEF IInv
<1>4. CASE initTan' = 0
  <2>1. pc' = "operate" /\ UNCHANGED <<tan, outcome>>
    BY <1>4 DEF OpenDialog
  <2>2. TypeOK'
    BY <1>1, <1>2, <2>1 DEF IInv, TypeOK, history
  <2>3. tan <= issued'
    BY <1>2, ChallengesAssumption DEF IInv, CountInv, TypeOK, Tans
  <2>4. StepInv' /\ CountInv'
    BY <1>1, <1>2, <2>1, <2>3 DEF IInv, StepInv, CountInv, Leaving
  <2>5. TanInv'
    BY <1>1, <1>4, <2>1 DEF IInv, TanInv, Leaving, history
  <2>6. OrderInv'
    BY <1>1, <2>1 DEF IInv, OrderInv, Leaving
  <2> QED BY <2>2, <2>4, <2>5, <2>6 DEF IInv
<1> QED BY <1>3, <1>4

\* close() leaves nothing that waits.
LEMMA ClosedType ==
  ASSUME Closed
  PROVE  /\ conn' = "none" /\ dialog' = FALSE /\ initTan' = 0 /\ tan' = 0 /\ vop' = FALSE
         /\ order' = NoName /\ 0 \in Tans /\ NoName \in OrderName
BY ChallengesAssumption DEF Closed, Tans, OrderName

LEMMA OpenDialogFailsStep ==
  ASSUME IInv, OpenDialogFails
  PROVE  IInv'
<1>1. /\ pc = "enter" /\ "error" \in BankAnswers /\ pc' = "settle"
      /\ outcome' = [answer |-> "error", tan |-> 0]
      /\ UNCHANGED <<call, issued, history>>
  BY DEF OpenDialogFails, Leave
<1>2. \/ Closed
      \/ dialog' \in BOOLEAN /\ UNCHANGED <<conn, initTan, tan, vop, order>>
  BY DEF OpenDialogFails
<1>3. outcome' \in Outcome
  BY <1>1, ChallengesAssumption DEF Outcome, Tans
<1>4. TypeOK'
  BY <1>1, <1>2, <1>3, ClosedType DEF IInv, TypeOK, history
<1>5. outcome'.answer = "error" /\ outcome'.tan = 0 /\ issued \in Nat
  BY <1>1, ChallengesAssumption DEF IInv, TypeOK, Tans
<1>6. \/ tan' = 0 /\ initTan' = 0 /\ order' = NoName
      \/ UNCHANGED <<tan, initTan, order, vop>>
  BY <1>2, ClosedType
<1>7. StepInv'
  BY <1>1, <1>5, <1>6 DEF IInv, StepInv
<1>8. CountInv'
  BY <1>1, <1>5, <1>6 DEF IInv, CountInv
<1>9. TanInv'
  BY <1>1, <1>5, <1>6 DEF IInv, TanInv, Leaving, history
<1>10. OrderInv'
  BY <1>1, <1>5, <1>6 DEF IInv, OrderInv
<1> QED BY <1>4, <1>7, <1>8, <1>9, <1>10 DEF IInv

\* The operation itself.
LEMMA OperateStep ==
  ASSUME IInv, Operate
  PROVE  IInv'
<1>1. /\ pc = "operate" /\ pc' = "exit" /\ call.fn \in {"handler", "finalize"}
      /\ UNCHANGED <<conn, dialog, initTan, order, call, history>>
  BY DEF Operate, Leave
<1>2. HandlerAnswers(call.op) \subseteq BankAnswers
  BY DEF HandlerAnswers
<1>3. /\ tan' \in Tans /\ vop' \in BOOLEAN /\ issued' \in Tans
      /\ issued <= issued' /\ tan' <= issued' /\ issued \in Nat /\ issued' \in Nat
      /\ (vop => vop') /\ (tan # 0 => tan' # 0)
      /\ \E answer \in BankAnswers \cup {"raised"}, id \in Tans :
           /\ outcome' = [answer |-> answer, tan |-> id]
           /\ id <= issued' /\ answer # "decoupled"
           /\ IF answer = "tan" THEN id = tan' /\ id # 0 ELSE tan' = tan
           /\ answer = "vop" => vop'
           /\ call.op = "accounts" => answer \in BankAnswers
  <2>1. issued \in Nat /\ 0 \in Tans /\ tan \in Tans /\ issued \in Tans /\ vop \in BOOLEAN /\ tan <= issued
    BY ChallengesAssumption DEF IInv, TypeOK, CountInv, Tans
  <2>2. CASE /\ \E answer \in HandlerAnswers(call.op) \ Challenges : Leave("exit", answer, 0)
             /\ UNCHANGED <<tan, vop, issued>>
    BY <1>2, <2>1, <2>2 DEF Leave, Challenges
  <2>3. CASE call.op # "accounts" /\ Leave("exit", "raised", 0) /\ UNCHANGED <<tan, vop, issued>>
    BY <2>1, <2>3 DEF Leave
  <2>4. CASE /\ "tan" \in HandlerAnswers(call.op)
             /\ Issue(tan') /\ Leave("exit", "tan", tan') /\ UNCHANGED vop
    BY <1>2, <2>1, <2>4, IssueType DEF IInv, Leave
  <2>5. CASE /\ "vop" \in HandlerAnswers(call.op)
             /\ vop' = TRUE /\ Leave("exit", "vop", 0) /\ UNCHANGED <<tan, issued>>
    BY <1>2, <2>1, <2>5 DEF Leave
  <2> QED BY <2>2, <2>3, <2>4, <2>5 DEF Operate
<1>4. PICK answer \in BankAnswers \cup {"raised"}, id \in Tans :
        /\ outcome' = [answer |-> answer, tan |-> id]
        /\ id <= issued' /\ answer # "decoupled"
        /\ IF answer = "tan" THEN id = tan' /\ id # 0 ELSE tan' = tan
        /\ answer = "vop" => vop'
        /\ call.op = "accounts" => answer \in BankAnswers
  BY <1>3
<1>5. outcome' \in Outcome /\ outcome'.answer = answer /\ outcome'.tan = id
  BY <1>4 DEF Outcome
<1>6. TypeOK'
  BY <1>1, <1>3, <1>5 DEF IInv, TypeOK, history
<1>7. initTan <= issued'
  BY <1>3, ChallengesAssumption DEF IInv, CountInv, TypeOK, Tans
<1>8. StepInv' /\ CountInv' /\ TanInv' /\ OrderInv'
  BY <1>1, <1>3, <1>4, <1>5, <1>7 DEF IInv, StepInv, CountInv, TanInv, OrderInv, Leaving, history
<1> QED BY <1>6, <1>8 DEF IInv

\* A TAN or an approval is sent to the bank.
LEMMA SubmitStep ==
  ASSUME IInv, Submit
  PROVE  IInv'
<1>1. /\ pc = "operate" /\ pc' = "exit" /\ call.fn \in {"confirm", "approve"}
      /\ UNCHANGED <<object, call, history>>
  BY DEF Submit, Leave
<1>2. /\ issued' \in Tans /\ issued <= issued' /\ issued \in Nat /\ issued' \in Nat
      /\ \E answer \in BankAnswers \cup {"raised"}, id \in Tans :
           /\ outcome' = [answer |-> answer, tan |-> id]
           /\ id <= issued' /\ answer # "decoupled"
           /\ answer = "tan" => id # 0 /\ issued < id
  <2>1. issued \in Nat /\ 0 \in Tans /\ issued \in Tans
    BY ChallengesAssumption DEF IInv, TypeOK, Tans
  <2>2. CASE /\ \E answer \in SubmitAnswers("transfer") \ {"tan", "decoupled", "error"} :
                  Leave("exit", answer, 0)
             /\ UNCHANGED issued
    BY <2>1, <2>2 DEF Leave, SubmitAnswers
  <2>3. CASE Leave("exit", "raised", 0) /\ UNCHANGED issued
    BY <2>1, <2>3 DEF Leave
  <2>4. CASE /\ "tan" \in BankAnswers
             /\ Issue(issued + 1) /\ Leave("exit", "tan", issued + 1)
    BY <2>1, <2>4, IssueType DEF IInv, Leave
  <2> QED BY <2>2, <2>3, <2>4 DEF Submit
<1>3. PICK answer \in BankAnswers \cup {"raised"}, id \in Tans :
        /\ outcome' = [answer |-> answer, tan |-> id]
        /\ id <= issued' /\ answer # "decoupled"
        /\ answer = "tan" => id # 0 /\ issued < id
  BY <1>2
<1>4. outcome' \in Outcome /\ outcome'.answer = answer /\ outcome'.tan = id
  BY <1>3 DEF Outcome
<1>5. TypeOK'
  BY <1>1, <1>2, <1>4 DEF IInv, TypeOK, object, history
<1>6. /\ tan <= issued /\ initTan <= issued /\ tan \in Nat /\ initTan \in Nat /\ id \in Nat
      /\ tan <= issued' /\ initTan <= issued'
  BY <1>2, ChallengesAssumption DEF IInv, CountInv, TypeOK, Tans
<1>7. answer = "tan" => id # tan
  BY <1>2, <1>3, <1>6
<1>0. call.op = "none"
  BY <1>1, CallKinds DEF IInv
<1>8. StepInv' /\ CountInv'
  BY <1>0, <1>1, <1>3, <1>4, <1>6 DEF IInv, StepInv, CountInv, Leaving, object, history
<1>9. TanInv'
  BY <1>1, <1>3, <1>4, <1>7 DEF IInv, TanInv, Leaving, object, history
<1>10. OrderInv'
  BY <1>0, <1>1, <1>3, <1>4 DEF IInv, StepInv, OrderInv, Leaving, object, history
<1> QED BY <1>5, <1>8, <1>9, <1>10 DEF IInv

\* The scope is left.
LEMMA ExitStep ==
  ASSUME IInv, Exit
  PROVE  IInv'
<1>1. /\ pc = "exit" /\ pc' = "settle" /\ UNCHANGED <<call, issued, history>>
      /\ outcome' = IF outcome.answer = "raised" /\ call.op # "accounts"
                      THEN [outcome EXCEPT !.answer = "error"] ELSE outcome
      /\ \/ Closed /\ outcome.answer \notin Challenges
         \/ dialog' \in BOOLEAN /\ UNCHANGED <<conn, initTan, tan, vop, order>>
  BY DEF Exit, IInv, TypeOK
<1>2. /\ outcome \in Outcome /\ outcome' \in Outcome
      /\ outcome'.tan = outcome.tan
      /\ outcome.answer # "raised" => outcome'.answer = outcome.answer
      /\ outcome.answer = "raised" => outcome'.answer \in {"raised", "error"}
      /\ outcome.answer = "raised" /\ call.op # "accounts" => outcome'.answer = "error"
  BY <1>1 DEF IInv, TypeOK, Outcome
<1>3. TypeOK'
  BY <1>1, <1>2, ClosedType DEF IInv, TypeOK, history
<1>4. issued \in Nat
  BY ChallengesAssumption DEF IInv, TypeOK, Tans
<1>5. outcome'.answer \in BankAnswers \cup {"error"}
  BY <1>1, <1>2 DEF IInv, StepInv
<1>6. \/ tan' = 0 /\ initTan' = 0 /\ order' = NoName /\ outcome.answer \notin Challenges
      \/ UNCHANGED <<tan, initTan, order, vop>>
  BY <1>1, ClosedType
<1>7. StepInv'
  BY <1>1, <1>5, <1>6 DEF IInv, StepInv
<1>8. CountInv'
  BY <1>1, <1>2, <1>4, <1>6 DEF IInv, CountInv, Leaving
<1>9. TanInv'
  BY <1>1, <1>2, <1>6 DEF IInv, TanInv, Leaving, history, Challenges
<1>10. OrderInv'
  BY <1>1, <1>2, <1>6 DEF IInv, OrderInv, Leaving, Challenges
<1> QED BY <1>3, <1>7, <1>8, <1>9, <1>10 DEF IInv

\* What is common to the ends of calls.
LEMMA SettleType ==
  ASSUME IInv, pc = "settle", Return(outcome)
  PROVE  /\ pc' = "idle" /\ call' = NoCall /\ call' \in Call /\ outcome' \in Outcome
         /\ shown' \in Tans /\ reply' \in BankAnswers \cup {"none", "error"}
         /\ shown' = IF outcome.answer = "tan" THEN outcome.tan ELSE shown
         /\ UNCHANGED <<issued, before, request>>
         /\ outcome.tan \in Tans /\ 0 \in Tans /\ NoName \in OrderName /\ issued \in Nat
<1>1. outcome \in Outcome /\ issued \in Nat /\ 0 \in Tans /\ outcome.tan \in Tans
  BY ChallengesAssumption DEF IInv, TypeOK, Outcome, Tans
<1>2. outcome.answer \in BankAnswers \cup {"none", "error"}
  BY DEF IInv, StepInv
<1> QED BY <1>1, <1>2, ReturnType DEF IInv, OrderName

LEMMA SettleHandlerStep ==
  ASSUME IInv, SettleHandler
  PROVE  IInv'
<1>1. /\ pc = "settle" /\ call.fn \in {"handler", "finalize"} /\ Return(outcome)
      /\ order' = IF call.op = "transfer" /\ outcome.answer \notin Challenges THEN NoName ELSE order
      /\ tan' = IF call.fn = "finalize" /\ outcome.answer = "tan" /\ initTan # 0 THEN initTan ELSE tan
      /\ UNCHANGED <<conn, dialog, initTan, vop>>
  BY DEF SettleHandler
<1>2. /\ pc' = "idle" /\ call' = NoCall /\ call' \in Call /\ outcome' \in Outcome
      /\ shown' \in Tans /\ reply' \in BankAnswers \cup {"none", "error"}
      /\ shown' = IF outcome.answer = "tan" THEN outcome.tan ELSE shown
      /\ UNCHANGED <<issued, before, request>> /\ NoName \in OrderName
  BY <1>1, SettleType
<1>3. TypeOK'
  BY <1>1, <1>2 DEF IInv, TypeOK
<1>4. tan' = tan
  BY <1>1 DEF IInv, TanInv, Leaving
<1>5. StepInv' /\ CountInv'
  BY <1>1, <1>2, <1>4 DEF IInv, StepInv, CountInv, Leaving, NoCall
<1>6. TanInv'
  BY <1>1, <1>2, <1>4 DEF IInv, TanInv, Leaving, NoCall
<1>7. OrderInv'
  BY <1>1, <1>2, <1>4 DEF IInv, TanInv, OrderInv, Leaving, Challenges
<1> QED BY <1>3, <1>5, <1>6, <1>7 DEF IInv

LEMMA SettleFailureStep ==
  ASSUME IInv, SettleFailure
  PROVE  IInv'
<1>1. /\ pc = "settle" /\ call.fn \in {"confirm", "approve"} /\ outcome.answer = "error"
      /\ Return(outcome) /\ UNCHANGED object
  BY DEF SettleFailure
<1>2. /\ pc' = "idle" /\ call' = NoCall /\ call' \in Call /\ outcome' \in Outcome
      /\ shown' = shown /\ shown' \in Tans /\ reply' \in BankAnswers \cup {"none", "error"}
      /\ UNCHANGED <<issued, before, request>>
  BY <1>1, SettleType
<1>3. TypeOK'
  BY <1>1, <1>2 DEF IInv, TypeOK, object
<1>4. StepInv' /\ CountInv' /\ TanInv'
  BY <1>1, <1>2 DEF IInv, StepInv, CountInv, TanInv, Leaving, NoCall, object
<1>0. call.op = "none"
  BY <1>1, CallKinds DEF IInv
<1>5. OrderInv'
  BY <1>0, <1>1, <1>2 DEF IInv, StepInv, OrderInv, Leaving, NoCall, object
<1> QED BY <1>3, <1>4, <1>5 DEF IInv

LEMMA SettleChallengeStep ==
  ASSUME IInv, SettleChallenge
  PROVE  IInv'
<1> DEFINE reopened == outcome.answer = "tan" /\ outcome.tan = tan
<1>1. /\ pc = "settle" /\ call.fn \in {"confirm", "approve"} /\ outcome.answer \in Challenges
      /\ tan' = IF reopened /\ initTan # 0 THEN initTan
                ELSE IF outcome.answer = "tan" THEN outcome.tan
                ELSE IF call.fn = "confirm" THEN 0 ELSE tan
      /\ vop' = (outcome.answer = "vop" \/ (call.fn = "confirm" /\ reopened /\ vop))
      /\ Return(outcome) /\ UNCHANGED <<conn, dialog, initTan, order>>
  BY DEF SettleChallenge
<1>2. /\ pc' = "idle" /\ call' = NoCall /\ call' \in Call /\ outcome' \in Outcome
      /\ shown' \in Tans /\ reply' \in BankAnswers \cup {"none", "error"}
      /\ shown' = IF outcome.answer = "tan" THEN outcome.tan ELSE shown
      /\ UNCHANGED <<issued, before, request>>
      /\ outcome.tan \in Tans /\ 0 \in Tans /\ issued \in Nat
  BY <1>1, SettleType
<1>3. outcome.answer \in {"tan", "vop"}
  BY <1>1 DEF IInv, OrderInv, Leaving, Challenges
<1>4. CASE outcome.answer = "tan"
  <2>1. tan' = outcome.tan /\ tan' # 0
    BY <1>1, <1>4 DEF IInv, TanInv, Leaving
  <2>2. vop' \in BOOLEAN
    BY <1>1 DEF IInv, TypeOK
  <2>3. TypeOK'
    BY <1>1, <1>2, <2>1, <2>2 DEF IInv, TypeOK
  <2>4. StepInv' /\ CountInv'
    BY <1>1, <1>2, <2>1 DEF IInv, StepInv, CountInv, Leaving, NoCall
  <2>5. TanInv' /\ OrderInv'
    BY <1>2, <1>4, <2>1 DEF TanInv, OrderInv, Leaving, NoCall
  <2> QED BY <2>3, <2>4, <2>5 DEF IInv
<1>5. CASE outcome.answer = "vop"
  <2>1. tan' \in {0, tan} /\ vop' = TRUE
    BY <1>1, <1>5
  <2>2. TypeOK'
    BY <1>1, <1>2, <2>1 DEF IInv, TypeOK
  <2>3. StepInv' /\ CountInv'
    BY <1>1, <1>2, <2>1 DEF IInv, StepInv, CountInv, Leaving, NoCall
  <2>4. TanInv'
    BY <1>2, <1>5, <2>1 DEF IInv, TanInv, Leaving, NoCall
  <2>5. OrderInv'
    BY <1>2, <2>1 DEF OrderInv, Leaving
  <2> QED BY <2>2, <2>3, <2>4, <2>5 DEF IInv
<1> QED BY <1>3, <1>4, <1>5

LEMMA SettleResultStep ==
  ASSUME IInv, SettleResult
  PROVE  IInv'
<1>1. /\ pc = "settle" /\ call.fn \in {"confirm", "approve"}
      /\ outcome.answer \in {"transfer_result", "other_result"}
      /\ tan' \in {0, tan} /\ vop' = FALSE /\ initTan' = 0 /\ order' = NoName
      /\ UNCHANGED <<conn, dialog>>
  BY DEF SettleResult
<1>2. tan \in {0, shown} /\ tan \in Tans /\ 0 \in Tans /\ NoName \in OrderName /\ issued \in Nat
  BY <1>1, ChallengesAssumption DEF IInv, TanInv, TypeOK, Tans, OrderName
<1>3. CASE order # NoName /\ outcome.answer = "other_result"
  <2>1. /\ call' = [fn |-> "finalize", op |-> "transfer", name |-> order, owned |-> FALSE]
        /\ pc' = "validate" /\ outcome' = NoOutcome /\ UNCHANGED <<issued, history>>
    BY <1>3 DEF SettleResult
  <2>2. call' \in Call /\ call'.fn = "finalize" /\ call'.op = "transfer"
    BY <1>3, <2>1 DEF Call, IInv, TypeOK, OrderName
  <2>3. outcome' \in Outcome
    BY <1>2, <2>1 DEF NoOutcome, Outcome
  <2>4. TypeOK'
    BY <1>1, <1>2, <2>1, <2>2, <2>3 DEF IInv, TypeOK, history
  <2>5. StepInv' /\ CountInv' /\ TanInv' /\ OrderInv'
    BY <1>1, <1>2, <2>1, <2>2 DEF IInv, StepInv, CountInv, TanInv, OrderInv, Leaving, history
  <2> QED BY <2>4, <2>5 DEF IInv
<1>4. CASE ~ (order # NoName /\ outcome.answer = "other_result")
  <2>1. Return(outcome)
    BY <1>4 DEF SettleResult
  <2>2. /\ pc' = "idle" /\ call' = NoCall /\ call' \in Call /\ outcome' \in Outcome
        /\ shown' = shown /\ shown' \in Tans /\ reply' \in BankAnswers \cup {"none", "error"}
        /\ UNCHANGED <<issued, before, request>>
    BY <1>1, <2>1, SettleType
  <2>3. TypeOK'
    BY <1>1, <1>2, <2>2 DEF IInv, TypeOK
  <2>4. StepInv' /\ CountInv' /\ TanInv' /\ OrderInv'
    BY <1>1, <1>2, <2>2 DEF IInv, StepInv, CountInv, TanInv, OrderInv, Leaving, NoCall
  <2> QED BY <2>3, <2>4 DEF IInv
<1> QED BY <1>3, <1>4

\* close() and clear_pending_confirmations
LEMMA CloseStep ==
  ASSUME IInv, Close \/ ClearPending
  PROVE  IInv'
<1>1. /\ pc = "idle" /\ UNCHANGED <<pc, call, outcome, issued, history>>
      /\ tan' = 0 /\ vop' = FALSE /\ order' = NoName /\ initTan' = 0
      /\ conn' \in {"none", conn} /\ dialog' \in {FALSE, dialog}
  BY DEF Close, ClearPending, Closed
<1>2. 0 \in Tans /\ NoName \in OrderName /\ issued \in Nat
  BY ChallengesAssumption DEF IInv, TypeOK, Tans, OrderName
<1>3. TypeOK'
  BY <1>1, <1>2 DEF IInv, TypeOK, history
<1>4. StepInv' /\ CountInv' /\ TanInv' /\ OrderInv'
  BY <1>1, <1>2 DEF IInv, StepInv, CountInv, TanInv, OrderInv, Leaving, history
<1> QED BY <1>3, <1>4 DEF IInv

LEMMA InvStep ==
  ASSUME IInv, [Next]_vars
  PROVE  IInv'
<1>1. CASE UNCHANGED vars
  <2>1. UNCHANGED <<object, pc, call, outcome, issued, history>>
    BY <1>1 DEF vars
  <2> QED BY <2>1 DEF IInv, TypeOK, StepInv, CountInv, TanInv, OrderInv, Leaving, object, history
<1>2. CASE Next
  BY <1>2, StartReadStep, StartTransferStep, StartSubmitStep, ValidateStep, PrepareStep,
     EnterStandingStep, OpenDialogStep, OpenDialogFailsStep, OperateStep, SubmitStep, ExitStep,
     SettleHandlerStep, SettleFailureStep, SettleChallengeStep, SettleResultStep, CloseStep DEF Next
<1> QED BY <1>1, <1>2

LEMMA InvHolds == Spec => []IInv
BY InitInv, InvStep, PTL DEF Spec

-----------------------------------------------------------------------------
(* Theorems.                                                                 *)

\* Whatever is called and answered, the object and the call keep their types: above all, a
\* transfer always carries an order, also one that a confirmation sends again.
THEOREM TypeCorrect == Spec => []TypeOK
<1>1. IInv => TypeOK
  BY DEF IInv
<1> QED BY <1>1, InvHolds, PTL

\* A TAN goes to the challenge last shown, however challenges of dialogs and operations
\* replaced one another.
THEOREM TanForShown == Spec => []TanIsForShown
<1>1. IInv => TanIsForShown
  BY DEF IInv, TanInv, TanIsForShown, Leaving
<1> QED BY <1>1, InvHolds, PTL

\* An order that waits in the object waits for a challenge.
THEOREM OrderIsChallenged == Spec => []OrderHasChallenge
<1>1. IInv => OrderHasChallenge
  BY DEF IInv, OrderInv, OrderHasChallenge
<1> QED BY <1>1, InvHolds, PTL

=============================================================================
