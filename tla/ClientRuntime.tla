--------------------------- MODULE ClientRuntime ---------------------------
(*****************************************************************************)
(* One FinTSClient object from the inside (_client_runtime, _client_reads,   *)
(* _client_transfer, _client_confirmation): the python-fints client it       *)
(* creates and prepares, the dialog it holds open with the bank, the scope   *)
(* around every operation, and the challenges and the order it remembers.    *)
(* Calls on one object come one after the other.                             *)
(*****************************************************************************)
EXTENDS ClientFacade

CONSTANT MaxChallenges   \* bound: TAN challenges the bank issues

ASSUME ChallengesAssumption == MaxChallenges \in Nat

\* TAN challenges are told apart by the order in which the bank issued them; 0 is none.
Tans == 0 .. MaxChallenges

VARIABLES
  conn,      \* self._client: not created, created, or created and prepared
  dialog,    \* the python-fints client has a standing dialog
  initTan,   \* its init_tan_response
  tan,       \* _pending_tan_response
  vop,       \* _pending_vop_response is set
  order,     \* _pending_transfer_params
  pc,        \* where the call in progress is
  call,      \* what was called, and what its scope remembers
  outcome,   \* the result or exception on its way out of the call
  issued,    \* challenges issued so far
  shown,     \* history: the TAN challenge last returned to the caller
  before,    \* history: the object when the call in progress started
  request,   \* history: the call as it was made
  reply      \* history: the answer of the last completed call

object  == <<conn, dialog, initTan, tan, vop, order>>
history == <<shown, before, request, reply>>
vars    == <<object, pc, call, outcome, issued, history>>

Current == [open |-> conn # "none", tan |-> tan # 0, vop |-> vop, order |-> order]

\* Only a transfer carries an order, and always does, and only a handler called from
\* outside owns a client.
Call == [fn : {"none", "confirm", "approve"}, op : {"none"}, name : {NoName}, owned : {FALSE}]
          \cup [fn : {"handler"}, op : Operations \ {"transfer"}, name : {NoName}, owned : BOOLEAN]
          \cup [fn : {"handler"}, op : {"transfer"}, name : Names, owned : BOOLEAN]
          \cup [fn : {"finalize"}, op : {"transfer"}, name : Names, owned : {FALSE}]

Outcome == [answer : BankAnswers \cup {"none", "raised", "error"}, tan : Tans]

NoCall    == [fn |-> "none", op |-> "none", name |-> NoName, owned |-> FALSE]
NoOutcome == [answer |-> "none", tan |-> 0]
NoRequest == [fn |-> "none", op |-> "none", name |-> NoName]

TypeOK ==
  /\ conn \in {"none", "raw", "ready"}
  /\ dialog \in BOOLEAN
  /\ initTan \in Tans
  /\ tan \in Tans
  /\ vop \in BOOLEAN
  /\ order \in OrderName
  /\ pc \in {"idle", "validate", "prepare", "enter", "operate", "exit", "settle"}
  /\ call \in Call
  /\ outcome \in Outcome
  /\ issued \in Tans
  /\ shown \in Tans
  /\ before \in Client
  /\ request \in [fn : {"none", "handler", "confirm", "approve"},
                 op : Operations \cup {"none"}, name : OrderName]
  /\ reply \in BankAnswers \cup {"none", "error"}

Init ==
  /\ conn = "none" /\ dialog = FALSE /\ initTan = 0
  /\ tan = 0 /\ vop = FALSE /\ order = NoName
  /\ pc = "idle" /\ call = NoCall /\ outcome = NoOutcome
  /\ issued = 0
  /\ shown = 0 /\ before = ClosedClient /\ request = NoRequest /\ reply = "none"

-----------------------------------------------------------------------------
(* Starting and ending a call.                                               *)

\* Creating the python-fints client, or entering the dialog of the one there is.
Approach == pc' = IF conn = "none" THEN "prepare" ELSE "enter"

\* A call begins: fn on operation op, with the order's name.
Start(fn, op, name) ==
  /\ pc = "idle"
  /\ call' = [fn |-> fn, op |-> op, name |-> name,
              owned |-> fn = "handler" /\ op # "accounts" /\ conn = "none"]
  /\ request' = [fn |-> fn, op |-> op, name |-> name]
  /\ before' = Current
  /\ UNCHANGED <<object, issued, shown, reply>>

\* begin_accounts, get_account_overview, list_transactions_by_account
StartRead ==
  /\ \E op \in Operations \ {"transfer"} : Start("handler", op, NoName)
  /\ Approach
  /\ UNCHANGED outcome

\* initiate_transfer
StartTransfer ==
  /\ \E name \in Names : Start("handler", "transfer", name)
  /\ pc' = "validate"
  /\ UNCHANGED outcome

\* confirm_pending, approve_vop
StartSubmit ==
  \E fn \in {"confirm", "approve"} :
    /\ Start(fn, "none", NoName)
    /\ IF conn # "none" /\ (IF fn = "confirm" THEN tan # 0 ELSE vop)
         THEN pc' = "enter" /\ UNCHANGED outcome
         ELSE pc' = "settle" /\ outcome' = [NoOutcome EXCEPT !.answer = "error"]

Return(o) ==
  /\ pc' = "idle"
  /\ call' = NoCall
  /\ outcome' = NoOutcome
  /\ shown' = IF o.answer = "tan" THEN o.tan ELSE shown
  /\ reply' = o.answer
  /\ UNCHANGED <<issued, before, request>>

\* Parameters are checked before anything else; then the order is remembered.
Validate ==
  /\ pc = "validate"
  /\ \/ /\ "validation" \in BankAnswers
        /\ Return([NoOutcome EXCEPT !.answer = "validation"])
        /\ UNCHANGED object
     \/ /\ order' = call.name
        /\ Approach
        /\ UNCHANGED <<conn, dialog, initTan, tan, vop, call, outcome, issued, history>>

-----------------------------------------------------------------------------
(* The scope of an operation.                                                *)

\* A challenge the bank issues now.
Issue(id) ==
  /\ id = issued + 1
  /\ id <= MaxChallenges
  /\ issued' = id

Leave(where, answer, id) ==
  /\ pc' = where
  /\ outcome' = [answer |-> answer, tan |-> id]

\* create_client and _prepare_client, before the scope is entered.  create_client is not
\* run through _run; a preparation that fails leaves a client that is never prepared again.
Prepare ==
  /\ pc = "prepare"
  /\ \/ conn' = "ready" /\ pc' = "enter" /\ UNCHANGED <<tan, outcome, issued>>
     \/ /\ conn' = "raw"
        /\ \E answer \in BankAnswers \cap {"error", "capability"} : Leave("settle", answer, 0)
        /\ UNCHANGED <<tan, issued>>
     \/ /\ "raised" \in BankAnswers
        /\ Leave("settle", "raised", 0)
        /\ UNCHANGED <<conn, tan, issued>>
  /\ UNCHANGED <<dialog, initTan, vop, order, call, history>>

\* close(): the python-fints client is given up with all it remembers.
Closed ==
  /\ conn' = "none" /\ dialog' = FALSE /\ initTan' = 0
  /\ tan' = 0 /\ vop' = FALSE /\ order' = NoName

\* _ClientScope.__enter__ with a standing dialog, or _open_dialog_for_operation.
EnterStanding ==
  /\ pc = "enter"
  /\ dialog
  /\ pc' = "operate"
  /\ UNCHANGED <<object, call, outcome, issued, history>>

\* The bank may ask for a TAN to open the dialog; python-fints keeps that challenge
\* in init_tan_response until somebody resets it.
OpenDialog ==
  /\ pc = "enter"
  /\ ~dialog
  /\ dialog' = TRUE
  /\ \/ UNCHANGED <<initTan, issued>>
     \/ "tan" \in BankAnswers /\ Issue(initTan')
  /\ IF initTan' # 0
       THEN tan' = initTan' /\ Leave("settle", "tan", initTan')
       ELSE pc' = "operate" /\ UNCHANGED <<tan, outcome>>
  /\ UNCHANGED <<conn, vop, order, call, history>>

OpenDialogFails ==
  /\ pc = "enter"
  /\ ~dialog
  /\ "error" \in BankAnswers
  /\ IF call.owned THEN Closed
                   ELSE dialog' \in BOOLEAN /\ UNCHANGED <<conn, initTan, tan, vop, order>>
  /\ Leave("settle", "error", 0)
  /\ UNCHANGED <<call, issued, history>>

\* The operation itself: _run remembers a challenge as it is raised; what happens outside
\* of _run may raise anything.
Operate ==
  /\ pc = "operate"
  /\ call.fn \in {"handler", "finalize"}
  /\ \/ /\ \E answer \in HandlerAnswers(call.op) \ Challenges : Leave("exit", answer, 0)
        /\ UNCHANGED <<tan, vop, issued>>
     \/ /\ "error" \in HandlerAnswers(call.op) /\ call.op # "accounts"
        /\ Leave("exit", "raised", 0)
        /\ UNCHANGED <<tan, vop, issued>>
     \/ /\ "tan" \in HandlerAnswers(call.op)
        /\ Issue(tan') /\ Leave("exit", "tan", tan')
        /\ UNCHANGED vop
     \/ /\ "vop" \in HandlerAnswers(call.op)
        /\ vop' = TRUE /\ Leave("exit", "vop", 0)
        /\ UNCHANGED <<tan, issued>>
  /\ UNCHANGED <<conn, dialog, initTan, order, call, history>>

\* send_tan or approve_vop_response: the answer is looked at after the scope.
Submit ==
  /\ pc = "operate"
  /\ call.fn \in {"confirm", "approve"}
  /\ \/ /\ \E answer \in SubmitAnswers("transfer") \ {"tan", "decoupled", "error"} :
             Leave("exit", answer, 0)
        /\ UNCHANGED issued
     \/ /\ "error" \in BankAnswers
        /\ Leave("exit", "raised", 0)
        /\ UNCHANGED issued
     \/ /\ "tan" \in BankAnswers
        /\ Issue(issued + 1) /\ Leave("exit", "tan", issued + 1)
  /\ UNCHANGED <<object, call, history>>

\* Mutant: only a TAN challenge keeps an owned client open.
ExitClosingOnVop ==
  LET raised == outcome.answer = "raised" /\ call.op # "accounts"
      closes == call.owned /\ ~raised /\ outcome.answer # "tan"
  IN
  /\ pc = "exit"
  /\ pc' = "settle"
  /\ outcome' = IF raised THEN [outcome EXCEPT !.answer = "error"] ELSE outcome
  /\ IF closes THEN Closed
               ELSE /\ dialog' = (dialog /\ ~raised)
                    /\ UNCHANGED <<conn, initTan, tan, vop, order>>
  /\ UNCHANGED <<call, issued, history>>

\* _ClientScope.__exit__; begin_accounts has no scope.  An unexpected exception ends the
\* dialog and is turned into a FinTSOperationError before an owned client is closed.
Exit ==
  LET raised == outcome.answer = "raised" /\ call.op # "accounts"
      closes == call.owned /\ ~raised /\ outcome.answer \notin Challenges
  IN
  /\ pc = "exit"
  /\ pc' = "settle"
  /\ outcome' = IF raised THEN [outcome EXCEPT !.answer = "error"] ELSE outcome
  /\ IF closes THEN Closed
               ELSE /\ dialog' = (dialog /\ ~raised)
                    /\ UNCHANGED <<conn, initTan, tan, vop, order>>
  /\ UNCHANGED <<call, issued, history>>

-----------------------------------------------------------------------------
(* What a call does with its outcome.                                        *)

\* Mutant: a transfer forgets its order only when the bank has answered it.
SettleHandlerKeepingOrder ==
  /\ pc = "settle"
  /\ call.fn \in {"handler", "finalize"}
  /\ order' = IF call.op = "transfer" /\ outcome.answer = "ok" THEN NoName ELSE order
  /\ tan' = IF call.fn = "finalize" /\ outcome.answer = "tan" /\ initTan # 0 THEN initTan ELSE tan
  /\ Return(outcome)
  /\ UNCHANGED <<conn, dialog, initTan, vop>>

\* The end of a handler: a transfer forgets its order unless a challenge interrupts it.
\* When confirm_pending or approve_vop started it, they look at init_tan_response again.
SettleHandler ==
  /\ pc = "settle"
  /\ call.fn \in {"handler", "finalize"}
  /\ order' = IF call.op = "transfer" /\ outcome.answer \notin Challenges THEN NoName ELSE order
  /\ tan' = IF call.fn = "finalize" /\ outcome.answer = "tan" /\ initTan # 0 THEN initTan ELSE tan
  /\ Return(outcome)
  /\ UNCHANGED <<conn, dialog, initTan, vop>>

SettleFailure ==
  /\ pc = "settle"
  /\ call.fn \in {"confirm", "approve"}
  /\ outcome.answer = "error"
  /\ Return(outcome)
  /\ UNCHANGED object

\* A challenge: the TAN of a dialog that had to be opened again arrives as an exception,
\* which makes no difference to approve_vop and keeps a pending VoP in confirm_pending.
SettleChallenge ==
  /\ pc = "settle"
  /\ call.fn \in {"confirm", "approve"}
  /\ outcome.answer \in Challenges
  /\ LET reopened == outcome.answer = "tan" /\ outcome.tan = tan
     IN /\ tan' = IF reopened /\ initTan # 0 THEN initTan
                  ELSE IF outcome.answer = "tan" THEN outcome.tan
                  ELSE IF call.fn = "confirm" THEN 0 ELSE tan
        /\ vop' = (outcome.answer = "vop" \/ (call.fn = "confirm" /\ reopened /\ vop))
  /\ Return(outcome)
  /\ UNCHANGED <<conn, dialog, initTan, order>>

\* Mutant: init_tan_response survives the TAN that answered it.
SettleResultKeepingInitTan ==
  /\ pc = "settle"
  /\ call.fn \in {"confirm", "approve"}
  /\ outcome.answer \in {"transfer_result", "other_result"}
  /\ tan' = IF call.fn = "confirm" THEN 0 ELSE tan
  /\ vop' = FALSE
  /\ order' = NoName
  /\ IF outcome.answer = "other_result" /\ order # NoName
       THEN /\ call' = [fn |-> "finalize", op |-> "transfer", name |-> order, owned |-> FALSE]
            /\ pc' = "validate"
            /\ outcome' = NoOutcome
            /\ UNCHANGED <<issued, history>>
       ELSE Return(outcome)
  /\ UNCHANGED <<conn, dialog, initTan>>

\* Mutant: a result that does not end a transfer starts one, whether or not one is pending.
SettleResultWithoutOrder ==
  /\ pc = "settle"
  /\ call.fn \in {"confirm", "approve"}
  /\ outcome.answer \in {"transfer_result", "other_result"}
  /\ tan' = IF call.fn = "confirm" THEN 0 ELSE tan
  /\ vop' = FALSE
  /\ initTan' = 0
  /\ order' = NoName
  /\ IF outcome.answer = "other_result"
       THEN /\ call' = [fn |-> "finalize", op |-> "transfer", name |-> order, owned |-> FALSE]
            /\ pc' = "validate"
            /\ outcome' = NoOutcome
            /\ UNCHANGED <<issued, history>>
       ELSE Return(outcome)
  /\ UNCHANGED <<conn, dialog>>

\* The challenge is met.  _finalize_pending_transfer_result: the result of a pending
\* order ends it; with any other result the order is sent again.
SettleResult ==
  /\ pc = "settle"
  /\ call.fn \in {"confirm", "approve"}
  /\ outcome.answer \in {"transfer_result", "other_result"}
  /\ tan' = IF call.fn = "confirm" THEN 0 ELSE tan
  /\ vop' = FALSE
  /\ initTan' = 0
  /\ order' = NoName
  /\ IF outcome.answer = "other_result" /\ order # NoName
       THEN /\ call' = [fn |-> "finalize", op |-> "transfer", name |-> order, owned |-> FALSE]
            /\ pc' = "validate"
            /\ outcome' = NoOutcome
            /\ UNCHANGED <<issued, history>>
       ELSE Return(outcome)
  /\ UNCHANGED <<conn, dialog>>

-----------------------------------------------------------------------------
Close ==
  /\ pc = "idle"
  /\ Closed
  /\ UNCHANGED <<pc, call, outcome, issued, history>>

ClearPending ==
  /\ pc = "idle"
  /\ tan' = 0 /\ vop' = FALSE /\ order' = NoName
  /\ initTan' = 0
  /\ UNCHANGED <<conn, dialog, pc, call, outcome, issued, history>>

Next ==
  \/ StartRead \/ StartTransfer \/ StartSubmit \/ Validate
  \/ Prepare \/ EnterStanding \/ OpenDialog \/ OpenDialogFails
  \/ Operate \/ Submit \/ Exit
  \/ SettleHandler \/ SettleFailure \/ SettleChallenge \/ SettleResult
  \/ Close \/ ClearPending

Spec == Init /\ [][Next]_vars

-----------------------------------------------------------------------------
(* Properties.                                                               *)

\* The TAN a caller provides goes to the challenge the caller was last shown, whatever
\* challenges of dialogs and of operations replaced one another in between.
TanIsForShown == pc = "idle" /\ tan # 0 => tan = shown

\* An order waits in the object only together with a challenge: a confirmation that
\* comes later never sends an order that was already refused or has failed.
OrderHasChallenge == pc = "idle" /\ order # NoName => tan # 0 \/ vop

\* Every call ends as FacadeCalls allows for the answer it returns: this is what lets
\* SessionStore take a call for two steps.  An exception other than a FinTSOperationError
\* reaches the caller only from begin_accounts, or while there is no client yet.
Facade == INSTANCE FacadeCalls WITH
  obj   <- IF pc = "idle" THEN Current ELSE before,
  doing <- IF pc = "idle" THEN NoRequest ELSE request

FacadeSpec == Facade!Spec

=============================================================================
