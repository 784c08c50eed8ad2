---------------------------- MODULE ClientFacade ----------------------------
(*****************************************************************************)
(* The bank client object a session owns (easy_fints.client.FinTSClient), as *)
(* the request handlers see it: is the python-fints client behind it open,   *)
(* which challenge does it remember, and which transfer order does it keep   *)
(* to finish once the challenge is met.  The operators say what one call     *)
(* leaves in the object for each kind of answer the bank may give.           *)
(*                                                                           *)
(* An order is represented by the recipient name it carries: the name is the *)
(* only parameter the service ever changes after a transfer was started.     *)
(*****************************************************************************)
EXTENDS Naturals

CONSTANTS
  Names,       \* recipient names of transfer orders
  NoName,      \* no order (a read operation, or nothing pending)
  BankAnswers  \* the kinds of answer to a call; "raised" is an exception that is no
               \* FinTSOperationError (a bound of a model)

ASSUME NamesAssumption == NoName \notin Names

OrderName == Names \cup {NoName}

Operations == {"accounts", "balance", "transactions", "transfer"}

Client == [open : BOOLEAN, tan : BOOLEAN, vop : BOOLEAN, order : OrderName]

\* FinTSClient() before its first call, and also what close() leaves behind.
ClosedClient == [open |-> FALSE, tan |-> FALSE, vop |-> FALSE, order |-> NoName]

ClearPendingConfirmations(c) ==
  [c EXCEPT !.tan = FALSE, !.vop = FALSE, !.order = NoName]

-----------------------------------------------------------------------------
(* Operation handlers: begin_accounts, get_account_overview,                 *)
(* list_transactions_by_account and initiate_transfer.                       *)

\* A handler opens the client if there is none; a transfer remembers its order
\* before it talks to the bank.
Calling(c, op, name) ==
  [c EXCEPT !.open = TRUE, !.order = IF op = "transfer" THEN name ELSE @]

\* _ClientScope owns the client it had to create; begin_accounts uses no scope.
OwnsClient(c, op) == op # "accounts" /\ ~c.open

Challenges == {"tan", "decoupled", "vop"}

\* Verification of payee and parameter validation exist for transfers only.  A scope
\* turns every exception into a FinTSOperationError; begin_accounts passes on what
\* happens outside of _run.
HandlerAnswers(op) ==
  BankAnswers \cap
    ({"tan", "decoupled", "ok", "capability", "error"}
       \cup (CASE op = "transfer" -> {"vop", "validation"} [] op = "accounts" -> {"raised"} [] OTHER -> {}))

\* A challenge keeps client and order for the next request.  Any other end
\* forgets the order, and an owning scope closes the client - except when the
\* failure came from the bootstrap, which runs before the scope's try block.
AfterHandler(c, op, answer, owned) ==
  LET settled == [c EXCEPT !.order = IF op = "transfer" THEN NoName ELSE @]
  IN CASE answer \in {"tan", "decoupled"} -> {[c EXCEPT !.tan = TRUE]}
       [] answer = "vop"                  -> {[c EXCEPT !.vop = TRUE]}
       [] OTHER -> IF ~owned THEN {settled}
                   ELSE {ClosedClient} \cup (IF answer \in {"ok", "validation"} THEN {} ELSE {settled})

-----------------------------------------------------------------------------
(* confirm_pending and approve_vop.                                          *)

SubmitAnswers(op) ==
  BankAnswers \cap
    ({"tan", "decoupled", "other_result", "error"}
       \cup (IF op = "transfer" THEN {"vop", "transfer_result"} ELSE {}))

CanSubmit(c, action) ==
  /\ c.open
  /\ IF action = "approve" THEN c.vop ELSE c.tan

\* Mutant: a VoP answer to a TAN does not drop the TAN challenge that was met.
AfterSubmitKeepingTan(c, action, answer) ==
  CASE answer \in {"tan", "decoupled"} -> {[c EXCEPT !.tan = TRUE, !.vop = FALSE]}
    [] answer = "vop"                  -> {[c EXCEPT !.vop = TRUE]}
    [] answer \in {"transfer_result", "other_result"} -> {ClearPendingConfirmations(c)}
    [] OTHER                           -> {c}

\* What confirm_pending ("confirm") or approve_vop ("approve") leaves behind.
\* A TAN answer drops the other challenge when it is returned, and keeps it when
\* confirm_pending received it as an exception.
AfterSubmit(c, action, answer) ==
  CASE answer \in {"tan", "decoupled"} ->
         {[c EXCEPT !.tan = TRUE, !.vop = v] :
            v \in {FALSE} \cup (IF action = "confirm" THEN {c.vop} ELSE {})}
    [] answer = "vop" ->
         {[c EXCEPT !.vop = TRUE, !.tan = (action = "approve" /\ @)]}
    [] answer = "transfer_result" ->
         {[c EXCEPT !.vop = FALSE, !.tan = (action = "approve" /\ @), !.order = NoName]}
    [] answer = "other_result" ->
         {[c EXCEPT !.vop = FALSE, !.tan = (action = "approve" /\ @)]}
    [] OTHER -> {c}

=============================================================================
