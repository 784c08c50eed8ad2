-------------------------- MODULE OperationWorkflow --------------------------
(*****************************************************************************)
(* One operation from its request to its final answer: a caller that answers *)
(* challenges as examples/api_tan_helper.py does, the request handler with   *)
(* /confirm (api.py), the FinTSClient that sends the commands of the         *)
(* operation (_client_reads, _client_transfer), and the bank.  Sessions and  *)
(* the state a FinTSClient keeps between calls are in SessionStore and       *)
(* ClientRuntime; here is what the commands bring and what becomes of it.    *)
(*****************************************************************************)
EXTENDS TanSelection, RetryDetection, TransactionMapping, AccountMatching

CONSTANTS
  Accounts,       \* the user's accounts at the bank, a sequence of account records
  Needles,        \* account filters of requests
  Configs,        \* TAN configurations: [wanted, before]
  Banks,          \* what banks say of TAN mechanisms, see TanSelection
  Transactions,   \* booked transactions, see TransactionMapping
  TanScopes       \* what one approval is good for: the rest of the "dialog", or one "request"

ASSUME AccountsAssumption ==
  /\ Accounts \in Seq([iban : STRING, number : STRING, bank : STRING, subaccount : STRING])
  /\ Absent \notin STRING
  /\ TanScopes \subseteq {"dialog", "request"}

ASSUME BanksAssumption ==
  /\ \A config \in Configs :
       config.wanted \in TwoStepCodes \cup {NoMechanism} /\ config.before \in BOOLEAN
  /\ \A bank \in Banks :
       /\ bank.methods \in Seq(TwoStepCodes \cup {OneStep})
       /\ bank.allowed \subseteq TwoStepCodes \cup {OneStep}

\* An amount that is no number has its sign in lead; a bare one, and one that cannot be
\* read, names no currency.
ASSUME TransactionsAssumption ==
  \A tx \in Transactions : \A place \in DOMAIN tx \cap AmountPlaces :
    /\ tx[place] \in Amount /\ tx[place] # Missing
    /\ tx[place].form # "number" => tx[place].number >= 0
    /\ tx[place].form = "opaque" \/ tx[place].frame = "bare" => tx[place].currency = "none"

\* In the places of a party's name and account stands which party it is.
ASSUME PartiesAssumption ==
  \A tx \in Transactions : \A places \in PartyPlaces :
    {places[1], places[2]} \subseteq DOMAIN tx => tx[places[1]] = tx[places[2]]

Reads      == {"accounts", "balance", "counted_balance", "transactions"}
Operations == Reads \cup {"transfer"}
Ids        == DOMAIN Accounts

VARIABLES
  scope,      \* what an approval is good for at this bank
  checks,     \* the bank verifies payees
  request,    \* [op, needle]
  phase,      \* where the operation is
  prep,       \* the preparation of the client: [config, bank, current]
  twoStep,    \* the client works with a two-step mechanism
  listing,    \* selected accounts, the entry found for each, and those told apart
  collected,  \* the summaries of the accounts done so far
  balance,    \* the balance got for the account at hand
  booked,     \* history: a transaction of the last account, as the bank booked it
  waits,      \* what the bank waits for
  inApp,      \* the user has approved in the app
  pending,    \* the challenge the caller was given
  granted,    \* the bank asks for nothing more in this dialog
  executed,   \* history: the bank has executed the order that was sent last
  answer      \* the final answer

bankside == <<scope, checks, waits, inApp, granted, executed>>
work     == <<listing, collected, balance, booked>>
vars     == <<bankside, request, phase, prep, twoStep, work, pending, answer>>

NoPrep    == [current |-> NoMechanism]
NoListing == [selected |-> <<>>, matched |-> <<>>, told |-> {}]
NoBooking == <<>>

Waiting  == {"tan", "app", "payee"}
Balances == {"none", "shown", "missing"}

\* AccountSummary and AccountTransactions: the account, whose bank information is shown
\* with it, its balance and its transactions.
Summaries == [account : Ids, info : Ids \cup {0}, balance : Balances, rows : {"none", "shown"}]

TypeOK ==
  /\ scope \in TanScopes /\ checks \in BOOLEAN
  /\ request \in [op : Operations, needle : Needles]
  /\ phase \in {"start", "prepared", "list", "balance", "rows", "pay", "awaiting", "answered"}
  /\ prep = NoPrep \/ (prep.config \in Configs /\ prep.bank \in Banks /\ prep.current \in Mechanism)
  /\ twoStep \in BOOLEAN
  /\ listing.selected \in Seq(Ids) /\ listing.matched \in Seq(Ids \cup {0})
  /\ listing.told \subseteq Ids
  /\ collected \in Seq(Summaries) /\ Len(collected) <= Len(listing.selected)
  /\ balance \in Balances
  /\ booked \in Transactions \cup {NoBooking}
  /\ waits \in Waiting \cup {"none"} /\ inApp \in BOOLEAN /\ granted \in BOOLEAN
  /\ pending \in {"none", "tan", "decoupled", "vop"}
  /\ executed \in BOOLEAN
  /\ answer \in {"none", "ok", "error", "aborted"}

Init ==
  /\ scope \in TanScopes /\ checks \in BOOLEAN
  /\ request \in [op : Operations, needle : Needles]
  /\ request.op = "transfer" => request.needle # Absent
  /\ request.op = "accounts" => request.needle = Absent
  /\ checks => request.op = "transfer"
  /\ phase = "start" /\ prep = NoPrep /\ twoStep = FALSE
  /\ listing = NoListing /\ collected = <<>> /\ balance = "none" /\ booked = NoBooking
  /\ waits = "none" /\ inApp = FALSE /\ granted = FALSE
  /\ pending = "none" /\ executed = FALSE /\ answer = "none"

-----------------------------------------------------------------------------
(* The bank, and what the client makes of its responses.                     *)

Commands == {"list", "balance", "rows", "pay"}

\* A read is free once the dialog is approved; a payment never is.
BankIntents(command) ==
  IF command = "pay" THEN IF checks THEN Intents ELSE Intents \ {"payee"}
  ELSE IF granted THEN {"done", "refused"} ELSE Intents \ {"payee"}

\* _need_twostep_tan_for_segment: the bank also says for which commands it wants a TAN
\* segment.
TanSegments == IF twoStep THEN BOOLEAN ELSE {FALSE}

Verdict(command, response, withTan) ==
  IF command = "pay" THEN SendPayVerdict(response, withTan, checks)
                     ELSE SendVerdict(response, withTan)

\* What the client takes the responses for by which the bank means something.
Verdicts(command, intent) ==
  UNION {{Verdict(command, response, withTan) :
            response \in Responses(intent, withTan, command = "pay" /\ checks)} : withTan \in TanSegments}

\* What the bank means by its response to a command, and what the client takes it for.
Exchanges(command) ==
  {exchange \in [intent : BankIntents(command), verdict : Detections] :
     exchange.verdict \in Verdicts(command, exchange.intent)}

Hears(exchange) ==
  waits' = IF exchange.intent \in Waiting THEN exchange.intent ELSE "none"

\* The status of a response to a payment that was taken for a result.
StatusesOf(intent) ==
  IF intent = "refused" THEN {"ERROR", "UNKNOWN"} ELSE {"SUCCESS", "WARNING", "UNKNOWN"}

-----------------------------------------------------------------------------
(* Answers.                                                                  *)

Answer(final) ==
  /\ phase' = "answered"
  /\ answer' = final

\* TanRequiredError and VOPRequiredError: the operation is given up, the caller gets the
\* challenge.
Interrupt(verdict) ==
  /\ phase' = "awaiting"
  /\ pending' = CASE verdict = "tan" -> "tan" [] verdict = "decoupled" -> "decoupled" [] OTHER -> "vop"
  /\ UNCHANGED answer

Challenging(exchange) == exchange.verdict \in {"tan", "decoupled", "vop"}

-----------------------------------------------------------------------------
(* The client.                                                               *)

\* What _prepare_client makes of a client.
Preparations ==
  {[config |-> config, bank |-> bank, current |-> Prepared(config, bank).current] :
     config \in Configs, bank \in Banks}

\* create_client and _prepare_client
Prepare ==
  /\ phase = "start"
  /\ prep' \in Preparations
  /\ phase' = "prepared"
  /\ UNCHANGED <<bankside, request, twoStep, work, pending, answer>>

PrepareFails ==
  /\ phase = "start"
  /\ Answer("error")
  /\ UNCHANGED <<bankside, request, prep, twoStep, work, pending>>

\* _open_dialog_for_operation: with a two-step mechanism the bank may want an approval
\* for the dialog itself, which python-fints keeps in init_tan_response.
OpenDialog ==
  /\ phase = "prepared"
  /\ twoStep' = (prep.current \in TwoStepCodes)
  /\ prep' = NoPrep
  /\ \E intent \in IF twoStep' THEN {"done", "tan", "app", "refused"} ELSE {"done", "refused"} :
       /\ Hears([intent |-> intent])
       /\ CASE intent = "done"    -> phase' = "list" /\ UNCHANGED <<pending, answer>>
            [] intent = "refused" -> Answer("error") /\ UNCHANGED pending
            [] OTHER              -> Interrupt(IF intent = "app" THEN "decoupled" ELSE "tan")
  /\ UNCHANGED <<scope, checks, inApp, granted, executed, request, work>>

\* How the bank describes an account: in its list of SEPA accounts, and in the user
\* parameter data.
Views == [account : SUBSET {"iban", "bank", "subaccount"}, entry : SUBSET {"iban", "bank", "subaccount"}]

Described(id, hidden) ==
  [field \in DOMAIN Accounts[id] |-> IF field \in hidden THEN Absent ELSE Accounts[id][field]]

AllDescribed(hidden) == [id \in Ids |-> Described(id, hidden)]

\* The accounts that what the bank shows on both sides tells from all others.
ToldApart(view) ==
  LET differ(i, j, field) ==
        field \notin view.account \cup view.entry /\ Accounts[i][field] # Accounts[j][field]
  IN {i \in Ids : \A j \in Ids \ {i} :
        IF "iban" \in view.account \cup view.entry
          THEN \E field \in {"number", "bank", "subaccount"} : differ(i, j, field)
          ELSE differ(i, j, "iban")}

\* match_account_information for every selected account; list_account_information takes a
\* failure for no information.
Matched(view, informed, selected) ==
  [k \in DOMAIN selected |->
     IF informed THEN MatchAccountInformation(Described(selected[k], view.account), AllDescribed(view.entry))
                 ELSE 0]

\* list_accounts with select_accounts, and the information the bank has of them (at which
\* a transfer does not look).
Listings == [needle \in Needles |->
  UNION {{[selected |-> selected, matched |-> Matched(view, informed, selected),
           told |-> IF informed THEN ToldApart(view) ELSE {}] :
            selected \in SelectAccounts(AllDescribed(view.account), needle)} :
         view \in Views, informed \in BOOLEAN}]

\* AccountSummary.from_account for the k-th selected account
Summary(list, k, itsBalance, rows) ==
  [account |-> list.selected[k], info |-> list.matched[k], balance |-> itsBalance, rows |-> rows]

FirstPhase(op) ==
  CASE op = "transfer" -> "pay" [] op = "transactions" -> "rows" [] OTHER -> "balance"

\* begin_accounts is done with the list; a transfer needs exactly one account; the other
\* operations go on with the first, if there is one.
WithList(list) ==
  /\ listing' = list
  /\ CASE request.op = "transfer" /\ Len(list.selected) # 1 ->
            Answer("error") /\ UNCHANGED collected
       [] request.op = "accounts" \/ (request.op # "transfer" /\ list.selected = <<>>) ->
            /\ collected' = [k \in DOMAIN list.selected |-> Summary(list, k, "none", "none")]
            /\ Answer("ok")
       [] OTHER ->
            phase' = FirstPhase(request.op) /\ UNCHANGED <<collected, answer>>

\* helpers.list_accounts makes a list of whatever it gets: of a challenge it cannot, which
\* is an error; of a refusal that is not seen it makes an empty one.
ListAccounts ==
  /\ phase = "list"
  /\ \E exchange \in Exchanges("list") :
       /\ Hears(exchange)
       /\ IF exchange.verdict # "result" THEN Answer("error") /\ UNCHANGED <<listing, collected>>
          ELSE IF exchange.intent = "refused" THEN WithList(NoListing)
          ELSE \E list \in Listings[request.needle] : WithList(list)
  /\ UNCHANGED <<scope, checks, inApp, granted, executed, request, prep, twoStep, balance, booked, pending>>

\* Mutant: the loop over the accounts ends one too early.
CollectButLast(itsBalance, rows) ==
  LET k == Len(collected) + 1
  IN /\ collected' = Append(collected, Summary(listing, k, itsBalance, rows))
     /\ balance' = "none"
     /\ IF k >= Len(listing.selected) - 1 THEN Answer("ok")
                                          ELSE phase' = FirstPhase(request.op) /\ UNCHANGED answer

\* An account is done.
Collect(itsBalance, rows) ==
  LET k == Len(collected) + 1
  IN /\ collected' = Append(collected, Summary(listing, k, itsBalance, rows))
     /\ balance' = "none"
     /\ IF k = Len(listing.selected) THEN Answer("ok")
                                     ELSE phase' = FirstPhase(request.op) /\ UNCHANGED answer

WithBalance(itsBalance) ==
  IF request.op = "balance" THEN Collect(itsBalance, "none")
  ELSE balance' = itsBalance /\ phase' = "rows" /\ UNCHANGED <<collected, answer>>

\* Mutant: what the bank asks for while a balance is got is lost in the except clause.
GetBalanceSwallowing ==
  /\ phase = "balance"
  /\ \E exchange \in Exchanges("balance") :
       /\ Hears(exchange)
       /\ WithBalance(IF exchange.intent = "done" /\ exchange.verdict = "result" THEN "shown" ELSE "missing")
  /\ UNCHANGED <<scope, checks, inApp, granted, executed, request, prep, twoStep, listing, booked, pending>>

\* get_account_overview: helpers.get_balance takes an exception for no balance, but a
\* challenge is no exception.
GetBalance ==
  /\ phase = "balance"
  /\ \E exchange \in Exchanges("balance") :
       /\ Hears(exchange)
       /\ IF Challenging(exchange)
            THEN Interrupt(exchange.verdict) /\ UNCHANGED <<collected, balance>>
            ELSE /\ WithBalance(IF exchange.intent = "done" THEN "shown" ELSE "missing")
                 /\ UNCHANGED pending
  /\ UNCHANGED <<scope, checks, inApp, granted, executed, request, prep, twoStep, listing, booked>>

\* The TransactionRecord.from_row of the row that _normalize_transaction_rows makes of a
\* transaction: all that the answer holds of it.
Row == NormalizeTransaction(booked)

\* _get_transactions_rows and _get_transactions_rows_for_window; the rows that belong to a
\* balance are only counted.
GetTransactions ==
  /\ phase = "rows"
  /\ \E exchange \in Exchanges("rows") :
       /\ Hears(exchange)
       /\ CASE Challenging(exchange) ->
                 Interrupt(exchange.verdict) /\ UNCHANGED <<collected, balance, booked>>
            [] exchange.verdict = "error" ->
                 Answer("error") /\ UNCHANGED <<collected, balance, booked, pending>>
            [] OTHER ->
                 /\ Collect(balance, "shown")
                 /\ \/ UNCHANGED booked
                    \/ /\ request.op = "transactions" /\ exchange.intent = "done" /\ answer' = "ok"
                       /\ booked' \in Transactions
                 /\ UNCHANGED pending
  /\ UNCHANGED <<scope, checks, inApp, granted, executed, request, prep, twoStep, listing>>

\* initiate_transfer from the sending of the order on: a response without success is an
\* error of the operation, whatever the bank has done.
Pay ==
  /\ phase = "pay"
  /\ \E exchange \in Exchanges("pay") :
       /\ Hears(exchange)
       /\ executed' = (exchange.intent = "done")
       /\ CASE Challenging(exchange)      -> Interrupt(exchange.verdict)
            [] exchange.verdict = "error" -> Answer("error") /\ UNCHANGED pending
            [] OTHER -> /\ \E status \in StatusesOf(exchange.intent) :
                             Answer(IF Success(status) THEN "ok" ELSE "error")
                        /\ UNCHANGED pending
  /\ UNCHANGED <<scope, checks, inApp, granted, request, prep, twoStep, work>>

-----------------------------------------------------------------------------
(* The caller and the user.                                                  *)

\* Mutant: the resumed handler adds to what the interrupted one had collected.
RestartKeepingPart ==
  /\ phase' = "list"
  /\ listing' = NoListing
  /\ balance' = "none" /\ booked' = NoBooking
  /\ pending' = "none" /\ waits' = "none" /\ inApp' = FALSE
  /\ UNCHANGED <<collected, answer>>

\* /confirm and /transfer/retry-with-name start the handler of the operation again.
Restart ==
  /\ phase' = "list"
  /\ listing' = NoListing /\ collected' = <<>>
  /\ balance' = "none" /\ booked' = NoBooking
  /\ pending' = "none" /\ waits' = "none" /\ inApp' = FALSE
  /\ UNCHANGED answer

\* An order that was sent is executed once it is approved; an approval for the dialog
\* executes none.
ExecutePending == executed' = (request.op = "transfer" /\ listing # NoListing)

\* Mutant: the operation is resumed with a client of its own.
ApprovedInNewDialog ==
  /\ Restart
  /\ granted' = FALSE
  /\ ExecutePending

\* The bank has what it waited for and executes the command it had interrupted.
\* confirm_pending brings its result, a list of rows or the response to a payment, which
\* _confirm_local does not take for the result of the operation.
Approved ==
  /\ Restart
  /\ granted' = (scope = "dialog" /\ request.op # "transfer")
  /\ ExecutePending

\* The user, in the app.
ApproveInApp ==
  /\ phase = "awaiting" /\ waits = "app" /\ ~inApp
  /\ inApp' = TRUE
  /\ UNCHANGED <<scope, checks, waits, granted, executed, request, phase, prep, twoStep, work, pending, answer>>

\* confirm_flow asks for a TAN unless the state says otherwise.
ConfirmTan ==
  /\ phase = "awaiting" /\ pending = "tan"
  /\ \/ /\ waits = "tan" \/ inApp
        /\ Approved
     \/ Answer("error") /\ UNCHANGED <<waits, inApp, granted, executed, work, pending>>
  /\ UNCHANGED <<scope, checks, request, prep, twoStep>>

\* The caller confirms once the user says so; a confirmation that comes too early gets
\* the challenge again (202), and an answer of the bank may be an error.
ConfirmDecoupled ==
  /\ phase = "awaiting" /\ pending = "decoupled"
  /\ \/ inApp /\ Approved
     \/ ~inApp /\ UNCHANGED <<waits, inApp, granted, executed, phase, work, pending, answer>>
     \/ Answer("error") /\ UNCHANGED <<waits, inApp, granted, executed, work, pending>>
  /\ UNCHANGED <<scope, checks, request, prep, twoStep>>

\* approve_vop: the bank executes the payment, or wants a TAN or an approval for it.
ApproveVop ==
  /\ phase = "awaiting" /\ pending = "vop"
  /\ \/ Approved
     \/ /\ waits' \in {"tan", "app"}
        /\ Interrupt(IF waits' = "app" THEN "decoupled" ELSE "tan")
        /\ UNCHANGED <<inApp, granted, executed, work>>
     \/ Answer("error") /\ UNCHANGED <<waits, inApp, granted, executed, work, pending>>
  /\ UNCHANGED <<scope, checks, request, prep, twoStep>>

\* The payee's name is corrected: clear_pending_confirmations, then the order again.
RetryWithName ==
  /\ phase = "awaiting" /\ pending = "vop"
  /\ Restart
  /\ UNCHANGED <<scope, checks, granted, executed, request, prep, twoStep>>

\* The caller gives up; nobody tells the server.
AbortVop ==
  /\ phase = "awaiting" /\ pending = "vop"
  /\ Answer("aborted")
  /\ UNCHANGED <<bankside, request, prep, twoStep, work, pending>>

-----------------------------------------------------------------------------
Work == PrepareFails \/ Prepare \/ OpenDialog \/ ListAccounts \/ GetBalance \/ GetTransactions \/ Pay

Confirm == ConfirmTan \/ ConfirmDecoupled \/ ApproveVop \/ RetryWithName \/ AbortVop

Next == Work \/ ApproveInApp \/ Confirm

Spec == Init /\ [][Next]_vars

\* The server goes on with a request, the caller with its challenges, and the user
\* approves in the end what is asked in the app; whoever can go on is the only one.
LiveSpec == Spec /\ WF_vars(Next)

-----------------------------------------------------------------------------
(* Properties.                                                               *)

\* No request of the bank for a TAN or an approval is overlooked: an operation goes on,
\* or is answered with data, only while the bank waits for nothing.  The bank's
\* response takes different forms with and without a TAN segment, with a payee check, and
\* for a balance, whose errors are swallowed.
WaitingBankIsSeen == waits # "none" => phase = "awaiting" \/ answer \in {"error", "aborted"}

\* A transfer that is answered with success has been executed by the bank, and it is the
\* order sent last that has: no form of a challenge, of a payee check or of a refusal, given
\* with or without a TAN segment, passes for the execution.  The answer is made from the
\* codes, segments and status of the response; what the bank means by it, it never sees.
NoFalseSuccess == answer = "ok" /\ request.op = "transfer" => executed

\* An operation that was interrupted, perhaps several times and at different accounts, is
\* answered with every selected account once, and a balance or transactions for each.
AnswerIsComplete ==
  answer = "ok" /\ request.op \in Reads =>
    /\ [k \in DOMAIN collected |-> collected[k].account] = listing.selected
    /\ \A k \in DOMAIN collected :
         /\ (collected[k].balance # "none") <=> request.op \in {"balance", "counted_balance"}
         /\ (collected[k].rows # "none") <=> request.op \in {"transactions", "counted_balance"}

\* The information shown with an account is the one the bank has of it, if the bank shows
\* enough of both to tell the account from all others.
InformationIsOwn ==
  \A k \in DOMAIN listing.selected :
    listing.selected[k] \in listing.told => listing.matched[k] = listing.selected[k]

\* A prepared client works with the mechanism its configuration names, if it names one.
ConfiguredMechanismWins ==
  prep # NoPrep /\ prep.config.wanted # NoMechanism => prep.current = prep.config.wanted

\* Without a configured mechanism a prepared client ends up with a two-step mechanism the
\* user may use.  This is said of banks that announce the user's mechanisms (3920), offer
\* a two-step one and do not offer one-step TAN as well: with one-step TAN on offer the code
\* stays with it, and without an announcement it cannot know what the user may use.
TwoStepIsUsed ==
  LET bank  == prep.bank
      offer == {bank.methods[i] : i \in DOMAIN bank.methods} \cap bank.allowed
  IN prep # NoPrep /\ prep.config.wanted = NoMechanism /\ bank.announces =>
       \/ prep.current \in offer \cap TwoStepCodes
       \/ OneStep \in offer
       \/ offer \cap TwoStepCodes = {}

\* The row of a debit has no positive amount, in whatever form the bank gave it, and is
\* worth what the bank booked; any other row is worth exactly that.
DebitIsNegative ==
  booked # NoBooking /\ Row["amount"] # Missing =>
    LET shown  == Row["amount"]
        amounts == {booked[place] : place \in DOMAIN booked \cap AmountPlaces}
    IN \E amount \in amounts :
         /\ shown.form # "number" => shown.number = amount.number
         /\ IF Indicator(booked) # "DBIT" \/ ~Readable(shown)
              THEN Worth(shown) = Worth(amount)
              ELSE Worth(shown) <= 0 /\ Worth(shown) \in {Worth(amount), -Worth(amount)}

\* The forms in which names and accounts are looked for in different parts of an entry.
FlatPlaces == {"flat.Creditor", "flat.Debtor", "flat.details.CreditorAccount", "flat.details.DebtorAccount"}

\* Names that come without an account, and accounts that come without a name.
UnpairedPlaces == {"tx.recipient_name", "tx.account", "data.applicant_bin"}

\* The name and the account in a row belong to the same party, provided that the bank
\* gives both or none of every party, and neither in a flat form.
CounterpartyIsOneParty ==
  booked # NoBooking =>
    \/ DOMAIN booked \cap (FlatPlaces \cup UnpairedPlaces) # {}
    \/ \E places \in PartyPlaces :
         (places[1] \in DOMAIN booked) # (places[2] \in DOMAIN booked)
    \/ Row["counterparty_name"] = Row["counterparty_iban"]

\* A booked amount is shown in its own currency, unless the bank names one for the entry,
\* or gives the entry's amount in another frame than CAMT's beside an amount in the details
\* with a currency named as CAMT does: then the code shows the amount of the entry in the
\* currency of the details, and the property says nothing.
AmountKeepsCurrency ==
  LET tx == booked
      places == <<"tx.amount", "tx.transaction_amount", "tx.value", "data.amount",
                  "Amount", "details.Amount">>
      first == FirstPresent(tx, places)
  IN /\ booked # NoBooking
     /\ DOMAIN tx \cap {"tx.currency", "data.currency", "Currency"} = {}
     /\ first # Missing /\ first.currency # "none"
     /\ FirstPlace(tx, places) = "Amount" =>
          first.frame = "camt" \/ CamtCurrency(tx, "details.Amount") = Missing
     => Row["currency"] = first.currency

\* How far an operation is from its answer: the phases, then the accounts left, then the
\* parts of an account, or the user's approval.
Distance == [start |-> 6, prepared |-> 5, list |-> 4, balance |-> 2, rows |-> 2, awaiting |-> 1, answered |-> 0]

Left == Len(listing.selected) - Len(collected)

Nearer ==
  \/ Distance[phase'] < Distance[phase]
  \/ phase \in {"balance", "rows"} /\ phase' \in {"balance", "rows"} /\ Left' < Left
  \/ phase = "balance" /\ phase' = "rows" /\ Left' = Left
  \/ phase = "awaiting" /\ phase' = "awaiting" /\ ~inApp /\ inApp'

\* If an approval is good for the rest of the dialog, every step of a read is the one that
\* brings the approval, after which the read starts again, or brings the answer nearer:
\* of interruption and resumption there is one round, and the loop over the accounts ends.
ReadDescends ==
  [][scope = "dialog" /\ request.op # "transfer" =>
       \/ ~granted /\ granted'
       \/ granted' = granted /\ Nearer]_vars

\* The caller of a read gets an answer in the end, if an approval is good for the rest of
\* the dialog: the handler starts again, but is not interrupted again.
ReadEnds == scope = "dialog" /\ request.op # "transfer" ~> phase = "answered"

=============================================================================
