# A TLA+ verification of easy-fints

easy-fints is a Python facade for FinTS banking with an optional HTTP server. A
bank call may be interrupted by a challenge: a TAN, a decoupled confirmation in
the bank's app, or a verification of payee (VoP). The server then keeps the
client object in an in-memory *session* and finishes the operation in a later
request. That is the core modelled here: what happens between the first request
and the end of the session, while other requests, time and failures interfere; and
what an operation brings its caller in the end, whatever the bank answers and however
often it asks in between.

## 1. Inventory

| Part | State | Operations | Hard behaviour |
|---|---|---|---|
| HTTP registry (`api.py`) | `SESSIONS`: id → client, operation, params, state, timestamps | `/accounts`, `/balance`, `/transactions`, `/transfer`, `/confirm`, `/transfer/retry-with-name`, `GET`/`DELETE /sessions/{id}`, shutdown | the endpoints are plain functions, so requests run on a thread pool and share `SESSIONS` without a lock; sessions expire only when another request prunes them; fields are copied before a bank call and used after it |
| `FinTSClient` runtime (`_client_runtime.py`) | python-fints client, standing dialog, pending TAN and VoP responses, pending transfer | `_ClientScope`, `_run`, `_open_dialog_for_operation`, `close`, `clear_pending_confirmations`, `_finalize_pending_transfer_result` | every exception class takes another exit through the scope; preserved and closed clients; `init_tan_response` of a reopened dialog |
| Transfers, confirmations, reads (`_client_transfer.py`, `_client_confirmation.py`, `_client_reads.py`) | the fields above | `initiate_transfer`, `confirm_pending`, `approve_vop`, `begin_accounts`, `get_account_overview`, `list_transactions_by_account`; library only: `list_accounts`, `get_tan_methods`, `resume_accounts` | chains of challenges; an order that outlives the call that started it |
| Command line (`cli.py`) | PID file, server process | `start`, `stop`, `status` | stale, reused and zombie PIDs; time-outs; the file read while it is written |
| Bootstrap, TAN selection, retry patches (`helpers.py`) | patched python-fints classes; the selected mechanism | `create_client`, `bootstrap_client`, `promote_two_step_tan`, `apply_tan_override`, the ING patch of `_process_response`, `patched_send_...`, `_retry_response_from_raw_response` | four places change the selected mechanism, in two orders; a challenge has several forms, and one that is not recognised passes for a result |
| Accounts, normalisation (`helpers.py`, `transaction_mapping/`) | none | `select_accounts`, `match_account_information`, `normalize_transaction`, `normalize_amount`, mapping modules | optional fields, signs, fall-backs between fields |
| Callers (`examples/api_tan_helper.py`) | the open challenge | `confirm_flow` | chains of challenges; a confirmation before the approval |
| Service endpoints (`/health`, `/readiness`, `/bank-info`) | none | one anonymous look-up | none |
| Diagnostics, logs | text files | `summarize_last_bank_response`, step logs | messages of other threads in one file |
| Library wrapper, models, exceptions, configuration | none of their own | | |

Interaction: an endpoint prunes, creates or looks up a session, calls a method of
its client object, and stores the outcome. The client object calls python-fints,
which calls the bank. `/confirm` first submits the answer to the challenge
(`confirm_pending` or `approve_vop`) and then, unless the answer completed the
transfer, calls the operation's handler again.

What makes the parts correct:

* registry: one party closes a client; nothing that has left the registry comes
  back; nothing finished stays; whatever waits can be continued; whatever is gone
  is closed; orders carry the parameters last given; abandoned sessions expire.
* client object: a TAN answers the challenge that was shown; an order waits only
  together with a challenge; after each call the object is in a state its callers
  count on.
* command line: never two servers, never one that `stop` cannot reach, and `stop`
  means stopped.
* an operation: no request of the bank is overlooked; success is reported only for
  an order the bank has executed; an answer is complete, and every account has its own data,
  however often the operation was interrupted and started again.
* preparation: the mechanism in use is the configured one, or a two-step mechanism
  the user may use.
* rows: a debit is negative once, an amount keeps its currency, name and account of
  the counterparty belong together (as far as section 3 says).

## 2. Modules

| Module | Models | Uses |
|---|---|---|
| `SessionLifecycle` | abstract: an identifier is registered, withdrawn, closed, once | |
| `ClientFacade` | a client object as its callers see it, as operators: what a call leaves behind for each kind of answer | |
| `SessionStore` | the server: threads, requests, `SESSIONS`, client objects, time | `ClientFacade` |
| `SessionProperties` | the properties of the server, the fair specification `LiveSpec`, the refinement mapping to `SessionLifecycle` | `SessionStore`, `SessionLifecycle` |
| `MCSessionStore` | symmetry for TLC | `SessionProperties` |
| `SessionStore_proofs` | theorems about `SessionStore`, for any threads | `SessionProperties` |
| `SequentialStore_proofs` | theorems about `SessionStore` when requests come one at a time | `SessionStore_proofs` |
| `SessionCalls` | how requests use the client objects: the refinement mapping from `SessionStore` to `FacadeCalls` | `SessionProperties`, `FacadeCalls` |
| `MCSessionCalls` | symmetry for TLC | `SessionCalls` |
| `SessionCalls_proofs` | the proof that requests, one at a time, refine `FacadeCalls` | `SequentialStore_proofs`, `SessionCalls` |
| `FacadeCalls` | abstract: one client object, a call at a time, with the operators of `ClientFacade` | `ClientFacade` |
| `ClientRuntime` | detailed: creation, preparation, dialog, scope, challenges, pending order; refines `FacadeCalls` | `ClientFacade`, `FacadeCalls` |
| `ClientRuntime_proofs` | theorems about `ClientRuntime` | `ClientRuntime` |
| `ClientRefinement_proofs` | the proof that `ClientRuntime` refines `FacadeCalls` | `ClientRuntime_proofs` |
| `ServerControl` | the command line, its PID file and the processes | |
| `ServerControl_proofs` | theorems about `ServerControl` | `ServerControl` |
| `TanSelection` | which TAN mechanism a client works with, as operators | |
| `RetryDetection` | what the client takes a bank's response for; when a transfer is a success | |
| `TransactionMapping` | how a booked transaction becomes a row: both mappings, amounts, currencies | |
| `AccountMatching` | account filters; which information of the bank belongs to an account | |
| `OperationWorkflow` | one operation between its caller, the handlers, the client and the bank; its properties | the four above |
| `MCOperationWorkflow` | accounts, banks, configurations and transactions for TLC | `OperationWorkflow` |
| `TransactionMapping_proofs` | lemmas about the mapping of amounts, currencies and parties | `TransactionMapping` |
| `OperationWorkflow_proofs` | theorems about `OperationWorkflow` | `OperationWorkflow`, `TransactionMapping_proofs` |

`SessionStore` takes a bank call for two steps, the call and its answer, with
everything in between left to `ClientFacade`. That this is what the code does is
the refinement `ClientRuntime` ⇒ `FacadeCalls`, which uses the same operators. The other
half is `SessionCalls`: what the requests do with a client object is, seen through the
history variable `before` (the object as the last completed call left it), a behaviour
of `FacadeCalls` too. So both sides keep to one interface: the requests make no call
the client is not shown to answer as promised, and count on nothing else.

    ClientRuntime  =>  FacadeCalls  <=  SessionCalls (SessionStore, one request at a time)

### SessionStore and api.py

A request of thread `t` is a path through `pc[t]`:

    idle -> scan -> prune <-> dropclose          _prune_sessions
      open:    prune -> bank -> mark -> done     _handle_client_operation
      confirm: prune -> loaded -> bank -> (bank) -> resume -> bank -> mark -> pop -> close -> done
      retry:   prune -> loaded -> bank -> mark -> pop -> close -> done
      get:     prune -> done
      cancel:  prune -> pop -> close -> done

Each arrow is one step of a thread: a read or a write of the shared dictionary, a
call into the bank, its answer, or the closing of a client. Between two arrows
other threads run. The steps are cut where the code leaves the interpreter or
looks at shared state again; what lies between two looks at shared state (say
`SESSIONS.get` and the copying of fields in `_confirm_local`) is one step.

* `sessions[i]` is `SESSIONS[i]` with operation, state, the recipient name in
  `params`, and the time since `updated_at`. `client[i]` is the client object that
  is (or will be) stored under `i`; objects whose request ends without a challenge
  keep an identifier that is never registered.
* `local[t]` are the handler's copies, `call[t]` the bank call in progress,
  `plan[t]` the state and status code decided on and not yet stored.
* Orders are represented by the recipient name: `retry-with-name` changes it and
  nothing changes any other parameter.
* `born` and `accepted` are history variables: identifiers ever registered, and
  orders the bank accepted through a client. After an error the bank may or may
  not have accepted the order.

### ClientRuntime and the client mixins

One call goes `idle -> validate -> prepare -> enter -> operate -> exit -> settle`.
`exit` is `_ClientScope.__exit__`, `settle` what the calling method does with the
result or exception. A `FinTSOperationError` is what `_run` and the scope make of every
other exception. Two places are outside of both, and there the model lets any exception
reach the caller (`"raised"`): `create_client`, called by `Prepare` while there is no
client yet (a missing bank code, a product version python-fints refuses), and the parts
of `begin_accounts` between its two `_run`s and after them, which has no scope. In
`SessionStore` such an exception is a 500: a first request leaves no session, and a resumed
account look-up leaves its session in state `resuming`. TAN challenges are numbered by the order of issue, so that
the model can tell which challenge a TAN answers. A result that starts the pending
order again (`_finalize_pending_transfer_result`) goes back to `validate` with
`fn = "finalize"`. The mapping to `FacadeCalls` shows the object as it was before
the call until the call has settled.

### ServerControl and cli.py

Every look at the PID file or at a process is a step. Servers may end at any time;
a server that ends while the command that started it runs is a zombie, which
signal 0 still reaches; an identifier that is free may be taken by a new server or
by any other process.

### OperationWorkflow and the commands of an operation

`SessionStore` and `ClientRuntime` say which call may follow which and abstract from
what the calls are for. `OperationWorkflow` is the other half: one client, one
session, and the data that goes through them.

    start -> prepared -> list -> balance -> (rows) -> balance -> ... -> answered
                              -> rows -> rows -> ...               -> answered
                              -> pay                               -> answered

`Prepare` is `create_client` and `_prepare_client`, `OpenDialog` the standing dialog,
and each of `ListAccounts`, `GetBalance`, `GetTransactions` and `Pay` one command to
the bank with what the code does with its response. In an exchange the bank *means*
something (`Intents`: done, a TAN is needed, an approval in the app, an approval of the
payee, refused), says it in one of the forms of `Responses`, and the client *takes* it for
something (`Detections`), which `SendVerdict` and `SendPayVerdict` compute from the
form as the patched send functions do. `waits` is what the bank waits for, `pending`
the challenge the caller was given; nothing in the model makes them agree but the code.
For a transfer `executed` says whether the bank has executed the order sent last. The
client never sees it: its answer is made of the codes, segments and status of the
response, of which a refusal may show the status `UNKNOWN` only.

A challenge gives the operation up and leaves the caller in `awaiting`. `Confirm...`,
`ApproveVop` and `RetryWithName` are its answers as `confirm_flow` gives them through
`/confirm` and `/transfer/retry-with-name`; all of them go on with `Restart`, since
`/confirm` runs the stored operation from its beginning. What an approval is good for
is up to the bank (`scope`): the rest of the dialog or one request.

`listing.selected` and `listing.matched` are the selected accounts and the bank's
information found for each; `listing.told` are the accounts that what the bank shows
(`Views`: on either side it may leave out IBAN, bank and subaccount) distinguishes from
all others. `collected` grows by a summary per account. `booked` is one transaction of
the last account, as the bank booked it, and `Row` what the answer says of it.

A transaction is a function from the *places* where the bank put something to values:
the mappings differ in nothing but the order in which they look at places. An amount
keeps its form, since signs are put before texts and into numbers, and its frame, since
the code finds the currency of a dictionary that names it as CAMT does (`Ccy`, `@Ccy`,
`Currency`) earlier than one given by the key `currency`, an object or a pair.

An account filter selects by IBAN or by the `repr` of an account (`Repr`). The code also
looks at an attribute `account`, which a `SEPAAccount` does not have, so account numbers
select nothing (`helpers.py:622`).

## 3. Runs

| Run | Question | Instance | Size |
|---|---|---|---|
| `store_concurrent` | Do overlapping requests keep the registry's promises? (`TypeOK`, `OneCloser`, `TerminalIsLeaving`, `LifecycleSpec`, `RequestDescends`) | 2 threads, 2 identifiers, 1 name, TTL 1 | 340 thousand states |
| `store_sequential` | With one request at a time, is the state left for the next request right, and are the client objects used as they are meant to be? (`WaitingCanContinue`, `GoneMeansClosed`, `SessionLookupReplies`, `AcceptedNameIsCurrent`, `ExpiredOnlyWhenIdle`, `ObjectCalls`) | 1 thread, 2 identifiers, 2 names, transfers and account look-ups, every answer, TTL 2 | 190 thousand |
| `store_progress` | Is every request answered, and does an abandoned session go away? (`RequestAnswered`, `AbandonedExpires`) | 2 threads, 1 identifier, TTL 1 | 95 thousand |
| `client_runtime` | Is a client object what its callers take it for? (`TypeOK`, `TanIsForShown`, `OrderHasChallenge`, `FacadeSpec`) | 1 name, every answer, 4 TAN challenges | 178 thousand |
| `server_control` | What does one operator get from start, stop and status? (`TypeOK`, `OneServer`, `KnownServer`, `StopMeansStopped`) | 1 operator, 1 watcher, 3 PIDs | 36 thousand |
| `operation_workflow` | What does an operation bring its caller, for every bank? (`TypeOK`, `WaitingBankIsSeen`, `NoFalseSuccess`, `AnswerIsComplete`, `InformationIsOwn`, `ConfiguredMechanismWins`, `TwoStepIsUsed`, `DebitIsNegative`, `CounterpartyIsOneParty`, `AmountKeepsCurrency`, `ReadEnds`, `ReadDescends`) | 3 accounts, 4 filters, 5 operations, 257 bank profiles, 5 configurations, 366 transactions | 107 thousand |

Bounds. Two threads are enough for every race between two requests, which all the
interleaving hazards are; a second identifier is there so that a request can work on
one session while another one expires, is created or changes the size of the
dictionary. `SessionTTL` counts ticks: 1 already separates "touched since the last
tick" from "expired", 2 gives the sequential run sessions that are neither. Two
names tell a corrected order from the original. `MaxAccepted` caps the history
counter (0 where no property looks at it, 2 to see a second acceptance).
`BankAnswers` restricts the kinds of answer in the concurrent runs to those with
different control flow in `api.py`; `store_concurrent` has VoP challenges only, since
TAN challenges multiply its states by eight (with them it takes several minutes and
holds as well) and the theorems of section 5 cover every set of answers. Four TAN challenges allow an opening TAN, one for
an operation, and a replacement of each. Three PIDs allow a dead server, another
process with its number, and a new server.

`operation_workflow` is bounded by its inputs only; its states are all reached. Three
accounts are two with the same number at different banks and a subaccount that shares
the IBAN of the first, which are the ways two accounts may resemble each other; the
filters are none, the IBAN of one account and of two (which find nothing at a bank that
shows none), and the `repr` of one of these two. The bank profiles have two two-step
mechanisms in either order beside one-step TAN, any of which the user may use, be of
another process variant or be unknown to python-fints, at the patched bank and at
others, and a bank that announces nothing. Transactions are those that matter to one
property each: every form and sign of an amount at four places with either indicator;
every subset of the currencies an entry may name, with an amount of its own and one in its
details in every frame; every subset of the names and
accounts of two parties, for seven kinds of bank. `CHECK_DEADLOCK` is off: an operation
ends with its answer.

Four properties of this run say nothing of some cases, where the code does otherwise or
cannot know better. `TwoStepIsUsed` is about clients without a configured mechanism, at
banks that announce the user's mechanisms (code 3920), offer a two-step one and do not
offer one-step TAN: where one-step TAN is on offer the client stays with `999`
(`helpers.py:541-554`), and without an announcement it cannot know what the user may use.
`AmountKeepsCurrency` is about entries that name no currency, and leaves out an entry
amount that names its currency in another frame than CAMT's beside details whose amount
names one as CAMT does: there `vr_camt.py:54-72` shows the amount of the entry in the
currency of the details. `InformationIsOwn` is about accounts that what the bank shows
tells apart, `CounterpartyIsOneParty` about entries with complete parties (section 5).

Six runs show where the code disagrees with what its documentation says. Each is
expected to end in a counterexample:

| Run | The documents say | The code does |
|---|---|---|
| `double_transfer` (`AcceptedOnce`) | a final TransactionResponse completes the transfer (`POST_transfer_workflow.md:42`) | `confirm_pending` wraps it into a `TransferResponse`, which `api.py:1077` does not recognise, and the transfer is started again at `api.py:1139` |
| `running_forever` (`RunningIsTransient`) | `running` is transient (`docs/API.md:398`) | `/confirm` without `approve_vop` marks the session `running` (`api.py:979`) and is refused (`api.py:983`) |
| `capability_code` (`CapabilityIs422`) | unsupported products are answered with 422 (`README.md:205`, `docs/API.md:292`) | the resumed handler's `except` clauses answer 502 (`api.py:1202`) |
| `cancel_reopens` (`GoneMeansClosed`) | `DELETE` closes the stored client (`docs/API.md:225`) | a retry that loaded the session before goes on and opens it again (`api.py:749-761`) |
| `lookup_fails` (`SessionLookupReplies`) | `GET` and `DELETE` answer 200 or 404 (`docs/API.md:216-217, 225-226`) | the unlocked iteration in `_prune_sessions` may raise (`api.py:253`), which is a 500 |
| `expiry_race` (`ExpiredOnlyWhenIdle`) | expiry after inactivity (`README.md:238`) | the list of expired sessions is stale when they are closed (`api.py:254`) |

`double_transfer`, `running_forever` and `capability_code` need a single request at a
time; `cancel_reopens`, `lookup_fails` and `expiry_race` need two: with one request at a
time the same properties hold (`store_sequential`) and are proved (section 5).

## 4. Fairness

`LiveSpec` assumes three things of the server. `WF(Serve(t))`: a thread in a request
keeps running and the bank answers (python-fints has time-outs on its connection; a
call that never returns would keep the request open for ever). `WF(Tick)`: time
passes. `WF(Request(t))`: threads keep receiving requests of some kind; without it
nothing ever prunes, since expiry is lazy, and `AbandonedExpires` would be false. No
fairness says *which* request arrives, so the property also holds if clients do
nothing but poll with `GET`.

`OperationWorkflow` has a `LiveSpec` of its own, `WF_vars(Next)`. There is one operation
in progress and at each point one party whose turn it is: the server, which goes on
with the request; the caller, who answers the challenge it was given; the user, who
approves in the app (a caller that confirms too early changes nothing). `WF` says that
the one whose turn it is does something. `ReadEnds` is stated for banks whose approval is good for the
rest of the dialog (`scope = "dialog"`). Otherwise it is false, and that is the code's
doing: `/confirm` runs the handler from its beginning (`api.py:1139`) and discards the
rows `confirm_pending` has just got, so the same command is interrupted again
(`resume_accounts` at `_client_reads.py:50`, which would go on, is not used).

The other runs use no fairness.

## 5. What is proved

`SessionStore_proofs` is checked by TLAPS for every set of threads, identifiers, names
and bank answers, and every TTL, from the assumptions on constants stated in
`ClientFacade` and `SessionStore` (a sentinel is not one of the values it stands
beside, TTL is positive, the bound is a natural number):

* `TypeCorrect`: `Spec => []TypeOK`
* `CloserIsUnique`: `Spec => []OneCloser`
* `TerminalSessionsLeave`: `Spec => []TerminalIsLeaving`
* `RegistryImplementsLifecycle`: `Spec => LifecycleSpec`
* `RequestsDescend`: `Spec => RequestDescends`

The argument is one inductive invariant,

    IInv == TypeOK /\ (\A t : ThreadInv(t)) /\ FreshInv /\ OneCloser /\ TerminalIsLeaving

`OneCloser` alone is not inductive: that a popped session is not put back while it is
being closed rests on `FreshInv`, which says that only the request that made a client
object can register it, and only once. `FreshInv` in turn needs to know which steps a
thread can be in with which locals, which is `ThreadInv`. `TerminalIsLeaving` needs
that a thread that marks a terminal state goes on to the pop of the same identifier,
and that another thread's mark does not hide it. The proof first shows types step by
step (`TypeStep`), then classifies what one step may do to the registry
(`RegistryStep`: makes, registers, withdraws, closes, or leaves its keys alone). The
global parts of the invariant, and the refinement, are then proved from that
classification and not from the twenty actions again.

`RequestDescends` is what safety there is in `RequestAnswered`: the stages of a request
are numbered, each of its own steps takes it to a lower one or leaves fewer expired
sessions to close, and no step of anybody else changes the stage. With finitely many
sessions to close, a request in progress therefore has finitely many steps; that it
takes them is the fairness TLC assumes.

`SequentialStore_proofs` is about one worker thread (`Threads = {worker}`) and otherwise
as general:

* `SessionsCanContinue`: `Spec => []WaitingCanContinue`
* `GoneIsClosed`: `Spec => []GoneMeansClosed`
* `AcceptedIsCurrent`: `Spec => AcceptedNameIsCurrent`
* `ExpiryIsDue`: `Spec => ExpiredOnlyWhenIdle`
* `LookupsSucceed`: `Spec => []SessionLookupReplies`

The runs `cancel_reopens`, `expiry_race` and `lookup_fails` show that two threads break
`GoneMeansClosed`, `ExpiredOnlyWhenIdle` and `SessionLookupReplies`, so that one thread is
a hypothesis of these theorems that cannot be dropped. The first three
properties speak of moments when no request is at work, so the invariant, `IInv` together
with `SeqInv`, says what holds in between: `WorkInv` relates the copies the request made
of operation and name, the order in the client and the order under way to the session,
step by step; `OpenInv` does so for a request that has no session yet; `At` says what
holds of everything else. A confirmation relies on the client waiting for exactly one
challenge: then `approve_vop` is called when and only when the VoP is the one pending,
and the challenge that is met leaves none behind. `WaitingCanContinue` and its proof
except a session in state `resuming`: what `begin_accounts` raises outside of `_run` leaves
it so, without a challenge, as long as nobody confirms it again or it expires. For the last two, `PruneInv` follows the
prune: at the end of the scan the keys are those it started with, and the sessions it found
expired stay expired until they are closed, because time only makes them older.

`SessionCalls_proofs` proves `RequestsCallObjects`: `CallsSpec => ObjectCalls`, for one
worker thread again. `CallsSpec` is `Spec` with the history variable. `HistoryOf` says
what the history shows: between calls the client, during a handler the object the call
started from, and while an order is sent again within a confirmation the object before
that confirmation, from which `AfterSubmit` and then `Calling` lead to the present one.
`NameInv` adds that every transfer carries a recipient name. Each action is then a step of
`FacadeCalls` on one client (`BeginAllowed` to `FinalizeAllowed`) and none on the others
(`OtherClient`). That a confirmation is called only with its challenge pending comes
from `SeqInv`. Two threads do use one client in ways `FacadeCalls` does not know (a
`DELETE` closes it during a call), which is what `cancel_reopens` is about.

`ClientRuntime_proofs` and `ClientRefinement_proofs` are checked for any names, any
kinds of bank answer and any number of challenges, from `NamesAssumption` and
`ChallengesAssumption`:

| Theorem | Property |
|---|---|
| `TypeCorrect` | `TypeOK` |
| `TanForShown` | `TanIsForShown` |
| `OrderIsChallenged` | `OrderHasChallenge` |
| `ClientImplementsFacade` | `FacadeSpec` |

`TypeOK` says of the call in progress that it carries an order if and only if it works for
a transfer; for the confirmation that sends a pending order again that needs the pending
order to be one that was given by a caller.

`TanIsForShown` holds between calls only. `TanInv` says how a new challenge travels while
a call is under way: a handler remembers it at once, a confirmation when it settles, and
then `init_tan_response` may take its place, which is why the invariant has to know that
a set `init_tan_response` is the challenge at hand or belongs to none. For the
refinement, `RunInv` relates a call under way to the object it started from: a handler to
`Begun`, which for an order that is sent again is what the result of the confirmation
left, a confirmation to `before`. Every action inside a call is a stutter of
`FacadeCalls`, the first is `Begin`, and the last is `FinishHandler` or `FinishSubmit`
with the answer the call returns. A client that could not be created is the exception:
the call ends with nothing changed, which `FacadeCalls` allows where there is no client.
`BareInv` says that then there is no challenge either, so that the object is closed in the
sense of `FacadeCalls`.

`ServerControl_proofs` is checked for any callers and any process identifiers, from
`OperatorsAssumption`, `PidAssumption` and `FileAssumption`:

| Theorem | Property |
|---|---|
| `TypeCorrect` | `TypeOK` |
| `OnlyOneServer` | `OneServer` |
| `ServerIsKnown` | `KnownServer` |
| `StopStops` | `StopMeansStopped` |

All but the first assume one operator; the other callers ask for the status. The
invariant `OpInv` says at each step of the operator's command what it knows: that no
server runs when one is about to be launched, that the process it waits for is the only
server, or that the file names it. `OthersInv` says that callers who ask for the status
never reach a step that writes.

`OperationWorkflow_proofs` is checked for any accounts, filters, bank profiles,
configurations and transactions, from `AccountsAssumption` (accounts are records of
four texts), `BanksAssumption` and `MechanismAssumption` (mechanisms are two-step codes
or the one-step code), `TransactionsAssumption` (an amount that is not a number has its
sign in front of it, one that is bare or cannot be read names no currency), `PartiesAssumption` (the
places of a party's name and account say the same of which party it is) and
`MissingAssumption`:

| Theorem | Property |
|---|---|
| `TypeCorrect` | `TypeOK` |
| `WaitingBankSeen` | `WaitingBankIsSeen` |
| `SuccessIsExecuted` | `NoFalseSuccess` |
| `AnswerComplete` | `AnswerIsComplete` |
| `ConfigurationWins`, `TwoStepUsed` | `ConfiguredMechanismWins`, `TwoStepIsUsed` |
| `OwnInformation` | `InformationIsOwn` |
| `DebitsAreNegative`, `CurrencyKept` | `DebitIsNegative`, `AmountKeepsCurrency` |
| `OnePartyShown` | `CounterpartyIsOneParty` |
| `ReadsDescend` | `ReadDescends` |

Its inductive invariant is

    IInv == TypeOK /\ StepInv /\ PartInv /\ OriginInv /\ WaitingBankIsSeen /\ NoFalseSuccess

`WaitingBankIsSeen` and `NoFalseSuccess` are inductive with `StepInv`, which says what
may be set in which phase. That needs a lemma on the response forms: a verdict that is
neither a challenge nor an error is only given to a response that asks for nothing, in
each of the forms and for each of the two send functions. What gets through is therefore
an execution or a refusal, and `RefusalStatus` says that no status of a refusal is a
success. `AnswerIsComplete` is not inductive, since it speaks of answers only:
`PartInv` says of every phase that `collected` is the beginning of the selected accounts
with what the operation gets for each, and where the balance at hand belongs.
`OriginInv` says where `prep` and `listing` come from (`Preparations`, `Listings`), so
that the properties of the pure parts follow from lemmas about `Prepared`,
`MatchAccountInformation` and `NormalizeTransaction` for all their arguments.
`TransactionMapping_proofs` has those about amounts: wherever the first amount is found, the
sign put on it, its worth, and the currency that goes with it. Its first lemma gives
them all the existence of a first place, account or mechanism, from the
well-foundedness of finite sets.

For `CounterpartyIsOneParty` the lemmas show that in both mappings the places of names and
the places of accounts go through the parties in the same order. The property is stated
for entries that give each party with both name and account or not at all, and that use no
place of a name or an account without a counterpart in the other list
(`UnpairedPlaces`: `tx.recipient_name`, `tx.account`, `data.applicant_bin`; and the flat
places). Without that it is false: of an entry with `tx.other_account_name` and the account
of another party in `tx.account` the code takes both.

`ReadDescends` is the safety in `ReadEnds`: every step of a read brings the approval (once),
or brings it nearer to its answer, by the phase, the accounts left and the parts of an
account. It needs what `DialogInv` says: when an approval that lasts for the dialog has been
given, the bank asks no more.

## 6. Only model-checked

The liveness properties `RequestAnswered` and `AbandonedExpires` of the server and
`ReadEnds` of an operation: liveness under fairness is outside the prover's reach. The part
of `RequestAnswered` and `ReadEnds` that is safety, a measure that every step lowers, is
proved (`RequestsDescend`, `ReadsDescend`). Every other property of a passing run is
proved: those of `store_sequential` for one worker thread, since they are
false for two, `OneServer`, `KnownServer` and `StopMeansStopped` for one operator, and all
others without such a restriction.

## 7. Not modelled

* Challenges that python-fints raises as exceptions where it normally returns them
  (the `looks_like_...(exc)` branches): every bank answer is a returned value, except
  for the TAN of a dialog that is opened again.
* Calls of several threads into one client object *at the same time*: `SessionStore`
  lets them overlap as whole calls, each with the effect it has on the object when its
  answer arrives; what two threads do inside one python-fints client is not defined by
  this repository.
* Requests that are refused before they look at a session (missing fields, dates in the
  wrong form or in the past): they change no state.
* Overviews, challenge payloads and log entries; the wording of messages. A log file that
  cannot be written raises in the middle of a handler: within a scope that is an exception
  like any other, after `begin_accounts` it is the raised exception of section 2, and
  anywhere else in `api.py` it is left out.
* `get_tan_methods` and `resume_accounts`, which no endpoint calls, and the debug logs of
  the reads. `list_accounts` and `list_transactions` of the library are the commands of
  `OperationWorkflow` without the sessions.
* The runtime patches that keep python-fints from failing on segments it cannot parse,
  and the reading of raw log files: what they change is inside python-fints.
* Whole amounts: normalisation is modelled on what a sign, a form and a currency do, not
  on decimal places or on the texts `Decimal` accepts.
* Several operations at a time in `OperationWorkflow`: that they share nothing but the
  registry is what `SessionStore` is about.
* A command line invocation that is killed half-way, and processes of other users.
* The anonymous look-ups, configuration, packaging, models, diagnostics: no state that
  survives a request.

## 8. Plan

1. *(done)* The registry and its life cycle, with proofs; the client object as its
   callers see it and from the inside; the command line.
2. *(done)* Pure algorithms as operators (the TAN mechanism, challenges in bank
   responses, account matching, the mapping of transactions, success of a transfer) and
   their composition in `OperationWorkflow`, with proofs.
3. Failures that arrive as exceptions where challenges normally are returned; a killed
   command line invocation, with the weaker promise that then holds.
4. *(done)* Proofs of the safety properties of every component: the server with any
   threads and with one, the client object and its refinement, the calls the server makes
   on it, the command line, an operation. What is left to TLC is in section 6.
