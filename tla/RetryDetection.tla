--------------------------- MODULE RetryDetection ---------------------------
(*****************************************************************************)
(* What FinTSClient makes of a bank's response to a command: the local       *)
(* replacement of python-fints' send functions (helpers.py), which tell a    *)
(* challenge from a result, and the outcome of a transfer (models.py).       *)
(*                                                                           *)
(* A response is a record: codes, the return codes given for the TAN         *)
(* segment, in order; hitan, whether it holds a HITAN segment; payee, the    *)
(* result of the verification of payee in its HIVPP segment, if any.         *)
(*****************************************************************************)
EXTENDS Naturals, Sequences

\* 0030: a TAN is needed.  3955: approve in the app.  3945: the payee needs approval.
\* 9xxx: an error.
ReturnCodes  == {"0020", "0030", "3945", "3955", "9xxx"}
PayeeResults == {"none", "RCVC", "RVMC", "RVNM", "RVNA"}
Mismatches   == {"RVMC", "RVNM", "RVNA"}

\* What a send returns: a challenge, the bank's result, or an exception.
Detections == {"tan", "decoupled", "vop", "result", "error"}

Codes(response) == {response.codes[i] : i \in DOMAIN response.codes}

\* Mutant: the approval in the app is not recognised.
CodeVerdictWithoutApp(response) ==
  LET decisive == {i \in DOMAIN response.codes : response.codes[i] \in {"0030", "9xxx"}}
      code == response.codes[CHOOSE i \in decisive : \A j \in decisive : i <= j]
  IN IF decisive = {} THEN "result" ELSE IF code = "0030" THEN "tan" ELSE "error"

\* The loop over the codes of the TAN segment: the first decisive one counts.
CodeVerdict(response) ==
  LET decisive == {i \in DOMAIN response.codes : response.codes[i] \in {"0030", "3955", "9xxx"}}
      code == response.codes[CHOOSE i \in decisive : \A j \in decisive : i <= j]
  IN IF decisive = {} THEN "result"
     ELSE CASE code = "0030"  -> "tan"
            [] code = "3955"  -> "decoupled"
            [] OTHER          -> "error"

\* _retry_response_from_raw_response, for commands sent without a TAN segment.  Whether
\* the challenge is decoupled is not looked at.
RawVerdict(response, vopStandard) ==
  IF vopStandard /\ response.payee \in Mismatches THEN "vop"
  ELSE IF response.hitan THEN "tan" ELSE "result"

\* patched_send_with_possible_retry
SendVerdict(response, twoStep) ==
  IF twoStep THEN CodeVerdict(response) ELSE RawVerdict(response, FALSE)

\* patched_send_pay_with_possible_retry: the verification of payee comes before the TAN;
\* its segment must be there when it was asked for.
SendPayVerdict(response, twoStep, vopStandard) ==
  IF ~twoStep THEN RawVerdict(response, vopStandard)
  ELSE CASE vopStandard /\ response.payee = "none" -> "error"
         [] vopStandard /\ response.payee \in Mismatches -> "vop"
         [] vopStandard /\ response.payee = "RCVC" /\ "3945" \in Codes(response) -> "vop"
         [] OTHER -> CodeVerdict(response)

-----------------------------------------------------------------------------
(* The bank.  What it means, and how it says so.                             *)

\* done: the command is executed; tan, app, payee: the bank
\* waits for a TAN, an approval in the app, an approval of the payee; refused: an error.
Intents == {"done", "tan", "app", "payee", "refused"}

\* Responses to a command sent with a TAN segment, with or without HKVPP.  A refusal may
\* be given for the command itself, where the loop over the codes does not see it.
TanSegmentResponses(intent, vopStandard) ==
  LET checked == IF vopStandard THEN {"RCVC"} ELSE {"none"}
  IN CASE intent = "done" ->
            [codes : {<<>>, <<"0020">>}, hitan : BOOLEAN, payee : checked]
       [] intent = "tan" ->
            [codes : {<<"0030">>, <<"0020", "0030">>}, hitan : {TRUE}, payee : checked]
       [] intent = "app" ->
            [codes : {<<"3955">>, <<"0020", "3955">>}, hitan : {TRUE}, payee : checked]
       [] intent = "payee" ->
            [codes : {<<"0020">>}, hitan : {FALSE}, payee : Mismatches]
              \cup [codes : {<<"3945">>, <<"0020", "3945">>}, hitan : {FALSE}, payee : {"RCVC"}]
       [] intent = "refused" ->
            [codes : {<<"9xxx">>, <<>>}, hitan : {FALSE}, payee : {"none"} \cup checked]

\* Responses to a command sent without one: no codes to look at.  A bank that wants an
\* approval in the app says it by a HITAN segment, too.
PlainResponses(intent) ==
  CASE intent = "done"           -> [codes : {<<>>}, hitan : {FALSE}, payee : {"none", "RCVC"}]
    [] intent \in {"tan", "app"} -> [codes : {<<>>}, hitan : {TRUE}, payee : {"none", "RCVC"}]
    [] intent = "payee"          -> [codes : {<<>>}, hitan : BOOLEAN, payee : Mismatches]
    [] intent = "refused"        -> [codes : {<<>>}, hitan : {FALSE}, payee : {"none"}]

Responses(intent, twoStep, vopStandard) ==
  IF twoStep THEN TanSegmentResponses(intent, vopStandard) ELSE PlainResponses(intent)

-----------------------------------------------------------------------------
(* The outcome of a transfer.                                                *)

\* The status python-fints derives from the response.
Statuses == {"SUCCESS", "WARNING", "ERROR", "UNKNOWN"}

\* Mutant: a transfer is a success unless the bank reports an error.
SuccessUnlessError(status) == status # "ERROR"

\* TransferResponse.from_fints_response: success
Success(status) == status \notin {"ERROR", "UNKNOWN"}

=============================================================================
