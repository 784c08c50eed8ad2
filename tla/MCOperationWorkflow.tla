------------------------- MODULE MCOperationWorkflow -------------------------
(*****************************************************************************)
(* Banks, accounts and transactions for the runs of OperationWorkflow.       *)
(*****************************************************************************)
EXTENDS OperationWorkflow, TLC

MCTwoStepCodes == {"910", "920"}
MCOneStep      == "999"

\* Accounts with one number: a subaccount shares the IBAN of the first.
MCAccounts ==
  <<[iban |-> "DE2", number |-> "1", bank |-> "b2", subaccount |-> "EUR"],
    [iban |-> "DE1", number |-> "1", bank |-> "b1", subaccount |-> "EUR"],
    [iban |-> "DE2", number |-> "1", bank |-> "b2", subaccount |-> "USD"]>>

MCRepr(account) == ToString(account)

\* No filter, the IBAN of one account and of two, and one of these by its repr.
MCNeedles == {Absent, "DE1", "DE2", MCRepr(MCAccounts[3])}

MCConfigs == [wanted : MCTwoStepCodes, before : BOOLEAN] \cup [wanted : {NoMechanism}, before : {FALSE}]

MCBanks ==
  [methods : {<<"920", "910">>, <<"999", "910", "920">>},
   allowed : SUBSET (MCTwoStepCodes \cup {MCOneStep}),
   process : {[code \in MCTwoStepCodes \cup {MCOneStep} |-> IF code \in two THEN "2" ELSE "1"] :
                two \in SUBSET MCTwoStepCodes},
   implemented : {MCTwoStepCodes \cup {MCOneStep}, {"910", MCOneStep}},
   announces : {TRUE},
   ing : BOOLEAN]
  \cup
  [methods : {<<"910">>}, allowed : {{"910"}},
   process : {[code \in MCTwoStepCodes \cup {MCOneStep} |-> "2"]},
   implemented : {MCTwoStepCodes \cup {MCOneStep}}, announces : {FALSE}, ing : {FALSE}]

-----------------------------------------------------------------------------
\* Functions whose domain is some of the places of f.
Partly(f) == UNION {{[place \in places |-> f[place]]} : places \in SUBSET DOMAIN f}

Bare(form, lead, number) ==
  [form |-> form, lead |-> lead, number |-> number, frame |-> "bare", currency |-> "none"]

Framed(number, frame, currency) ==
  [form |-> "number", lead |-> "none", number |-> number, frame |-> frame, currency |-> currency]

\* Debits and credits, in every form of an amount, at the places of both mappings.
AmountTransactions ==
  {[place \in {at, "CreditDebitIndicator"} |-> IF place = at THEN amount ELSE indicator] :
     at \in {"tx.amount", "data.amount", "Amount", "details.Amount"},
     indicator \in {"DBIT", "CRDT"},
     amount \in
       {Bare("number", "none", number) : number \in {-5, 0, 5}}
         \cup {Framed(number, "camt", "none") : number \in {-5, 0, 5}}
         \cup {Bare(form, lead, number) :
                 form \in {"text", "object"}, lead \in {"none", "plus", "minus"}, number \in {0, 5}}
         \cup {Bare("blank", "none", 0), Bare("opaque", "none", 5)}}

\* One entry with the currencies an entry may name.
CurrencyTransactions ==
  Partly([place \in {"tx.currency", "data.currency", "Currency"} |-> "other"])
    \cup UNION {{[place \in DOMAIN named \cup DOMAIN amounts |->
                    IF place \in DOMAIN named THEN named[place] ELSE amounts[place]] :
                   named \in Partly([place \in {"tx.currency", "data.currency", "Currency"} |-> "other"])} :
                amounts \in
                  {[place \in {"Amount", "details.Amount"} |-> IF place = "Amount" THEN own ELSE detail] :
                     own \in {Bare("number", "none", 5)} \cup {Framed(5, frame, "entry") : frame \in {"camt", "other"}},
                     detail \in {Framed(5, frame, "details") : frame \in {"camt", "other"}}}
                  \cup {[place \in {at} |-> Framed(5, frame, "entry")] :
                          at \in {"tx.amount", "Amount", "details.Amount"}, frame \in {"camt", "other"}}}

\* Entries with some of two parties, each with a name or an account or both, as one kind
\* of bank gives them.
PartyTransactions ==
  UNION {Partly([place \in {parties[1][1], parties[1][2], parties[2][1], parties[2][2]} |->
                   IF place \in {parties[1][1], parties[1][2]} THEN "first" ELSE "second"]) :
           parties \in
             {<<<<"details.Creditor", "details.CreditorAccount">>, <<"details.Debtor", "details.DebtorAccount">>>>,
              <<<<"Creditor", "CreditorAccount">>, <<"Debtor", "DebtorAccount">>>>,
              <<<<"flat.Creditor", "flat.details.CreditorAccount">>,
                <<"flat.Debtor", "flat.details.DebtorAccount">>>>,
              <<<<"details.Debtor", "details.DebtorAccount">>, <<"Creditor", "CreditorAccount">>>>,
              <<<<"tx.name", "tx.iban">>, <<"tx.other_account_name", "tx.other_account">>>>,
              <<<<"tx.name", "tx.iban">>, <<"details.Creditor", "details.CreditorAccount">>>>,
              <<<<"data.applicant_name", "data.applicant_iban">>,
                <<"data.recipient_name", "data.recipient_iban">>>>}}

MCTransactions == AmountTransactions \cup CurrencyTransactions \cup PartyTransactions

=============================================================================
