------------------------- MODULE TransactionMapping -------------------------
(*****************************************************************************)
(* How a booked transaction becomes the row that is shown                    *)
(* (transaction_mapping/).  A transaction is a function: its domain are the  *)
(* places in which the bank has put something (an empty string counts as     *)
(* nothing), named after the sources the code names.  "details" stands for   *)
(* EntryDetails.TransactionDetails; parties are RelatedParties.Creditor and  *)
(* RelatedParties.Debtor, with .Party.Name or, "flat", .Name of the entry,   *)
(* and the accounts' .Identification.IBAN or, "flat", .IBAN of the details.  *)
(*****************************************************************************)
EXTENDS Integers, Sequences

CONSTANT Missing   \* None

Fields == {"booking_date", "value_date", "amount", "currency",
           "counterparty_name", "counterparty_iban", "purpose"}

\* The first of some places that holds a value, or Missing.
FirstPlace(tx, places) ==
  LET held == {i \in DOMAIN places : places[i] \in DOMAIN tx}
  IN IF held = {} THEN Missing ELSE places[CHOOSE i \in held : \A j \in held : i <= j]

\* first_present_with_source: the value in the first place that holds one.
FirstPresent(tx, places) ==
  LET place == FirstPlace(tx, places) IN IF place = Missing THEN Missing ELSE tx[place]

-----------------------------------------------------------------------------
(* Amounts: [form, lead, number, frame, currency].  A number has its sign in *)
(* number; a text, or an object Decimal can read, has it in lead; what       *)
(* cannot be read is not empty.  An amount comes bare, or with its currency: *)
(* in a dictionary that names it as CAMT does (Ccy, @Ccy, Currency), or in   *)
(* another frame (the key currency, an object's attribute, a pair).          *)

Currencies == {"none", "entry", "details", "other"}

Amount == [form : {"number", "text", "object", "blank", "opaque"},
           lead : {"none", "plus", "minus"}, number : Int,
           frame : {"bare", "camt", "other"}, currency : Currencies]

\* The places in which both mappings look for it.
AmountPlaces ==
  {"tx.amount", "tx.transaction_amount", "tx.value", "data.amount", "Amount", "details.Amount"}

\* What an amount says, whatever its form.
Worth(amount) == IF amount.form # "number" /\ amount.lead = "minus" THEN -amount.number ELSE amount.number

Readable(amount) == amount.form \in {"number", "text", "object"}

\* Mutant: a minus sign is put before every debit.
SignEveryDebit(amount, indicator) ==
  IF amount = Missing \/ indicator # "DBIT" THEN amount
  ELSE CASE amount.form \in {"blank", "opaque"} -> amount
         [] amount.form = "number" -> [amount EXCEPT !.number = -amount.number]
         [] OTHER -> [amount EXCEPT !.form = "text", !.lead = IF amount.lead = "minus" THEN "none" ELSE "minus"]

\* apply_credit_debit_indicator
ApplyCreditDebitIndicator(amount, indicator) ==
  IF amount = Missing \/ indicator # "DBIT" THEN amount
  ELSE CASE amount.form \in {"blank", "opaque"} -> amount
         [] amount.form = "number" -> IF amount.number <= 0 THEN amount
                                      ELSE [amount EXCEPT !.number = -amount.number]
         [] amount.form = "text"   -> [amount EXCEPT !.lead = "minus"]
         [] amount.form = "object" -> IF Worth(amount) <= 0 THEN amount
                                      ELSE [amount EXCEPT !.form = "text", !.lead = "minus"]

Indicator(tx) == FirstPresent(tx, <<"CreditDebitIndicator", "details.CreditDebitIndicator">>)

\* normalize_amount: what a frame holds; one without a number stays whole.
AmountOf(amount) ==
  IF amount = Missing \/ amount.form = "opaque" THEN amount
  ELSE [amount EXCEPT !.frame = "bare", !.currency = "none"]
CurrencyOf(amount) ==
  IF amount = Missing \/ amount.form = "opaque" \/ amount.currency = "none" THEN Missing ELSE amount.currency

\* The first present value, with the currency of the amount at one of the places.
FirstCurrency(tx, before, ofAmount, after) ==
  LET first == FirstPresent(tx, before)
  IN IF first # Missing THEN first
     ELSE IF ofAmount # Missing THEN ofAmount ELSE FirstPresent(tx, after)

-----------------------------------------------------------------------------
(* The default mapping.                                                      *)

TxNames == <<"tx.counterparty_name", "tx.name", "tx.other_account_name", "tx.recipient_name">>
TxIbans == <<"tx.counterparty_iban", "tx.iban", "tx.account", "tx.other_account">>
DataNames == <<"data.applicant_name", "data.recipient_name">>
DataIbans == <<"data.applicant_iban", "data.recipient_iban", "data.applicant_bin">>
TxPurposes   == <<"tx.usage", "tx.purpose", "tx.text", "tx.remittance_information">>
DataPurposes == <<"data.purpose", "data.additional_purpose", "data.posting_text">>

DefaultAmount(tx) ==
  FirstPresent(tx, <<"tx.amount", "tx.transaction_amount", "tx.value", "data.amount">>)

\* default.map_transaction
DefaultMapping(tx) ==
  [booking_date |-> FirstPresent(tx, <<"tx.booking_date", "tx.date", "data.date", "data.entry_date">>),
   value_date |-> FirstPresent(tx, <<"tx.value_date", "tx.booking_date", "tx.date",
                                     "data.entry_date", "data.date">>),
   amount |-> ApplyCreditDebitIndicator(AmountOf(DefaultAmount(tx)), Indicator(tx)),
   currency |-> FirstCurrency(tx, <<"tx.currency">>, CurrencyOf(DefaultAmount(tx)), <<"data.currency">>),
   counterparty_name |-> FirstPresent(tx, TxNames \o DataNames),
   counterparty_iban |-> FirstPresent(tx, TxIbans \o DataIbans),
   purpose |-> FirstPresent(tx, TxPurposes \o DataPurposes)]

-----------------------------------------------------------------------------
(* The mapping of CAMT entries as VR banks deliver them.                     *)

CamtPlaces == <<"BookingDate", "ValueDate", "Amount", "details.Amount", "details.Creditor",
                "details.CreditorAccount", "CreditDebitIndicator">>

\* The places in which a party's name and account are found.
PartyPlaces ==
  {<<"tx.counterparty_name", "tx.counterparty_iban">>, <<"tx.name", "tx.iban">>,
   <<"tx.other_account_name", "tx.other_account">>,
   <<"data.applicant_name", "data.applicant_iban">>, <<"data.recipient_name", "data.recipient_iban">>,
   <<"details.Creditor", "details.CreditorAccount">>, <<"details.Debtor", "details.DebtorAccount">>,
   <<"Creditor", "CreditorAccount">>, <<"Debtor", "DebtorAccount">>}

ASSUME MissingAssumption ==
  /\ Missing \notin Currencies
  /\ \A i \in DOMAIN CamtPlaces : CamtPlaces[i] # Missing
  /\ \A places \in PartyPlaces : Missing \notin {places[1], places[2]}

\* vr_camt.applies: something of a CAMT entry is there, and the first of it is not a bare
\* number 0.
CamtApplies(tx) ==
  LET place == FirstPlace(tx, CamtPlaces)
  IN /\ place # Missing
     /\ place \in {"Amount", "details.Amount"} =>
          ~ (tx[place].frame = "bare" /\ tx[place].form = "number" /\ tx[place].number = 0)

CamtNames == <<"details.Creditor", "details.Debtor", "Creditor", "Debtor", "flat.Creditor", "flat.Debtor">>

\* Mutant: the accounts are looked up in another order than the names.
CamtIbansDebtorFirst ==
  <<"details.DebtorAccount", "details.CreditorAccount", "DebtorAccount", "CreditorAccount",
    "flat.details.DebtorAccount", "flat.details.CreditorAccount">>

CamtIbans ==
  <<"details.CreditorAccount", "details.DebtorAccount", "CreditorAccount", "DebtorAccount",
    "flat.details.CreditorAccount", "flat.details.DebtorAccount">>

CamtPurposes == <<"details.RemittanceInformation", "RemittanceInformation",
                  "AdditionalEntryInformation", "AdditionalTransactionInfo">>

CamtAmount(tx) == FirstPresent(tx, <<"Amount", "details.Amount">>)

\* The currency of the amount in a place, if it is named as CAMT does.
CamtCurrency(tx, place) ==
  IF place \notin DOMAIN tx \/ tx[place].frame # "camt" \/ tx[place].currency = "none" THEN Missing
  ELSE tx[place].currency

\* Mutant: the currency of the details comes before the one of the entry.
CamtCurrencyOfDetails(tx) ==
  LET details == CamtCurrency(tx, "details.Amount")
      entry   == CamtCurrency(tx, "Amount")
  IN IF "Currency" \in DOMAIN tx THEN tx["Currency"]
     ELSE IF details # Missing THEN details
     ELSE IF entry # Missing THEN entry ELSE CurrencyOf(CamtAmount(tx))

\* The currency of the entry; those named as CAMT does, of its amount and of the amount in
\* the details; and the one normalize_amount has found with the amount.
CamtCurrencyField(tx) ==
  LET entry   == CamtCurrency(tx, "Amount")
      details == CamtCurrency(tx, "details.Amount")
  IN IF "Currency" \in DOMAIN tx THEN tx["Currency"]
     ELSE IF entry # Missing THEN entry
     ELSE IF details # Missing THEN details ELSE CurrencyOf(CamtAmount(tx))

\* vr_camt.map_transaction
CamtMapping(tx) ==
  [booking_date |-> FirstPresent(tx, <<"BookingDate">>),
   value_date |-> FirstPresent(tx, <<"ValueDate", "BookingDate">>),
   amount |-> ApplyCreditDebitIndicator(AmountOf(CamtAmount(tx)), Indicator(tx)),
   currency |-> CamtCurrencyField(tx),
   counterparty_name |-> FirstPresent(tx, TxNames \o CamtNames \o DataNames),
   counterparty_iban |-> FirstPresent(tx, TxIbans \o CamtIbans \o DataIbans),
   purpose |-> FirstPresent(tx, TxPurposes \o CamtPurposes \o DataPurposes)]

-----------------------------------------------------------------------------
\* normalize_transaction: the mappings in turn, each for the fields still missing.
NormalizeTransaction(tx) ==
  LET default == DefaultMapping(tx)
      camt    == CamtMapping(tx)
  IN [field \in Fields |->
        IF default[field] = Missing /\ CamtApplies(tx) THEN camt[field] ELSE default[field]]

=============================================================================
