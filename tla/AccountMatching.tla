--------------------------- MODULE AccountMatching ---------------------------
(*****************************************************************************)
(* Accounts: which of them a filter selects, and which entry of the bank's   *)
(* user parameter data describes one (helpers.py).  A SEPA account and an    *)
(* entry are records of the same four fields, each of which the bank may     *)
(* leave out.                                                                *)
(*****************************************************************************)
EXTENDS Naturals, Sequences, FiniteSets

CONSTANTS
  Absent,     \* None, or an empty string
  Repr(_)     \* repr of an account, which shows its fields

\* The first index of a sequence that is in S, or 0.
FirstAt(S) == IF S = {} THEN 0 ELSE CHOOSE i \in S : \A j \in S : i <= j

\* Two optional fields contradict each other only if both are given.
Compatible(a, b) == a = Absent \/ b = Absent \/ a = b

\* account_matches: a filter is compared with the IBAN and the repr.  It is also compared
\* with an attribute that SEPAAccount does not have (its number is accountnumber), so the
\* number of an account selects nothing.
AccountMatches(account, needle) ==
  needle = Absent \/ needle \in {account.iban, Repr(account)} \ {Absent}

\* select_accounts: the indices of the accounts that match, in their order (there is one
\* such sequence).
SelectAccounts(accounts, needle) ==
  LET matching == {i \in DOMAIN accounts : AccountMatches(accounts[i], needle)}
  IN {seq \in [1 .. Cardinality(matching) -> matching] :
        \A i, j \in DOMAIN seq : i < j => seq[i] < seq[j]}

\* The entries with the account's IBAN.
SameIban(account, entries) ==
  {i \in DOMAIN entries : account.iban # Absent /\ entries[i].iban = account.iban}

\* Mutant: entries with the account's number, of whichever bank and subaccount.
SameNumberOnly(account, entries) ==
  {i \in DOMAIN entries : account.number # Absent /\ entries[i].number = account.number}

\* The entries with the account's number that contradict neither bank nor subaccount.
SameNumber(account, entries) ==
  {i \in DOMAIN entries :
     /\ account.number # Absent
     /\ entries[i].number = account.number
     /\ Compatible(account.bank, entries[i].bank)
     /\ Compatible(account.subaccount, entries[i].subaccount)}

\* match_account_information, as the index of the entry, or 0.
MatchAccountInformation(account, entries) ==
  LET byIban == FirstAt(SameIban(account, entries))
  IN IF byIban # 0 THEN byIban ELSE FirstAt(SameNumber(account, entries))

=============================================================================
