----------------------- MODULE OperationWorkflow_proofs -----------------------
(*****************************************************************************)
(* Proofs about OperationWorkflow, for all accounts, filters, banks,         *)
(* configurations and transactions.                                          *)
(*****************************************************************************)
EXTENDS OperationWorkflow, TransactionMapping_proofs

-----------------------------------------------------------------------------
(* First elements.                                                           *)

\* What FirstIn finds is in the set and in the sequence.
LEMMA FirstInFound ==
  ASSUME NEW seq, NEW D, seq \in Seq(D), NEW S,
         \E i \in DOMAIN seq : seq[i] \in S
  PROVE  FirstIn(seq, S) \in S /\ \E i \in DOMAIN seq : FirstIn(seq, S) = seq[i]
<1> DEFINE hits == {i \in DOMAIN seq : seq[i] \in S}
<1>1. hits \subseteq Nat /\ hits # {}
  OBVIOUS
<1>2. \E i \in hits : \A j \in hits : i <= j
  BY <1>1, LeastExists
<1>3. FirstIn(seq, S) = seq[CHOOSE i \in hits : \A j \in hits : i <= j]
  BY <1>1 DEF FirstIn
<1>4. (CHOOSE i \in hits : \A j \in hits : i <= j) \in hits
  BY <1>2
<1> HIDE DEF hits
<1>5. PICK i \in hits : FirstIn(seq, S) = seq[i]
  BY <1>3, <1>4
<1> QED BY <1>5 DEF hits

LEMMA FirstInNone ==
  ASSUME NEW seq, NEW S, ~ \E i \in DOMAIN seq : seq[i] \in S
  PROVE  FirstIn(seq, S) = NoMechanism
BY DEF FirstIn

\* The first index of a set of positive numbers is one of them, or 0 if there is none.
LEMMA FirstAtIndex ==
  ASSUME NEW S, S \subseteq Nat
  PROVE  FirstAt(S) \in S \cup {0} /\ (S # {} => FirstAt(S) \in S)
<1>1. CASE S = {}
  BY <1>1 DEF FirstAt
<1>2. CASE S # {}
  <2>1. \E i \in S : \A j \in S : i <= j
    BY <1>2, LeastExists
  <2> QED BY <1>2, <2>1 DEF FirstAt
<1> QED BY <1>1, <1>2

\* A sequence that is not empty has elements.
LEMMA NonEmpty ==
  ASSUME NEW D, NEW seq \in Seq(D)
  PROVE  Len(seq) \in Nat /\ (seq # <<>> => 0 < Len(seq))
OBVIOUS

-----------------------------------------------------------------------------
(* The TAN mechanism of a prepared client.                                   *)

\* The mechanisms python-fints knows of after the bank has said which the user may use.
Offer(bank) == {bank.methods[i] : i \in DOMAIN bank.methods} \cap bank.allowed

Client == [current : Mechanism, known : SUBSET (TwoStepCodes \cup {OneStep})]

LEMMA FirstInMechanism ==
  ASSUME NEW bank \in Banks, NEW S
  PROVE  FirstIn(bank.methods, S) \in Mechanism
<1>1. bank.methods \in Seq(TwoStepCodes \cup {OneStep})
  BY BanksAssumption
<1>2. CASE \E i \in DOMAIN bank.methods : bank.methods[i] \in S
  <2>1. PICK i \in DOMAIN bank.methods : FirstIn(bank.methods, S) = bank.methods[i]
    BY <1>1, <1>2, FirstInFound
  <2> QED BY <1>1, <2>1 DEF Mechanism
<1>3. CASE ~ \E i \in DOMAIN bank.methods : bank.methods[i] \in S
  BY <1>3, FirstInNone DEF Mechanism
<1> QED BY <1>2, <1>3

LEMMA OfferType ==
  ASSUME NEW bank \in Banks
  PROVE  Offer(bank) \subseteq TwoStepCodes \cup {OneStep}
BY BanksAssumption DEF Offer

\* The selections change nothing but the selected mechanism.
LEMMA ProcessResponseForm ==
  ASSUME NEW bank \in Banks, NEW client \in Client
  PROVE  /\ ProcessResponse(client, bank) \in Client
         /\ ProcessResponse(client, bank).known = Offer(bank)
         /\ \/ ProcessResponse(client, bank).current \in {client.current, OneStep}
            \/ ProcessResponse(client, bank).current = FirstIn(bank.methods, Offer(bank) \cap Usable(bank))
<1> DEFINE told  == Told(client, bank)
           ing   == IngSelection(told, bank)
           found == FirstIn(bank.methods, Offer(bank) \cap Usable(bank))
<1>1. told \in Client /\ told.known = Offer(bank) /\ told.current = client.current
  BY OfferType DEF Told, Client, Offer
<1>2. found \in Mechanism
  BY FirstInMechanism
<1> HIDE DEF told
<1>3. SelectTwoStep(told, bank) = found
  BY <1>1 DEF SelectTwoStep
<1> HIDE DEF found
<1>4. ing \in Client /\ ing.known = Offer(bank) /\ ing.current \in {client.current, found}
  BY <1>1, <1>2, <1>3 DEF IngSelection, Client
<1> HIDE DEF ing
<1>5. SelectTwoStep(ing, bank) = found
  BY <1>4 DEF SelectTwoStep, found
<1>6. ProcessResponse(client, bank) = OwnSelection(ing, bank)
  BY DEF ProcessResponse, ing, told
<1>7. /\ OwnSelection(ing, bank) \in Client
      /\ OwnSelection(ing, bank).known = Offer(bank)
      /\ OwnSelection(ing, bank).current \in {client.current, OneStep, found}
  BY <1>2, <1>4, <1>5 DEF OwnSelection, Client, Mechanism
<1> QED BY <1>6, <1>7 DEF found

\* What the bootstrap leaves.
LEMMA BootstrapForm ==
  ASSUME NEW bank \in Banks, NEW config \in Configs
  PROVE  /\ Bootstrap(NewClient, config, bank) \in Client
         /\ config.wanted = NoMechanism /\ bank.announces =>
              /\ Bootstrap(NewClient, config, bank).known = Offer(bank)
              /\ \/ Bootstrap(NewClient, config, bank).current = OneStep
                 \/ Bootstrap(NewClient, config, bank).current =
                      FirstIn(bank.methods, Offer(bank) \cap Usable(bank))
<1> DEFINE asked == IF config.before THEN ApplyTanOverride(NewClient, config.wanted) ELSE NewClient
           asking == [asked EXCEPT !.current = OneStep]
<1>1. config.wanted \in Mechanism /\ config.before \in BOOLEAN
  BY BanksAssumption DEF Mechanism
<1>2. NewClient \in Client /\ NewClient.current = NoMechanism
  BY DEF NewClient, Client, Mechanism
<1>3. asked \in Client /\ (config.wanted = NoMechanism => asked = NewClient)
  BY <1>1, <1>2 DEF ApplyTanOverride, Client
<1> HIDE DEF asked
<1>4. asking \in Client /\ asking.current = OneStep
  BY <1>3 DEF Client, Mechanism
<1> HIDE DEF asking
<1>5. FetchTanMechanisms(asked, bank) =
        IF bank.announces THEN ProcessResponse(asking, bank) ELSE asking
  BY DEF FetchTanMechanisms, asking
<1>6. FetchTanMechanisms(asked, bank) \in Client
  BY <1>4, <1>5, ProcessResponseForm
<1>7. Bootstrap(NewClient, config, bank) =
        IF asked.current = NoMechanism THEN FetchTanMechanisms(asked, bank) ELSE asked
  BY DEF Bootstrap, asked
<1>8. CASE config.wanted = NoMechanism /\ bank.announces
  <2>1. Bootstrap(NewClient, config, bank) = ProcessResponse(asking, bank)
    BY <1>2, <1>3, <1>5, <1>7, <1>8
  <2> QED BY <1>4, <2>1, ProcessResponseForm
<1> QED BY <1>3, <1>6, <1>7, <1>8

LEMMA PromotedForm ==
  ASSUME NEW bank \in Banks, NEW client \in Client
  PROVE  /\ PromoteTwoStepTan(client, bank) \in Client
         /\ client.current \in client.known =>
              PromoteTwoStepTan(client, bank).current = client.current
         /\ client.current \notin client.known
            /\ (\E i \in DOMAIN bank.methods : bank.methods[i] \in client.known \cap TwoStepCodes) =>
              PromoteTwoStepTan(client, bank).current \in client.known \cap TwoStepCodes
<1> DEFINE code == FirstIn(bank.methods, client.known \cap TwoStepCodes)
<1>1. code \in Mechanism
  BY FirstInMechanism
<1>2. (\E i \in DOMAIN bank.methods : bank.methods[i] \in client.known \cap TwoStepCodes) =>
        code \in client.known \cap TwoStepCodes
  <2>1. bank.methods \in Seq(TwoStepCodes \cup {OneStep})
    BY BanksAssumption
  <2> QED BY <2>1, FirstInFound
<1> HIDE DEF code
<1>3. PromoteTwoStepTan(client, bank) =
        IF client.current \in client.known \/ code = NoMechanism THEN client
        ELSE [client EXCEPT !.current = code]
  BY DEF PromoteTwoStepTan, code
<1> QED BY <1>1, <1>2, <1>3, MechanismAssumption DEF Client

\* A prepared client has selected a mechanism or none, never anything else.
LEMMA PreparedType ==
  ASSUME NEW bank \in Banks, NEW config \in Configs
  PROVE  Prepared(config, bank) \in Client
<1>1. PromoteTwoStepTan(Bootstrap(NewClient, config, bank), bank) \in Client
  BY BootstrapForm, PromotedForm
<1>2. config.wanted \in Mechanism
  BY BanksAssumption DEF Mechanism
<1> QED BY <1>1, <1>2 DEF Prepared, ApplyTanOverride, Client

LEMMA PreparedWanted ==
  ASSUME NEW bank \in Banks, NEW config \in Configs, ~ config.before,
         config.wanted # NoMechanism
  PROVE  Prepared(config, bank).current = config.wanted
<1>1. PromoteTwoStepTan(Bootstrap(NewClient, config, bank), bank) \in Client
  BY BootstrapForm, PromotedForm
<1> QED BY <1>1 DEF Prepared, ApplyTanOverride, Client

\* An override that comes first keeps the bank from being asked: nothing is known to
\* promote.
LEMMA PreparedWantedBefore ==
  ASSUME NEW bank \in Banks, NEW config \in Configs, config.before,
         config.wanted # NoMechanism
  PROVE  Prepared(config, bank).current = config.wanted
<1> DEFINE asked == ApplyTanOverride(NewClient, config.wanted)
<1>1. asked.current = config.wanted /\ asked.known = {}
  BY DEF ApplyTanOverride, NewClient
<1>2. Bootstrap(NewClient, config, bank) = asked
  BY <1>1 DEF Bootstrap
<1> HIDE DEF asked
<1>3. FirstIn(bank.methods, asked.known \cap TwoStepCodes) = NoMechanism
  BY <1>1, FirstInNone
<1>4. PromoteTwoStepTan(asked, bank) = asked
  BY <1>3 DEF PromoteTwoStepTan
<1> QED BY <1>1, <1>2, <1>4 DEF Prepared

\* Without a configured mechanism the promotion has the last word, on what the bank said.
LEMMA PreparedUnconfigured ==
  ASSUME NEW bank \in Banks, NEW config \in Configs,
         config.wanted = NoMechanism, bank.announces,
         OneStep \notin Offer(bank), Offer(bank) \cap TwoStepCodes # {}
  PROVE  Prepared(config, bank).current \in Offer(bank) \cap TwoStepCodes
<1> DEFINE client == Bootstrap(NewClient, config, bank)
           promoted == PromoteTwoStepTan(client, bank)
           found == FirstIn(bank.methods, Offer(bank) \cap Usable(bank))
<1>1. client \in Client /\ client.known = Offer(bank) /\ client.current \in {OneStep, found}
  BY BootstrapForm
<1>2. Prepared(config, bank) = promoted
  BY DEF Prepared, ApplyTanOverride
<1>3. \E i \in DOMAIN bank.methods : bank.methods[i] \in Offer(bank) \cap TwoStepCodes
  BY DEF Offer
<1>4. found \in Offer(bank) \/ found = NoMechanism
  <2>1. bank.methods \in Seq(TwoStepCodes \cup {OneStep})
    BY BanksAssumption
  <2> QED BY <2>1, FirstInFound, FirstInNone
<1>5. Offer(bank) \subseteq TwoStepCodes
  BY OfferType
<1> HIDE DEF client, found
<1>6. CASE client.current \in client.known
  BY <1>1, <1>2, <1>5, <1>6, PromotedForm
<1>7. CASE client.current \notin client.known
  BY <1>1, <1>2, <1>3, <1>7, PromotedForm
<1> QED BY <1>6, <1>7

-----------------------------------------------------------------------------
(* What the client takes a waiting bank for.                                 *)

LEMMA CodeVerdictWaiting ==
  ASSUME NEW response, NEW code \in {"0030", "3955"},
         response.codes \in {<<code>>, <<"0020", code>>}
  PROVE  CodeVerdict(response) = IF code = "0030" THEN "tan" ELSE "decoupled"
<1> DEFINE decisive == {i \in DOMAIN response.codes : response.codes[i] \in {"0030", "3955", "9xxx"}}
<1>1. CASE response.codes = <<code>>
  <2>1. decisive = {1}
    BY <1>1
  <2>2. (CHOOSE i \in decisive : \A j \in decisive : i <= j) = 1
    BY <2>1
  <2> QED BY <1>1, <2>1, <2>2 DEF CodeVerdict
<1>2. CASE response.codes = <<"0020", code>>
  <2>1. decisive = {2}
    BY <1>2
  <2>2. (CHOOSE i \in decisive : \A j \in decisive : i <= j) = 2
    BY <2>1
  <2> QED BY <1>2, <2>1, <2>2 DEF CodeVerdict
<1> QED BY <1>1, <1>2

\* In whatever form the bank asks for a TAN or an approval, the client sees a challenge.
LEMMA WaitingIsChallenging ==
  ASSUME NEW command \in Commands, NEW exchange \in Exchanges(command),
         checks \in BOOLEAN, exchange.intent \in Waiting
  PROVE  exchange.verdict \in {"tan", "decoupled", "vop"}
<1> DEFINE vopStandard == command = "pay" /\ checks
<1>0. PICK withTan \in BOOLEAN :
        \E response \in Responses(exchange.intent, withTan, vopStandard) :
          exchange.verdict = Verdict(command, response, withTan)
  <2>1. TanSegments \subseteq BOOLEAN
    BY DEF TanSegments
  <2>2. exchange.verdict \in Verdicts(command, exchange.intent)
    BY DEF Exchanges
  <2> QED BY <2>1, <2>2 DEF Verdicts
<1>1. PICK response \in Responses(exchange.intent, withTan, vopStandard) :
        exchange.verdict = Verdict(command, response, withTan)
  BY <1>0
<1> HIDE DEF vopStandard
<1>a. vopStandard = (IF command = "pay" THEN checks ELSE FALSE)
  BY DEF vopStandard
<1>2. exchange.intent = "payee" => vopStandard
  BY DEF Exchanges, BankIntents, Waiting, vopStandard
<1>3. exchange.intent \in {"tan", "app", "payee"}
  BY DEF Waiting
<1>4. CASE ~ withTan
  <2>1. response \in PlainResponses(exchange.intent)
    BY <1>1, <1>4 DEF Responses
  <2>2. exchange.verdict = RawVerdict(response, vopStandard)
    <3>1. CASE command = "pay"
      <4>1. vopStandard = checks /\ withTan = FALSE
        BY <1>4, <1>a, <3>1
      <4>2. exchange.verdict = SendPayVerdict(response, withTan, checks)
        BY <1>1, <3>1 DEF Verdict
      <4>3. exchange.verdict = SendPayVerdict(response, FALSE, vopStandard)
        BY <4>1, <4>2
      <4>4. ASSUME NEW standard \in BOOLEAN
            PROVE  SendPayVerdict(response, FALSE, standard) = RawVerdict(response, standard)
        BY DEF SendPayVerdict, RawVerdict
      <4>5. vopStandard \in BOOLEAN
        BY <4>1
      <4> QED BY <4>3, <4>4, <4>5
    <3>2. CASE command # "pay"
      <4>1. vopStandard = FALSE /\ withTan = FALSE
        BY <1>4, <1>a, <3>2
      <4>2. exchange.verdict = SendVerdict(response, withTan)
        BY <1>1, <3>2 DEF Verdict
      <4>3. exchange.verdict = RawVerdict(response, FALSE)
        BY <4>1, <4>2 DEF SendVerdict
      <4> QED BY <4>1, <4>3
    <3> QED BY <3>1, <3>2
  <2>3. exchange.intent \in {"tan", "app"} => response.hitan
    BY <2>1 DEF PlainResponses
  <2>4. exchange.intent = "payee" => response.payee \in Mismatches
    BY <2>1 DEF PlainResponses
  <2> QED BY <1>2, <1>3, <2>2, <2>3, <2>4 DEF RawVerdict
<1>5. CASE withTan
  <2>1. response \in TanSegmentResponses(exchange.intent, vopStandard)
    BY <1>1, <1>5 DEF Responses
  <2>2. CASE exchange.intent \in {"tan", "app"}
    <3> DEFINE code == IF exchange.intent = "tan" THEN "0030" ELSE "3955"
    <3>1. /\ response.codes \in {<<code>>, <<"0020", code>>}
          /\ response.payee = IF vopStandard THEN "RCVC" ELSE "none"
      BY <2>1, <2>2 DEF TanSegmentResponses
    <3>2. CodeVerdict(response) \in {"tan", "decoupled"}
      BY <3>1, CodeVerdictWaiting
    <3>3. exchange.verdict \in {CodeVerdict(response), "vop"}
      <4>1. CASE command = "pay"
        <5>1. exchange.verdict = SendPayVerdict(response, TRUE, vopStandard)
          <6>1. vopStandard = checks /\ withTan = TRUE
            BY <1>5, <1>a, <4>1
          <6>2. exchange.verdict = SendPayVerdict(response, withTan, checks)
            BY <1>1, <4>1 DEF Verdict
          <6> QED BY <6>1, <6>2
        <5>2. ~ (vopStandard /\ response.payee = "none") /\ response.payee \notin Mismatches
          BY <3>1 DEF Mismatches
        <5> QED BY <5>1, <5>2 DEF SendPayVerdict
      <4>2. CASE command # "pay"
        <5>1. exchange.verdict = SendVerdict(response, withTan) /\ withTan = TRUE
          BY <1>1, <1>5, <4>2 DEF Verdict
        <5> QED BY <5>1 DEF SendVerdict
      <4> QED BY <4>1, <4>2
    <3> QED BY <3>2, <3>3
  <2>3. CASE exchange.intent = "payee"
    <3>1. exchange.verdict = SendPayVerdict(response, TRUE, TRUE)
      <4>1. command = "pay" /\ checks = TRUE /\ withTan = TRUE
        BY <1>2, <1>5, <2>3 DEF vopStandard
      <4>2. exchange.verdict = SendPayVerdict(response, withTan, checks)
        BY <1>1, <4>1 DEF Verdict
      <4> QED BY <4>1, <4>2
    <3>2. \/ response.payee \in Mismatches
          \/ response.payee = "RCVC" /\ response.codes \in {<<"3945">>, <<"0020", "3945">>}
      BY <2>1, <2>3 DEF TanSegmentResponses
    <3>3. response.codes \in {<<"3945">>, <<"0020", "3945">>} => "3945" \in Codes(response)
      BY DEF Codes
    <3> QED BY <3>1, <3>2, <3>3 DEF SendPayVerdict, Mismatches
  <2> QED BY <1>3, <2>2, <2>3
<1> QED BY <1>1, <1>4, <1>5

LEMMA ExchangeType ==
  ASSUME NEW command, NEW exchange \in Exchanges(command)
  PROVE  /\ exchange.intent \in BankIntents(command)
         /\ exchange.verdict \in Detections
BY DEF Exchanges

-----------------------------------------------------------------------------
(* The inductive invariant.                                                  *)

\* Which phase belongs to which operation, and what is known in it.
StepInv ==
  /\ (answer = "none") <=> (phase # "answered")
  /\ phase = "balance" => request.op \in {"balance", "counted_balance"}
  /\ phase = "rows" =>
       request.op = IF balance = "none" THEN "transactions" ELSE "counted_balance"
  /\ phase = "pay" => request.op = "transfer"
  /\ phase \in {"start", "prepared", "list"} => balance = "none"

\* The summary of an account is complete.
Complete(summary, account) ==
  /\ summary.account = account
  /\ (summary.balance # "none") <=> (request.op \in {"balance", "counted_balance"})
  /\ (summary.rows # "none") <=> (request.op \in {"transactions", "counted_balance"})

\* The accounts that are done are the first selected ones, and an account is left while
\* the operation is at work.
PartInv ==
  /\ Len(listing.matched) = Len(listing.selected)
  /\ phase \in {"start", "prepared", "list"} => collected = <<>>
  /\ phase \in {"balance", "rows"} => Len(collected) < Len(listing.selected)
  /\ answer = "ok" /\ request.op \in Reads => Len(collected) = Len(listing.selected)
  /\ \A k \in DOMAIN collected : Complete(collected[k], listing.selected[k])

\* A prepared client comes from _prepare_client, a listing from the bank.
OriginInv ==
  /\ prep = NoPrep \/ prep \in Preparations
  /\ listing = NoListing \/ \E needle \in Needles : listing \in Listings[needle]

IInv == TypeOK /\ StepInv /\ PartInv /\ OriginInv /\ WaitingBankIsSeen /\ NoFalseSuccess

-----------------------------------------------------------------------------
(* What the operations return.                                               *)

LEMMA SelectAccountsType ==
  ASSUME NEW hidden, NEW needle, NEW seq \in SelectAccounts(AllDescribed(hidden), needle)
  PROVE  seq \in Seq(Ids)
<1> DEFINE matching == {i \in DOMAIN AllDescribed(hidden) : AccountMatches(AllDescribed(hidden)[i], needle)}
<1>1. Ids = 1 .. Len(Accounts) /\ Len(Accounts) \in Nat
  BY AccountsAssumption DEF Ids
<1>2. DOMAIN AllDescribed(hidden) = Ids
  BY DEF AllDescribed
<1>3. matching \subseteq Ids
  BY <1>2
<1>4. IsFiniteSet(Ids)
  BY <1>1, FS_Interval
<1> HIDE DEF matching
<1>5. Cardinality(matching) \in Nat
  BY <1>3, <1>4, FS_Subset, FS_CardinalityType
<1>6. seq \in [1 .. Cardinality(matching) -> matching]
  BY DEF SelectAccounts, matching
<1> QED BY <1>3, <1>5, <1>6

LEMMA MatchType ==
  ASSUME NEW account, NEW hidden
  PROVE  MatchAccountInformation(account, AllDescribed(hidden)) \in Ids \cup {0}
<1> DEFINE entries == AllDescribed(hidden)
<1>1. DOMAIN entries = Ids /\ Ids \subseteq Nat
  BY AccountsAssumption DEF AllDescribed, Ids
<1> HIDE DEF entries
<1>2. SameIban(account, entries) \subseteq Ids /\ SameNumber(account, entries) \subseteq Ids
  BY <1>1 DEF SameIban, SameNumber
<1>3. /\ FirstAt(SameIban(account, entries)) \in Ids \cup {0}
      /\ FirstAt(SameNumber(account, entries)) \in Ids \cup {0}
  BY <1>1, <1>2, FirstAtIndex
<1>4. MatchAccountInformation(account, entries) \in Ids \cup {0}
  BY <1>3 DEF MatchAccountInformation
<1> QED BY <1>4 DEF entries

LEMMA MatchedType ==
  ASSUME NEW view, NEW informed, NEW selected \in Seq(Ids)
  PROVE  /\ Matched(view, informed, selected) \in Seq(Ids \cup {0})
         /\ Len(Matched(view, informed, selected)) = Len(selected)
<1>1. DOMAIN selected = 1 .. Len(selected) /\ Len(selected) \in Nat
  OBVIOUS
<1>2. Matched(view, informed, selected) \in [1 .. Len(selected) -> Ids \cup {0}]
  BY <1>1, MatchType DEF Matched
<1> QED BY <1>1, <1>2

\* What list_accounts returns.
LEMMA ListingsForm ==
  ASSUME NEW needle \in Needles, NEW list \in Listings[needle]
  PROVE  \E view \in Views, informed \in BOOLEAN, selected \in Seq(Ids) :
           list = [selected |-> selected, matched |-> Matched(view, informed, selected),
                   told |-> IF informed THEN ToldApart(view) ELSE {}]
<1>1. PICK view \in Views, informed \in BOOLEAN :
        \E selected \in SelectAccounts(AllDescribed(view.account), needle) :
           list = [selected |-> selected, matched |-> Matched(view, informed, selected),
                   told |-> IF informed THEN ToldApart(view) ELSE {}]
  BY DEF Listings
<1>2. PICK selected \in SelectAccounts(AllDescribed(view.account), needle) :
           list = [selected |-> selected, matched |-> Matched(view, informed, selected),
                   told |-> IF informed THEN ToldApart(view) ELSE {}]
  BY <1>1
<1>3. selected \in Seq(Ids)
  BY <1>2, SelectAccountsType
<1> QED BY <1>2, <1>3

LEMMA ListingsType ==
  ASSUME NEW list, list = NoListing \/ \E needle \in Needles : list \in Listings[needle]
  PROVE  /\ list.selected \in Seq(Ids) /\ list.matched \in Seq(Ids \cup {0})
         /\ list.told \subseteq Ids
         /\ Len(list.matched) = Len(list.selected)
<1>1. CASE list = NoListing
  BY <1>1 DEF NoListing
<1>2. CASE \E needle \in Needles : list \in Listings[needle]
  <2>1. PICK view \in Views, informed \in BOOLEAN, selected \in Seq(Ids) :
          list = [selected |-> selected, matched |-> Matched(view, informed, selected),
                  told |-> IF informed THEN ToldApart(view) ELSE {}]
    BY <1>2, ListingsForm
  <2>2. ToldApart(view) \subseteq Ids
    BY DEF ToldApart
  <2> QED BY <2>1, <2>2, MatchedType
<1> QED BY <1>1, <1>2

LEMMA PreparationsForm ==
  ASSUME NEW preparation \in Preparations
  PROVE  /\ preparation.config \in Configs /\ preparation.bank \in Banks
         /\ preparation.current = Prepared(preparation.config, preparation.bank).current
         /\ preparation.current \in Mechanism
BY PreparedType DEF Preparations, Client

-----------------------------------------------------------------------------
(* What the parts of several actions do to the invariant.                    *)

\* The types of what the work on an operation changes.
WorkType ==
  /\ phase \in {"start", "prepared", "list", "balance", "rows", "pay", "awaiting", "answered"}
  /\ collected \in Seq(Summaries) /\ Len(collected) <= Len(listing.selected)
  /\ answer \in {"none", "ok", "error", "aborted"}

LEMMA SummaryType ==
  ASSUME NEW list, NEW k \in DOMAIN list.selected,
         list.selected \in Seq(Ids), list.matched \in Seq(Ids \cup {0}),
         Len(list.matched) = Len(list.selected),
         NEW itsBalance \in Balances, NEW rows \in {"none", "shown"}
  PROVE  Summary(list, k, itsBalance, rows) \in Summaries
<1>1. list.selected[k] \in Ids /\ list.matched[k] \in Ids \cup {0}
  OBVIOUS
<1> QED BY <1>1 DEF Summary, Summaries

\* The list is got.
LEMMA WithListStep ==
  ASSUME TypeOK, StepInv, PartInv, phase = "list", UNCHANGED <<request, balance>>,
         NEW list, list = NoListing \/ \E needle \in Needles : list \in Listings[needle],
         WithList(list)
  PROVE  /\ listing' = list
         /\ WorkType' /\ StepInv' /\ PartInv'
         /\ answer' = "ok" => request.op # "transfer"
<1>1. /\ list.selected \in Seq(Ids) /\ list.matched \in Seq(Ids \cup {0})
      /\ Len(list.matched) = Len(list.selected)
  BY ListingsType
<1>2. listing' = list
  BY DEF WithList
<1>3. /\ answer = "none" /\ balance = "none" /\ collected = <<>>
      /\ request.op \in Operations
  BY DEF StepInv, PartInv, TypeOK
<1>4. CASE request.op = "transfer" /\ Len(list.selected) # 1
  <2>1. phase' = "answered" /\ answer' = "error" /\ collected' = <<>>
    BY <1>3, <1>4 DEF WithList, Answer
  <2> QED BY <1>1, <1>2, <1>3, <1>4, <2>1 DEF StepInv, PartInv, WorkType
<1>5. CASE request.op = "accounts" \/ (request.op # "transfer" /\ list.selected = <<>>)
  <2>1. /\ collected' = [k \in DOMAIN list.selected |-> Summary(list, k, "none", "none")]
        /\ phase' = "answered" /\ answer' = "ok"
    BY <1>5 DEF WithList, Answer
  <2>2. DOMAIN list.selected = 1 .. Len(list.selected) /\ Len(list.selected) \in Nat
    BY <1>1
  <2>3. \A k \in DOMAIN list.selected : Summary(list, k, "none", "none") \in Summaries
    BY <1>1, SummaryType DEF Balances
  <2>4. collected' \in Seq(Summaries) /\ Len(collected') = Len(list.selected)
    BY <2>1, <2>2, <2>3
  <2>5. \A k \in DOMAIN collected' : Complete(collected[k], listing.selected[k])'
    <3> SUFFICES ASSUME NEW k \in DOMAIN collected'
                 PROVE  Complete(collected[k], listing.selected[k])'
      OBVIOUS
    <3>1. k \in DOMAIN list.selected /\ collected'[k] = Summary(list, k, "none", "none")
      BY <2>1, <2>2, <2>4
    <3>2. request.op = "accounts"
      BY <1>1, <1>5, <3>1
    <3> QED BY <1>2, <3>1, <3>2 DEF Complete, Summary
  <2>6. WorkType'
    BY <1>1, <1>2, <2>1, <2>4 DEF WorkType
  <2>7. StepInv'
    BY <2>1 DEF StepInv
  <2>8. PartInv'
    BY <1>1, <1>2, <2>1, <2>4, <2>5 DEF PartInv
  <2> QED BY <1>2, <1>5, <2>6, <2>7, <2>8
<1>6. CASE ~ (request.op = "transfer" /\ Len(list.selected) # 1)
           /\ ~ (request.op = "accounts" \/ (request.op # "transfer" /\ list.selected = <<>>))
  <2>1. phase' = FirstPhase(request.op) /\ collected' = <<>> /\ answer' = "none"
    BY <1>3, <1>6 DEF WithList
  <2>2. Len(list.selected) \in Nat /\ 0 < Len(list.selected)
    <3>1. request.op = "transfer" => Len(list.selected) = 1
      BY <1>6
    <3>2. request.op # "transfer" => list.selected # <<>>
      BY <1>6
    <3>3. list.selected \in Seq(Ids)
      BY <1>1
    <3>4. Len(list.selected) \in Nat /\ (list.selected # <<>> => 0 < Len(list.selected))
      BY <3>3, NonEmpty
    <3> QED BY ONLY <3>1, <3>2, <3>4
  <2>3. /\ phase' \in {"pay", "rows", "balance"}
        /\ phase' = "pay" => request.op = "transfer"
        /\ phase' = "rows" => request.op = "transactions"
        /\ phase' = "balance" => request.op \in {"balance", "counted_balance"}
    BY <1>3, <1>6, <2>1 DEF FirstPhase, Operations, Reads
  <2> QED BY <1>1, <1>2, <1>3, <2>1, <2>2, <2>3 DEF StepInv, PartInv, WorkType
<1> QED BY <1>2, <1>4, <1>5, <1>6

\* An account is done.
LEMMA CollectStep ==
  ASSUME TypeOK, StepInv, PartInv, phase \in {"balance", "rows"}, UNCHANGED <<request, listing>>,
         NEW itsBalance \in Balances, NEW rows \in {"none", "shown"},
         (itsBalance # "none") <=> (request.op \in {"balance", "counted_balance"}),
         (rows # "none") <=> (request.op \in {"transactions", "counted_balance"}),
         Collect(itsBalance, rows)
  PROVE  /\ WorkType' /\ StepInv' /\ PartInv'
         /\ answer' \in {"none", "ok"} /\ request.op # "transfer" /\ balance' = "none"
<1> DEFINE k == Len(collected) + 1
           summary == Summary(listing, k, itsBalance, rows)
<1>1. /\ listing.selected \in Seq(Ids) /\ listing.matched \in Seq(Ids \cup {0})
      /\ Len(listing.matched) = Len(listing.selected)
      /\ collected \in Seq(Summaries) /\ Len(collected) < Len(listing.selected)
      /\ answer = "none"
      /\ request.op \in {"balance", "counted_balance", "transactions"}
  BY DEF TypeOK, StepInv, PartInv
<1>2. Len(collected) \in Nat /\ Len(listing.selected) \in Nat /\ k \in 1 .. Len(listing.selected)
  BY <1>1
<1>3. k \in DOMAIN listing.selected
  BY <1>1, <1>2
<1>4. summary \in Summaries
  BY <1>1, <1>3, SummaryType
<1>5. collected' = Append(collected, summary) /\ balance' = "none"
  BY DEF Collect
<1>6. Complete(summary, listing.selected[k])
  BY <1>1 DEF Complete, Summary
<1> HIDE DEF summary
<1>7. /\ collected' \in Seq(Summaries) /\ Len(collected') = k
      /\ \A i \in 1 .. Len(collected) : collected'[i] = collected[i]
      /\ collected'[k] = summary
  BY <1>1, <1>4, <1>5
<1>8. \A i \in DOMAIN collected' : Complete(collected[i], listing.selected[i])'
  <2> SUFFICES ASSUME NEW i \in DOMAIN collected'
               PROVE  Complete(collected[i], listing.selected[i])'
    OBVIOUS
  <2>1. i \in 1 .. k
    BY <1>7
  <2>2. CASE i = k
    BY <1>6, <1>7, <2>2 DEF Complete
  <2>3. CASE i # k
    <3>1. i \in 1 .. Len(collected) /\ i \in DOMAIN collected
      BY <1>1, <1>2, <2>1, <2>3
    <3>2. Complete(collected[i], listing.selected[i])
      BY <3>1 DEF PartInv
    <3> QED BY <1>7, <3>1, <3>2 DEF Complete
  <2> QED BY <2>2, <2>3
<1>9. CASE k = Len(listing.selected)
  <2>1. phase' = "answered" /\ answer' = "ok"
    BY <1>9 DEF Collect, Answer
  <2> QED BY <1>1, <1>2, <1>5, <1>7, <1>8, <1>9, <2>1 DEF StepInv, PartInv, WorkType, Reads
<1>10. CASE k # Len(listing.selected)
  <2>1. phase' = FirstPhase(request.op) /\ answer' = "none"
    BY <1>1, <1>10 DEF Collect
  <2>2. phase' = IF request.op = "transactions" THEN "rows" ELSE "balance"
    BY <1>1, <2>1 DEF FirstPhase
  <2>3. Len(collected') < Len(listing.selected)
    BY <1>2, <1>7, <1>10
  <2> QED BY <1>1, <1>2, <1>5, <1>7, <1>8, <2>1, <2>2, <2>3 DEF StepInv, PartInv, WorkType
<1> QED BY <1>9, <1>10

\* The operation starts again.
LEMMA RestartStep ==
  ASSUME TypeOK, StepInv, phase = "awaiting", Restart, request' = request
  PROVE  WorkType' /\ StepInv' /\ PartInv' /\ answer' = "none" /\ waits' = "none"
<1>1. /\ phase' = "list" /\ listing' = NoListing /\ collected' = <<>>
      /\ balance' = "none" /\ answer' = "none" /\ waits' = "none"
  BY DEF Restart, StepInv
<1> QED BY <1>1 DEF NoListing, WorkType, StepInv, PartInv

\* The operation is interrupted, or answered with an error: nothing is added.
LEMMA StopStep ==
  ASSUME TypeOK, StepInv, PartInv, phase # "answered",
         UNCHANGED <<request, listing, collected>>,
         \/ phase' = "awaiting" /\ answer' = answer
         \/ phase' = "answered" /\ answer' \in {"error", "aborted"}
  PROVE  WorkType' /\ StepInv' /\ PartInv' /\ answer' \in {"none", "error", "aborted"}
<1>1. answer = "none"
  BY DEF StepInv
<1>2. \A k \in DOMAIN collected : Complete(collected[k], listing.selected[k])'
  BY DEF PartInv, Complete
<1> QED BY <1>1, <1>2 DEF TypeOK, WorkType, StepInv, PartInv

\* What the bank waits for after an exchange, the client has seen as a challenge.
LEMMA HearsStep ==
  ASSUME checks \in BOOLEAN, NEW command \in Commands, NEW exchange \in Exchanges(command),
         Hears(exchange)
  PROVE  /\ waits' \in Waiting \cup {"none"}
         /\ waits' # "none" => Challenging(exchange)
<1>1. exchange.intent \in Waiting => Challenging(exchange)
  BY WaitingIsChallenging DEF Challenging
<1> QED BY <1>1 DEF Hears

\* The types of the rest of the state.
RestType ==
  /\ scope \in TanScopes /\ checks \in BOOLEAN
  /\ request \in [op : Operations, needle : Needles]
  /\ prep = NoPrep \/ (prep.config \in Configs /\ prep.bank \in Banks /\ prep.current \in Mechanism)
  /\ twoStep \in BOOLEAN
  /\ listing.selected \in Seq(Ids) /\ listing.matched \in Seq(Ids \cup {0})
  /\ listing.told \subseteq Ids
  /\ balance \in Balances
  /\ booked \in Transactions \cup {NoBooking}
  /\ waits \in Waiting \cup {"none"} /\ inApp \in BOOLEAN /\ granted \in BOOLEAN
  /\ pending \in {"none", "tan", "decoupled", "vop"}
  /\ executed \in BOOLEAN

LEMMA TypeParts == TypeOK <=> WorkType /\ RestType
BY DEF TypeOK, WorkType, RestType

LEMMA PrepareStep ==
  ASSUME IInv, Prepare
  PROVE  IInv'
<1>1. /\ prep'.config \in Configs /\ prep'.bank \in Banks /\ prep'.current \in Mechanism
      /\ prep' \in Preparations
  BY PreparationsForm DEF Prepare
<1>2. TypeOK' /\ StepInv' /\ PartInv' /\ OriginInv'
  <2>1. UNCHANGED <<scope, checks, waits, inApp, granted, executed, request, twoStep, listing,
                    collected, balance, booked, pending, answer>>
    BY DEF Prepare, bankside, work
  <2>2. phase = "start" /\ phase' = "prepared"
    BY DEF Prepare
  <2>3. TypeOK'
    BY <1>1, <2>1, <2>2 DEF IInv, TypeOK
  <2>4. StepInv'
    BY <2>1, <2>2 DEF IInv, StepInv
  <2>5. PartInv'
    BY <2>1, <2>2 DEF IInv, PartInv
  <2>6. OriginInv'
    BY <1>1, <2>1 DEF IInv, OriginInv
  <2> QED BY <2>3, <2>4, <2>5, <2>6
<1>3. WaitingBankIsSeen' /\ NoFalseSuccess'
  BY DEF IInv, Prepare, WaitingBankIsSeen, NoFalseSuccess, StepInv, bankside
<1> QED BY <1>2, <1>3 DEF IInv

LEMMA PrepareFailsStep ==
  ASSUME IInv, PrepareFails
  PROVE  IInv'
<1>1. /\ UNCHANGED <<scope, checks, waits, inApp, granted, executed, request, prep, twoStep, listing,
                     collected, balance, booked, pending>>
      /\ phase = "start" /\ phase' = "answered" /\ answer' = "error"
  BY DEF PrepareFails, Answer, bankside, work
<1>2. WorkType' /\ StepInv' /\ PartInv'
  BY <1>1, StopStep DEF IInv
<1>3. RestType'
  BY <1>1, TypeParts DEF IInv, RestType
<1>4. OriginInv' /\ WaitingBankIsSeen' /\ NoFalseSuccess'
  BY <1>1 DEF IInv, OriginInv, WaitingBankIsSeen, NoFalseSuccess
<1>5. TypeOK'
  BY <1>2, <1>3, TypeParts DEF TypeOK, WorkType, RestType
<1> QED BY <1>2, <1>4, <1>5 DEF IInv

LEMMA OpenDialogStep ==
  ASSUME IInv, OpenDialog
  PROVE  IInv'
<1>1. PICK intent \in {"done", "tan", "app", "refused"} :
        /\ waits' = IF intent \in Waiting THEN intent ELSE "none"
        /\ CASE intent = "done"    -> phase' = "list" /\ UNCHANGED <<pending, answer>>
             [] intent = "refused" -> Answer("error") /\ UNCHANGED pending
             [] OTHER              -> Interrupt(IF intent = "app" THEN "decoupled" ELSE "tan")
  BY DEF OpenDialog, Hears
<1>2. /\ UNCHANGED <<scope, checks, inApp, granted, executed, request, listing, collected, balance, booked>>
      /\ phase = "prepared" /\ twoStep' \in BOOLEAN /\ prep' = NoPrep
      /\ answer = "none" /\ balance = "none" /\ collected = <<>>
  BY DEF IInv, StepInv, PartInv, OpenDialog, work
<1>3. pending' \in {"none", "tan", "decoupled", "vop"} /\ waits' \in Waiting \cup {"none"}
  BY <1>1 DEF IInv, TypeOK, Interrupt, Waiting
<1>4. RestType'
  BY <1>2, <1>3, TypeParts DEF IInv, RestType
<1>5. OriginInv'
  BY <1>2 DEF IInv, OriginInv
<1>6. /\ WorkType' /\ StepInv' /\ PartInv' /\ answer' \in {"none", "error"}
      /\ waits' # "none" => phase' = "awaiting"
  <2>1. CASE intent = "done"
    <3>1. phase' = "list" /\ answer' = "none" /\ waits' = "none"
      BY <1>1, <1>2, <2>1 DEF Waiting
    <3>2. WorkType'
      BY <1>2, <3>1 DEF IInv, TypeOK, WorkType
    <3>3. StepInv' /\ PartInv'
      BY <1>2, <3>1 DEF IInv, StepInv, PartInv
    <3> QED BY <3>1, <3>2, <3>3
  <2>2. CASE intent # "done"
    <3>1. \/ phase' = "awaiting" /\ answer' = answer
          \/ phase' = "answered" /\ answer' = "error" /\ waits' = "none"
      BY <1>1, <2>2 DEF Answer, Interrupt, Waiting
    <3> QED BY <1>2, <3>1, StopStep DEF IInv
  <2> QED BY <2>1, <2>2
<1>7. TypeOK' /\ WaitingBankIsSeen' /\ NoFalseSuccess'
  BY <1>4, <1>6 DEF TypeOK, WorkType, RestType, WaitingBankIsSeen, NoFalseSuccess
<1> QED BY <1>5, <1>6, <1>7 DEF IInv

LEMMA ListAccountsStep ==
  ASSUME IInv, ListAccounts
  PROVE  IInv'
<1>1. PICK exchange \in Exchanges("list") :
        /\ Hears(exchange)
        /\ IF exchange.verdict # "result" THEN Answer("error") /\ UNCHANGED <<listing, collected>>
           ELSE IF exchange.intent = "refused" THEN WithList(NoListing)
           ELSE \E list \in Listings[request.needle] : WithList(list)
  BY DEF ListAccounts
<1>2. /\ UNCHANGED <<scope, checks, inApp, granted, executed, request, prep, twoStep, balance, booked, pending>>
      /\ phase = "list" /\ checks \in BOOLEAN /\ request.needle \in Needles
  BY DEF IInv, TypeOK, ListAccounts
<1>3. waits' \in Waiting \cup {"none"} /\ (waits' # "none" => Challenging(exchange))
  BY <1>1, <1>2, HearsStep DEF Commands
<1>4. CASE exchange.verdict # "result"
  <2>1. phase' = "answered" /\ answer' = "error" /\ UNCHANGED <<listing, collected>>
    BY <1>1, <1>4 DEF Answer
  <2>2. WorkType' /\ StepInv' /\ PartInv'
    BY <1>2, <2>1, StopStep DEF IInv
  <2>3. RestType' /\ OriginInv'
    BY <1>2, <1>3, <2>1, TypeParts DEF IInv, RestType, OriginInv
  <2> QED BY <2>1, <2>2, <2>3 DEF IInv, TypeOK, WorkType, RestType, WaitingBankIsSeen, NoFalseSuccess
<1>5. CASE exchange.verdict = "result"
  <2>1. PICK list : /\ list = NoListing \/ \E needle \in Needles : list \in Listings[needle]
                    /\ WithList(list)
    BY <1>1, <1>2, <1>5
  <2>2. /\ listing' = list
        /\ WorkType' /\ StepInv' /\ PartInv'
        /\ answer' = "ok" => request.op # "transfer"
    BY <1>2, <2>1, WithListStep DEF IInv
  <2>3. waits' = "none"
    BY <1>3, <1>5 DEF Challenging
  <2>4. RestType'
    BY <1>2, <1>3, <2>1, <2>2, ListingsType, TypeParts DEF IInv, RestType
  <2>5. OriginInv'
    BY <1>2, <2>1, <2>2 DEF IInv, OriginInv
  <2> QED BY <1>2, <2>2, <2>3, <2>4, <2>5
          DEF IInv, TypeOK, WorkType, RestType, WaitingBankIsSeen, NoFalseSuccess
<1> QED BY <1>4, <1>5

LEMMA InterruptForm ==
  ASSUME NEW verdict, Interrupt(verdict)
  PROVE  phase' = "awaiting" /\ answer' = answer /\ pending' \in {"none", "tan", "decoupled", "vop"}
BY DEF Interrupt

\* The invariant after a step that leaves listing, prep and payment alone.
LEMMA KeptParts ==
  ASSUME IInv, WorkType', RestType', StepInv', PartInv',
         UNCHANGED <<prep, listing>>,
         waits' # "none" => phase' = "awaiting" \/ answer' \in {"error", "aborted"},
         answer' = "ok" => request'.op # "transfer"
  PROVE  IInv'
<1>1. TypeOK'
  BY DEF TypeOK, WorkType, RestType
<1>2. OriginInv' /\ WaitingBankIsSeen' /\ NoFalseSuccess'
  BY DEF IInv, OriginInv, WaitingBankIsSeen, NoFalseSuccess
<1> QED BY <1>1, <1>2 DEF IInv

LEMMA GetBalanceStep ==
  ASSUME IInv, GetBalance
  PROVE  IInv'
<1>1. PICK exchange \in Exchanges("balance") :
        /\ Hears(exchange)
        /\ IF Challenging(exchange)
             THEN Interrupt(exchange.verdict) /\ UNCHANGED <<collected, balance>>
             ELSE /\ WithBalance(IF exchange.intent = "done" THEN "shown" ELSE "missing")
                  /\ UNCHANGED pending
  BY DEF GetBalance
<1>2. /\ UNCHANGED <<scope, checks, inApp, granted, executed, request, prep, twoStep, listing, booked>>
      /\ phase = "balance" /\ checks \in BOOLEAN /\ answer = "none"
      /\ request.op \in {"balance", "counted_balance"}
  BY DEF IInv, TypeOK, StepInv, GetBalance
<1>3. waits' \in Waiting \cup {"none"} /\ (waits' # "none" => Challenging(exchange))
  BY <1>1, <1>2, HearsStep DEF Commands
<1>4. CASE Challenging(exchange)
  <2>1. /\ phase' = "awaiting" /\ answer' = answer /\ UNCHANGED <<collected, balance>>
        /\ pending' \in {"none", "tan", "decoupled", "vop"}
    BY <1>1, <1>4, InterruptForm
  <2>2. WorkType' /\ StepInv' /\ PartInv'
    BY <1>2, <2>1, StopStep DEF IInv
  <2>3. RestType'
    BY <1>2, <1>3, <2>1, TypeParts DEF IInv, RestType
  <2> QED BY <1>2, <2>1, <2>2, <2>3, KeptParts
<1>5. CASE ~ Challenging(exchange)
  <2>1. PICK itsBalance \in {"shown", "missing"} : WithBalance(itsBalance) /\ UNCHANGED pending
    BY <1>1, <1>5
  <2>2. waits' = "none"
    BY <1>3, <1>5
  <2>3. CASE request.op = "balance"
    <3>1. Collect(itsBalance, "none")
      BY <2>1, <2>3 DEF WithBalance
    <3>2. WorkType' /\ StepInv' /\ PartInv' /\ request.op # "transfer" /\ balance' = "none"
      BY <1>2, <2>3, <3>1, CollectStep DEF IInv, Balances
    <3>3. RestType'
      BY <1>2, <1>3, <2>1, <3>2, TypeParts DEF IInv, RestType, Balances
    <3> QED BY <1>2, <2>2, <3>2, <3>3, KeptParts
  <2>4. CASE request.op = "counted_balance"
    <3>1. balance' = itsBalance /\ phase' = "rows" /\ UNCHANGED <<collected, answer>>
      BY <2>1, <2>4 DEF WithBalance
    <3>2. WorkType' /\ StepInv'
      BY <1>2, <2>4, <3>1 DEF IInv, TypeOK, WorkType, StepInv
    <3>3. PartInv'
      <4>1. \A k \in DOMAIN collected' : Complete(collected[k], listing.selected[k])'
        BY <1>2, <3>1 DEF IInv, PartInv, Complete
      <4> QED BY <1>2, <3>1, <4>1 DEF IInv, PartInv
    <3>4. RestType'
      BY <1>2, <1>3, <2>1, <3>1, TypeParts DEF IInv, RestType, Balances
    <3> QED BY <1>2, <2>2, <3>1, <3>2, <3>3, <3>4, KeptParts
  <2> QED BY <1>2, <2>3, <2>4
<1> QED BY <1>4, <1>5

LEMMA GetTransactionsStep ==
  ASSUME IInv, GetTransactions
  PROVE  IInv'
<1>1. PICK exchange \in Exchanges("rows") :
        /\ Hears(exchange)
        /\ CASE Challenging(exchange) ->
                  Interrupt(exchange.verdict) /\ UNCHANGED <<collected, balance, booked>>
             [] exchange.verdict = "error" ->
                  Answer("error") /\ UNCHANGED <<collected, balance, booked, pending>>
             [] OTHER ->
                  /\ Collect(balance, "shown")
                  /\ booked' = booked \/ booked' \in Transactions
                  /\ UNCHANGED pending
  BY DEF GetTransactions, Challenging
<1>2. /\ UNCHANGED <<scope, checks, inApp, granted, executed, request, prep, twoStep, listing>>
      /\ phase = "rows" /\ checks \in BOOLEAN /\ answer = "none" /\ balance \in Balances
      /\ request.op = IF balance = "none" THEN "transactions" ELSE "counted_balance"
  BY DEF IInv, TypeOK, StepInv, GetTransactions
<1>3. waits' \in Waiting \cup {"none"} /\ (waits' # "none" => Challenging(exchange))
  BY <1>1, <1>2, HearsStep DEF Commands
<1>4. CASE Challenging(exchange) \/ exchange.verdict = "error"
  <2>1. /\ \/ phase' = "awaiting" /\ answer' = answer
           \/ phase' = "answered" /\ answer' = "error"
        /\ UNCHANGED <<collected, balance, booked>>
        /\ pending' \in {"none", "tan", "decoupled", "vop"}
    <3>1. CASE Challenging(exchange)
      <4>1. exchange.verdict # "error"
        BY <3>1 DEF Challenging
      <4> QED BY <1>1, <3>1, <4>1, InterruptForm
    <3>2. CASE ~ Challenging(exchange) /\ exchange.verdict = "error"
      BY <1>1, <3>2 DEF Answer, IInv, TypeOK
    <3> QED BY <1>4, <3>1, <3>2
  <2>2. WorkType' /\ StepInv' /\ PartInv'
    BY <1>2, <2>1, StopStep DEF IInv
  <2>3. RestType'
    BY <1>2, <1>3, <2>1, TypeParts DEF IInv, RestType
  <2> QED BY <1>2, <2>1, <2>2, <2>3, KeptParts
<1>5. CASE ~ Challenging(exchange) /\ exchange.verdict # "error"
  <2>1. /\ Collect(balance, "shown")
        /\ booked' = booked \/ booked' \in Transactions
        /\ UNCHANGED pending
    BY <1>1, <1>5
  <2>2. waits' = "none"
    BY <1>3, <1>5
  <2>3. WorkType' /\ StepInv' /\ PartInv' /\ request.op # "transfer" /\ balance' = "none"
    BY <1>2, <2>1, CollectStep DEF IInv
  <2>4. RestType'
    BY <1>2, <1>3, <2>1, <2>3, TypeParts DEF IInv, RestType, Balances
  <2> QED BY <1>2, <2>2, <2>3, <2>4, KeptParts
<1> QED BY <1>4, <1>5

\* A refusal has no status of success.
LEMMA RefusalStatus ==
  ASSUME NEW status \in StatusesOf("refused")
  PROVE  ~ Success(status)
BY DEF StatusesOf, Success

LEMMA PayStep ==
  ASSUME IInv, Pay
  PROVE  IInv'
<1>1. PICK exchange \in Exchanges("pay") :
        /\ Hears(exchange)
        /\ executed' = (exchange.intent = "done")
        /\ CASE Challenging(exchange)      -> Interrupt(exchange.verdict)
             [] exchange.verdict = "error" -> Answer("error") /\ UNCHANGED pending
             [] OTHER -> /\ \E status \in StatusesOf(exchange.intent) :
                              Answer(IF Success(status) THEN "ok" ELSE "error")
                         /\ UNCHANGED pending
  BY DEF Pay
<1>2. /\ UNCHANGED <<scope, checks, inApp, granted, request, prep, twoStep, listing, collected, balance, booked>>
      /\ phase = "pay" /\ checks \in BOOLEAN /\ answer = "none" /\ request.op = "transfer"
  BY DEF IInv, TypeOK, StepInv, Pay, work
<1>3. waits' \in Waiting \cup {"none"} /\ (waits' # "none" => Challenging(exchange))
  BY <1>1, <1>2, HearsStep DEF Commands
<1>4. /\ \/ phase' = "awaiting" /\ answer' = answer
         \/ phase' = "answered" /\ answer' = "error" /\ waits' = "none"
         \/ phase' = "answered" /\ answer' = "ok" /\ waits' = "none" /\ executed' = TRUE
      /\ executed' \in BOOLEAN
      /\ pending' \in {"none", "tan", "decoupled", "vop"}
  <2>1. CASE Challenging(exchange)
    <3>1. exchange.verdict # "error"
      BY <2>1 DEF Challenging
    <3> QED BY <1>1, <2>1, <3>1, InterruptForm DEF IInv, TypeOK
  <2>2. CASE ~ Challenging(exchange) /\ exchange.verdict = "error"
    BY <1>1, <1>3, <2>2 DEF Answer, IInv, TypeOK
  <2>3. CASE ~ Challenging(exchange) /\ exchange.verdict # "error"
    <3>1. PICK status \in StatusesOf(exchange.intent) :
            Answer(IF Success(status) THEN "ok" ELSE "error") /\ UNCHANGED pending
      BY <1>1, <2>3
    <3>2. Success(status) => exchange.intent = "done"
      <4>1. exchange.intent \notin Waiting
        BY <1>2, <2>3, WaitingIsChallenging DEF Challenging, Commands
      <4>2. exchange.intent \in Intents
        BY DEF Exchanges, BankIntents, Intents
      <4>3. exchange.intent \in {"done", "refused"}
        BY <4>1, <4>2 DEF Intents, Waiting
      <4> QED BY <3>1, <4>3, RefusalStatus
    <3> QED BY <1>1, <1>3, <2>3, <3>1, <3>2 DEF Answer, IInv, TypeOK
  <2> QED BY <2>1, <2>2, <2>3
<1>5. RestType'
  BY <1>2, <1>3, <1>4, TypeParts DEF IInv, RestType
<1>6. WorkType' /\ StepInv' /\ PartInv'
  <2>1. CASE \/ phase' = "awaiting" /\ answer' = answer
             \/ phase' = "answered" /\ answer' = "error"
    BY <1>2, <2>1, StopStep DEF IInv
  <2>2. CASE phase' = "answered" /\ answer' = "ok"
    <3>1. WorkType' /\ StepInv'
      BY <1>2, <2>2 DEF IInv, TypeOK, WorkType, StepInv
    <3>2. \A k \in DOMAIN collected' : Complete(collected[k], listing.selected[k])'
      BY <1>2 DEF IInv, PartInv, Complete
    <3>3. PartInv'
      BY <1>2, <2>2, <3>2 DEF IInv, PartInv, Reads
    <3> QED BY <3>1, <3>3
  <2>3. \/ phase' = "awaiting" /\ answer' = answer
        \/ phase' = "answered" /\ answer' = "error"
        \/ phase' = "answered" /\ answer' = "ok"
    BY ONLY <1>4
  <2> QED BY ONLY <2>1, <2>2, <2>3
<1>7. OriginInv' /\ WaitingBankIsSeen'
  BY <1>2, <1>4 DEF IInv, OriginInv, WaitingBankIsSeen
<1>8. NoFalseSuccess'
  <2>1. answer' = "ok" => executed'
    BY <1>2, <1>4
  <2> QED BY <2>1 DEF NoFalseSuccess
<1> QED BY <1>5, <1>6, <1>7, <1>8 DEF IInv, TypeOK, WorkType, RestType

\* The steps of the caller and the user leave these alone.
LEMMA ConfirmKeeps ==
  ASSUME Confirm \/ ApproveInApp
  PROVE  phase = "awaiting" /\ UNCHANGED <<scope, checks, request, prep, twoStep>>
BY DEF Confirm, ApproveInApp, ConfirmTan, ConfirmDecoupled, ApproveVop, RetryWithName, AbortVop,
       bankside

\* An operation that starts again keeps the invariant, whatever the bank did meanwhile.
LEMMA RestartKeeps ==
  ASSUME IInv, phase = "awaiting", Restart, UNCHANGED <<scope, checks, request, prep, twoStep>>,
         granted' \in BOOLEAN, executed' \in BOOLEAN
  PROVE  IInv'
<1>1. WorkType' /\ StepInv' /\ PartInv' /\ answer' = "none" /\ waits' = "none"
  BY RestartStep DEF IInv
<1>2. listing' = NoListing /\ balance' = "none" /\ booked' = NoBooking /\ pending' = "none" /\ inApp' = FALSE
  BY DEF Restart
<1>3. RestType'
  <2>1. RestType
    BY TypeParts DEF IInv
  <2>2. /\ listing'.selected \in Seq(Ids) /\ listing'.matched \in Seq(Ids \cup {0})
        /\ listing'.told \subseteq Ids
    BY <1>2 DEF NoListing
  <2>3. balance' \in Balances /\ waits' \in Waiting \cup {"none"}
    BY <1>1, <1>2 DEF Balances
  <2> QED BY <1>2, <2>1, <2>2, <2>3 DEF RestType
<1>4. OriginInv'
  BY <1>2 DEF IInv, OriginInv
<1> QED BY <1>1, <1>3, <1>4 DEF IInv, TypeOK, WorkType, RestType, WaitingBankIsSeen, NoFalseSuccess

LEMMA ApprovedKeeps ==
  ASSUME IInv, phase = "awaiting", Approved, UNCHANGED <<scope, checks, request, prep, twoStep>>
  PROVE  IInv'
<1>1. Restart /\ granted' \in BOOLEAN /\ executed' \in BOOLEAN
  BY DEF Approved, ExecutePending
<1> QED BY <1>1, RestartKeeps

\* A confirmation that fails, and one that leads to another challenge.
LEMMA StopKeeps ==
  ASSUME IInv, phase = "awaiting", UNCHANGED <<scope, checks, request, prep, twoStep, work, inApp, granted, executed>>,
         waits' \in Waiting \cup {"none"}, pending' \in {"none", "tan", "decoupled", "vop"},
         \/ phase' = "awaiting" /\ answer' = answer
         \/ phase' = "answered" /\ answer' \in {"error", "aborted"}
  PROVE  IInv'
<1>1. UNCHANGED <<listing, collected, balance, booked>>
  BY DEF work
<1>2. WorkType' /\ StepInv' /\ PartInv' /\ answer' \in {"none", "error", "aborted"}
  BY <1>1, StopStep DEF IInv
<1>3. RestType'
  BY <1>1, TypeParts DEF IInv, RestType
<1> QED BY <1>1, <1>2, <1>3, KeptParts

LEMMA ConfirmTanStep ==
  ASSUME IInv, ConfirmTan
  PROVE  IInv'
<1>1. phase = "awaiting" /\ UNCHANGED <<scope, checks, request, prep, twoStep>>
  BY DEF ConfirmTan
<1>2. CASE Approved
  BY <1>1, <1>2, ApprovedKeeps
<1>3. CASE Answer("error") /\ UNCHANGED <<waits, inApp, granted, executed, work, pending>>
  <2>1. phase' = "answered" /\ answer' = "error" /\ UNCHANGED <<waits, inApp, granted, executed, work, pending>>
    BY <1>3 DEF Answer
  <2>2. waits \in Waiting \cup {"none"} /\ pending \in {"none", "tan", "decoupled", "vop"}
    BY DEF IInv, TypeOK
  <2> QED BY <1>1, <2>1, <2>2, StopKeeps
<1> QED BY <1>2, <1>3 DEF ConfirmTan

LEMMA ConfirmDecoupledStep ==
  ASSUME IInv, ConfirmDecoupled
  PROVE  IInv'
<1>1. phase = "awaiting" /\ UNCHANGED <<scope, checks, request, prep, twoStep>>
  BY DEF ConfirmDecoupled
<1>2. waits \in Waiting \cup {"none"} /\ pending \in {"none", "tan", "decoupled", "vop"}
  BY DEF IInv, TypeOK
<1>3. CASE Approved
  BY <1>1, <1>3, ApprovedKeeps
<1>4. CASE UNCHANGED <<waits, inApp, granted, executed, phase, work, pending, answer>>
  BY <1>1, <1>2, <1>4, StopKeeps
<1>5. CASE Answer("error") /\ UNCHANGED <<waits, inApp, granted, executed, work, pending>>
  <2>1. phase' = "answered" /\ answer' = "error" /\ UNCHANGED <<waits, inApp, granted, executed, work, pending>>
    BY <1>5 DEF Answer
  <2> QED BY <1>1, <1>2, <2>1, StopKeeps
<1> QED BY <1>3, <1>4, <1>5 DEF ConfirmDecoupled

LEMMA ApproveVopStep ==
  ASSUME IInv, ApproveVop
  PROVE  IInv'
<1>1. phase = "awaiting" /\ UNCHANGED <<scope, checks, request, prep, twoStep>>
  BY DEF ApproveVop
<1>2. waits \in Waiting \cup {"none"} /\ pending \in {"none", "tan", "decoupled", "vop"}
  BY DEF IInv, TypeOK
<1>3. CASE Approved
  BY <1>1, <1>3, ApprovedKeeps
<1>4. CASE /\ waits' \in {"tan", "app"}
           /\ Interrupt(IF waits' = "app" THEN "decoupled" ELSE "tan")
           /\ UNCHANGED <<inApp, granted, executed, work>>
  <2>1. phase' = "awaiting" /\ answer' = answer /\ pending' \in {"none", "tan", "decoupled", "vop"}
    BY <1>4 DEF Interrupt
  <2>2. waits' \in Waiting \cup {"none"}
    BY <1>4 DEF Waiting
  <2> QED BY <1>1, <1>4, <2>1, <2>2, StopKeeps
<1>5. CASE Answer("error") /\ UNCHANGED <<waits, inApp, granted, executed, work, pending>>
  <2>1. phase' = "answered" /\ answer' = "error" /\ UNCHANGED <<waits, inApp, granted, executed, work, pending>>
    BY <1>5 DEF Answer
  <2> QED BY <1>1, <1>2, <2>1, StopKeeps
<1> QED BY <1>3, <1>4, <1>5 DEF ApproveVop

LEMMA ConfirmStep ==
  ASSUME IInv, Confirm
  PROVE  IInv'
<1>1. phase = "awaiting" /\ UNCHANGED <<scope, checks, request, prep, twoStep>>
  BY ConfirmKeeps
<1>2. /\ waits \in Waiting \cup {"none"} /\ pending \in {"none", "tan", "decoupled", "vop"}
      /\ granted \in BOOLEAN /\ executed \in BOOLEAN
  BY DEF IInv, TypeOK
<1>3. CASE RetryWithName
  BY <1>1, <1>2, <1>3, RestartKeeps DEF RetryWithName
<1>4. CASE AbortVop
  <2>1. /\ phase' = "answered" /\ answer' = "aborted"
        /\ UNCHANGED <<waits, inApp, granted, executed, work, pending>>
    BY <1>4 DEF AbortVop, Answer, bankside
  <2> QED BY <1>1, <1>2, <2>1, StopKeeps
<1> QED BY <1>3, <1>4, ConfirmTanStep, ConfirmDecoupledStep, ApproveVopStep DEF Confirm

LEMMA ApproveInAppStep ==
  ASSUME IInv, ApproveInApp
  PROVE  IInv'
<1>1. /\ phase = "awaiting" /\ inApp' = TRUE
      /\ UNCHANGED <<scope, checks, waits, granted, executed, request, phase, prep, twoStep, listing,
                     collected, balance, booked, pending, answer>>
  BY DEF ApproveInApp, work
<1>2. WorkType' /\ StepInv' /\ PartInv' /\ answer' \in {"none", "error", "aborted"}
  BY <1>1, StopStep DEF IInv
<1>3. RestType'
  BY <1>1, TypeParts DEF IInv, RestType
<1> QED BY <1>1, <1>2, <1>3, KeptParts

LEMMA StutterStep ==
  ASSUME IInv, UNCHANGED vars
  PROVE  IInv'
<1>1. UNCHANGED <<scope, checks, waits, inApp, granted, executed, request, phase, prep, twoStep, listing,
                  collected, balance, booked, pending, answer>>
  BY DEF vars, bankside, work
<1>2. TypeOK' /\ StepInv' /\ PartInv'
  BY <1>1 DEF IInv, TypeOK, StepInv, PartInv, Complete
<1>3. OriginInv' /\ WaitingBankIsSeen' /\ NoFalseSuccess'
  BY <1>1 DEF IInv, OriginInv, WaitingBankIsSeen, NoFalseSuccess
<1> QED BY <1>2, <1>3 DEF IInv

-----------------------------------------------------------------------------
(* The invariant holds.                                                      *)

LEMMA InitInv ==
  ASSUME Init
  PROVE  IInv
<1>1. /\ request \in [op : Operations, needle : Needles] /\ scope \in TanScopes /\ checks \in BOOLEAN
      /\ phase = "start" /\ prep = NoPrep /\ twoStep = FALSE
      /\ listing = NoListing /\ collected = <<>> /\ balance = "none" /\ booked = NoBooking
      /\ waits = "none" /\ inApp = FALSE /\ granted = FALSE
      /\ pending = "none" /\ executed = FALSE /\ answer = "none"
  BY DEF Init
<1>2. RestType
  <2>1. /\ listing.selected \in Seq(Ids) /\ listing.matched \in Seq(Ids \cup {0})
        /\ listing.told \subseteq Ids
    BY <1>1 DEF NoListing
  <2> QED BY <1>1, <2>1 DEF RestType, Balances
<1>3. WorkType
  BY <1>1 DEF WorkType, NoListing
<1>4. StepInv /\ PartInv
  BY <1>1 DEF StepInv, PartInv, NoListing
<1>5. OriginInv /\ WaitingBankIsSeen /\ NoFalseSuccess
  BY <1>1 DEF OriginInv, WaitingBankIsSeen, NoFalseSuccess
<1> QED BY <1>2, <1>3, <1>4, <1>5, TypeParts DEF IInv

LEMMA NextInv ==
  ASSUME IInv, [Next]_vars
  PROVE  IInv'
<1>1. CASE Work
  BY <1>1, PrepareStep, PrepareFailsStep, OpenDialogStep, ListAccountsStep, GetBalanceStep,
     GetTransactionsStep, PayStep DEF Work
<1>2. CASE ApproveInApp
  BY <1>2, ApproveInAppStep
<1>3. CASE Confirm
  BY <1>3, ConfirmStep
<1>4. CASE UNCHANGED vars
  BY <1>4, StutterStep
<1> QED BY <1>1, <1>2, <1>3, <1>4 DEF Next

LEMMA InvHolds == Spec => []IInv
<1>1. Init => IInv
  BY InitInv
<1>2. IInv /\ [Next]_vars => IInv'
  BY NextInv
<1> QED BY <1>1, <1>2, PTL DEF Spec

-----------------------------------------------------------------------------
(* A read that is approved once for its dialog.                              *)

\* A read is never taken for a payee check, and once the dialog is approved, its response
\* is taken for no challenge at all.
LEMMA ReadVerdicts ==
  ASSUME NEW command \in Commands \ {"pay"}, NEW exchange \in Exchanges(command)
  PROVE  /\ exchange.verdict # "vop"
         /\ granted => ~ Challenging(exchange)
<1>1. PICK withTan \in BOOLEAN : \E response \in Responses(exchange.intent, withTan, FALSE) :
        exchange.verdict = SendVerdict(response, withTan)
  <2>1. TanSegments \subseteq BOOLEAN
    BY DEF TanSegments
  <2>2. exchange.verdict \in Verdicts(command, exchange.intent)
    BY DEF Exchanges
  <2>3. (command = "pay" /\ checks) = FALSE
    OBVIOUS
  <2> QED BY <2>1, <2>2, <2>3 DEF Verdicts, Verdict
<1>2. PICK response \in Responses(exchange.intent, withTan, FALSE) :
        exchange.verdict = SendVerdict(response, withTan)
  BY <1>1
<1>3. exchange.verdict = IF withTan THEN CodeVerdict(response)
                         ELSE IF response.hitan THEN "tan" ELSE "result"
  BY <1>2 DEF SendVerdict, RawVerdict
<1>4. CodeVerdict(response) # "vop"
  BY DEF CodeVerdict
<1>5. granted => exchange.intent \in {"done", "refused"}
  BY DEF Exchanges, BankIntents
<1>6. ASSUME exchange.intent \in {"done", "refused"}
      PROVE  ~ Challenging(exchange)
  <2>1. CASE withTan
    <3>1. response.codes \in {<<>>, <<"0020">>, <<"9xxx">>}
      BY <1>2, <1>6, <2>1 DEF Responses, TanSegmentResponses
    <3>2. CodeVerdict(response) \in {"result", "error"}
      <4> DEFINE decisive == {i \in DOMAIN response.codes : response.codes[i] \in {"0030", "3955", "9xxx"}}
      <4>1. CASE response.codes \in {<<>>, <<"0020">>}
        <5>1. decisive = {}
          BY <4>1
        <5> QED BY <5>1 DEF CodeVerdict
      <4>2. CASE response.codes = <<"9xxx">>
        <5>1. decisive = {1}
          BY <4>2
        <5>2. (CHOOSE i \in decisive : \A j \in decisive : i <= j) = 1
          BY <5>1
        <5> QED BY <4>2, <5>1, <5>2 DEF CodeVerdict
      <4> QED BY <3>1, <4>1, <4>2
    <3> QED BY <1>3, <2>1, <3>2 DEF Challenging
  <2>2. CASE ~ withTan
    <3>1. ~ response.hitan
      BY <1>2, <1>6, <2>2 DEF Responses, PlainResponses
    <3> QED BY <1>3, <2>2, <3>1 DEF Challenging
  <2> QED BY <2>1, <2>2
<1>7. exchange.verdict # "vop"
  BY <1>3, <1>4
<1> QED BY <1>5, <1>6, <1>7

\* Reads that one approval is enough for.
OnceApproved == scope = "dialog" /\ request.op # "transfer"

\* They are interrupted before the approval only, and for a TAN or an approval in the app.
DialogInv ==
  OnceApproved =>
    /\ phase \in {"start", "prepared"} => ~ granted
    /\ phase = "awaiting" => ~ granted /\ pending \in {"tan", "decoupled"}

\* An interruption by a challenge of a read.
LEMMA InterruptDialog ==
  ASSUME IInv, DialogInv, NEW command \in Commands \ {"pay"}, NEW exchange \in Exchanges(command),
         Challenging(exchange), Interrupt(exchange.verdict), UNCHANGED <<scope, request, granted>>
  PROVE  DialogInv' /\ phase' = "awaiting"
<1>1. ~ granted /\ exchange.verdict \in {"tan", "decoupled"}
  BY ReadVerdicts DEF Challenging, IInv, TypeOK
<1> QED BY <1>1 DEF Interrupt, DialogInv, OnceApproved

LEMMA DialogStep ==
  ASSUME IInv, DialogInv, [Next]_vars
  PROVE  DialogInv'
<1>1. CASE PrepareFails \/ Prepare \/ OpenDialog
  BY <1>1 DEF PrepareFails, Prepare, OpenDialog, Answer, Interrupt, DialogInv, OnceApproved, bankside
<1>2. CASE ListAccounts
  <2>1. phase' # "awaiting" /\ phase' \notin {"start", "prepared"}
    BY <1>2 DEF ListAccounts, WithList, FirstPhase, Answer
  <2> QED BY <2>1 DEF DialogInv
<1>3. CASE GetBalance
  <2>1. UNCHANGED <<scope, request, granted>>
    BY <1>3 DEF GetBalance
  <2>2. PICK exchange \in Exchanges("balance") :
          IF Challenging(exchange)
            THEN Interrupt(exchange.verdict)
            ELSE WithBalance(IF exchange.intent = "done" THEN "shown" ELSE "missing")
    BY <1>3 DEF GetBalance
  <2>3. CASE Challenging(exchange)
    BY <2>1, <2>2, <2>3, InterruptDialog DEF Commands
  <2>4. CASE ~ Challenging(exchange)
    <3>1. phase' \in {"balance", "rows", "pay", "answered"}
      BY <2>2, <2>4 DEF WithBalance, Collect, FirstPhase, Answer
    <3> QED BY <3>1 DEF DialogInv
  <2> QED BY <2>3, <2>4
<1>4. CASE GetTransactions
  <2>1. UNCHANGED <<scope, request, granted>>
    BY <1>4 DEF GetTransactions
  <2>2. PICK exchange \in Exchanges("rows") :
          CASE Challenging(exchange) -> Interrupt(exchange.verdict)
            [] exchange.verdict = "error" -> Answer("error")
            [] OTHER -> Collect(balance, "shown")
    BY <1>4 DEF GetTransactions, Challenging
  <2>3. CASE Challenging(exchange)
    <3>1. exchange.verdict # "error"
      BY <2>3 DEF Challenging
    <3>2. Interrupt(exchange.verdict)
      BY <2>2, <2>3, <3>1
    <3> QED BY <2>1, <2>3, <3>2, InterruptDialog DEF Commands
  <2>4. CASE ~ Challenging(exchange)
    <3>1. phase' \in {"balance", "rows", "pay", "answered"}
      BY <2>2, <2>4 DEF Collect, FirstPhase, Answer
    <3> QED BY <3>1 DEF DialogInv
  <2> QED BY <2>3, <2>4
<1>5. CASE Pay
  BY <1>5 DEF Pay, IInv, StepInv, DialogInv, OnceApproved
<1>6. CASE ApproveInApp
  BY <1>6 DEF ApproveInApp, DialogInv, OnceApproved
<1>7. CASE Confirm
  <2>1. phase = "awaiting" /\ UNCHANGED <<scope, request>>
    BY <1>7, ConfirmKeeps
  <2>2. CASE ConfirmTan \/ ConfirmDecoupled
    <3>1. phase' \in {"list", "answered"} \/ UNCHANGED <<phase, granted, pending>>
      BY <2>2 DEF ConfirmTan, ConfirmDecoupled, Approved, Restart, Answer
    <3> QED BY <2>1, <3>1 DEF DialogInv, OnceApproved
  <2>3. CASE ApproveVop \/ RetryWithName \/ AbortVop
    <3>1. pending = "vop"
      BY <2>3 DEF ApproveVop, RetryWithName, AbortVop
    <3> QED BY <2>1, <3>1 DEF DialogInv, OnceApproved
  <2> QED BY <1>7, <2>2, <2>3 DEF Confirm
<1>8. CASE UNCHANGED vars
  BY <1>8 DEF vars, bankside, DialogInv, OnceApproved
<1> QED BY <1>1, <1>2, <1>3, <1>4, <1>5, <1>6, <1>7, <1>8 DEF Next, Work

LEMMA DialogHolds == Spec => [](IInv /\ DialogInv)
<1>1. Init => DialogInv
  BY DEF Init, DialogInv
<1>2. IInv /\ DialogInv /\ [Next]_vars => DialogInv'
  BY DialogStep
<1> QED BY <1>1, <1>2, InvHolds, PTL DEF Spec

\* A later phase is nearer to the answer.
LEMMA NearerPhase ==
  ASSUME \/ phase = "start" /\ phase' \in {"prepared", "answered"}
         \/ phase = "prepared" /\ phase' \in {"list", "awaiting", "answered"}
         \/ phase = "list" /\ phase' \in {"balance", "rows", "answered"}
         \/ phase \in {"balance", "rows"} /\ phase' \in {"awaiting", "answered"}
         \/ phase = "awaiting" /\ phase' = "answered"
  PROVE  Nearer
BY DEF Nearer, Distance

\* An account that is done is no longer left.
LEMMA NearerAccount ==
  ASSUME IInv, phase \in {"balance", "rows"}, UNCHANGED <<request, listing>>,
         NEW itsBalance, NEW rows, Collect(itsBalance, rows)
  PROVE  Nearer
<1>1. /\ collected \in Seq(Summaries) /\ listing.selected \in Seq(Ids)
      /\ Len(collected) \in Nat /\ Len(listing.selected) \in Nat
      /\ request.op \in {"balance", "counted_balance", "transactions"}
  BY DEF IInv, TypeOK, StepInv
<1>2. Left' < Left
  <2> DEFINE summary == Summary(listing, Len(collected) + 1, itsBalance, rows)
  <2>1. collected' = Append(collected, summary)
    BY DEF Collect
  <2> HIDE DEF summary
  <2>2. Len(collected') = Len(collected) + 1
    BY <1>1, <2>1
  <2> QED BY <1>1, <2>2 DEF Left
<1>3. phase' \in {"balance", "rows", "answered"}
  BY <1>1 DEF Collect, Answer, FirstPhase
<1> QED BY <1>2, <1>3, NearerPhase DEF Nearer

\* The work of a read goes towards its answer.
LEMMA WorkDescends ==
  ASSUME IInv, OnceApproved, Work
  PROVE  granted' = granted /\ Nearer
<1>1. CASE PrepareFails \/ Prepare
  <2>1. phase = "start" /\ phase' \in {"prepared", "answered"} /\ granted' = granted
    BY <1>1 DEF PrepareFails, Prepare, Answer, bankside
  <2> QED BY <2>1, NearerPhase
<1>2. CASE OpenDialog
  <2>1. phase = "prepared" /\ phase' \in {"list", "awaiting", "answered"} /\ granted' = granted
    BY <1>2 DEF OpenDialog, Answer, Interrupt
  <2> QED BY <2>1, NearerPhase
<1>3. CASE ListAccounts
  <2>1. phase' \in {"balance", "rows", "answered"}
    BY <1>3 DEF OnceApproved, ListAccounts, WithList, FirstPhase, Answer
  <2>2. phase = "list" /\ granted' = granted
    BY <1>3 DEF ListAccounts
  <2> QED BY <2>1, <2>2, NearerPhase
<1>4. CASE GetBalance
  <2>1. phase = "balance" /\ UNCHANGED <<granted, request, listing>>
    BY <1>4 DEF GetBalance
  <2>2. PICK exchange :
          IF Challenging(exchange)
            THEN Interrupt(exchange.verdict) /\ UNCHANGED <<collected, balance>>
            ELSE WithBalance(IF exchange.intent = "done" THEN "shown" ELSE "missing")
    BY <1>4 DEF GetBalance
  <2>3. CASE Challenging(exchange)
    BY <2>1, <2>2, <2>3, NearerPhase DEF Interrupt
  <2>4. CASE ~ Challenging(exchange) /\ request.op = "balance"
    BY <2>1, <2>2, <2>4, NearerAccount DEF WithBalance
  <2>5. CASE ~ Challenging(exchange) /\ request.op # "balance"
    <3>1. phase' = "rows" /\ collected' = collected
      BY <2>2, <2>5 DEF WithBalance
    <3>2. Left' = Left
      BY <2>1, <3>1 DEF Left
    <3> QED BY <2>1, <3>1, <3>2 DEF Nearer
  <2> QED BY <2>3, <2>4, <2>5
<1>5. CASE GetTransactions
  <2>1. phase = "rows" /\ UNCHANGED <<granted, request, listing>>
    BY <1>5 DEF GetTransactions
  <2>2. \/ \E verdict : Interrupt(verdict)
        \/ Answer("error")
        \/ Collect(balance, "shown")
    BY <1>5 DEF GetTransactions
  <2>3. CASE (\E verdict : Interrupt(verdict)) \/ Answer("error")
    BY <2>1, <2>3, NearerPhase DEF Interrupt, Answer
  <2>4. CASE Collect(balance, "shown")
    BY <2>1, <2>4, NearerAccount
  <2> QED BY <2>2, <2>3, <2>4
<1>6. CASE Pay
  BY <1>6 DEF Pay, IInv, StepInv, OnceApproved
<1> QED BY <1>1, <1>2, <1>3, <1>4, <1>5, <1>6 DEF Work

\* So do the steps of the caller and the user, but for the approval itself.
LEMMA ConfirmDescends ==
  ASSUME IInv, DialogInv, OnceApproved, ApproveInApp \/ Confirm, ~ UNCHANGED vars
  PROVE  (~ granted /\ granted') \/ (granted' = granted /\ Nearer)
<1>1. phase = "awaiting" /\ UNCHANGED <<scope, checks, request, prep, twoStep>>
  BY ConfirmKeeps
<1>2. ~ granted /\ pending \in {"tan", "decoupled"}
  BY <1>1 DEF DialogInv
<1>3. CASE ApproveInApp
  BY <1>1, <1>3 DEF ApproveInApp, Nearer
<1>4. CASE ConfirmTan \/ ConfirmDecoupled
  <2>1. CASE Approved
    BY <1>2, <2>1 DEF Approved, OnceApproved
  <2>2. CASE Answer("error") /\ UNCHANGED granted
    BY <1>1, <2>2, NearerPhase DEF Answer
  <2>3. CASE UNCHANGED <<waits, inApp, granted, executed, phase, work, pending, answer>>
    BY <1>1, <2>3 DEF vars, bankside
  <2> QED BY <1>4, <2>1, <2>2, <2>3 DEF ConfirmTan, ConfirmDecoupled
<1>5. CASE ApproveVop \/ RetryWithName \/ AbortVop
  BY <1>2, <1>5 DEF ApproveVop, RetryWithName, AbortVop
<1> QED BY <1>3, <1>4, <1>5 DEF Confirm

-----------------------------------------------------------------------------
(* The properties.                                                           *)

\* Every variable has its type, whatever accounts, banks and transactions there are.
THEOREM TypeCorrect == Spec => []TypeOK
<1>1. IInv => TypeOK
  BY DEF IInv
<1> QED BY <1>1, InvHolds, PTL

\* The patched send functions and the swallowing get_balance overlook no request of the
\* bank for a TAN or an approval: an operation goes on, or is answered with data, only
\* while the bank waits for nothing.
THEOREM WaitingBankSeen == Spec => []WaitingBankIsSeen
<1>1. IInv => WaitingBankIsSeen
  BY DEF IInv
<1> QED BY <1>1, InvHolds, PTL

\* A transfer that is answered with success has been executed by the bank: whatever the
\* bank means by its response (a challenge, a payee check, a refusal, in each of the forms
\* with and without a TAN segment), only an execution gets through the patched send
\* functions and TransferResponse.from_fints_response to an answer of success, however
\* often the transfer was interrupted and sent before.
THEOREM SuccessIsExecuted == Spec => []NoFalseSuccess
<1>1. IInv => NoFalseSuccess
  BY DEF IInv
<1> QED BY <1>1, InvHolds, PTL

\* An answer of a read holds every selected account once, with what the operation
\* promises for it, for any number of accounts and interruptions (the loops of
\* get_account_overview and get_transactions under /confirm).
THEOREM AnswerComplete == Spec => []AnswerIsComplete
<1>1. ASSUME IInv PROVE AnswerIsComplete
  <2> SUFFICES ASSUME answer = "ok", request.op \in Reads
               PROVE  /\ [k \in DOMAIN collected |-> collected[k].account] = listing.selected
                      /\ \A k \in DOMAIN collected :
                           /\ (collected[k].balance # "none") <=> request.op \in {"balance", "counted_balance"}
                           /\ (collected[k].rows # "none") <=> request.op \in {"transactions", "counted_balance"}
    BY DEF AnswerIsComplete
  <2>1. /\ collected \in Seq(Summaries) /\ listing.selected \in Seq(Ids)
        /\ Len(collected) = Len(listing.selected)
        /\ \A k \in DOMAIN collected : Complete(collected[k], listing.selected[k])
    BY <1>1 DEF IInv, TypeOK, PartInv
  <2>2. DOMAIN collected = DOMAIN listing.selected
    BY <2>1
  <2>3. \A k \in DOMAIN collected : collected[k].account = listing.selected[k]
    BY <2>1 DEF Complete
  <2>4. listing.selected = [k \in DOMAIN listing.selected |-> listing.selected[k]]
    BY <2>1
  <2>5. [k \in DOMAIN collected |-> collected[k].account] = listing.selected
    BY <2>2, <2>3, <2>4
  <2> QED BY <2>1, <2>5 DEF Complete
<1> QED BY <1>1, InvHolds, PTL

\* The TAN mechanism of the configuration survives bootstrap, promotion and the bank's own
\* list of mechanisms, in both orders of _prepare_client.
THEOREM ConfigurationWins == Spec => []ConfiguredMechanismWins
<1>1. ASSUME IInv PROVE ConfiguredMechanismWins
  <2> SUFFICES ASSUME prep # NoPrep, prep.config.wanted # NoMechanism
               PROVE  prep.current = prep.config.wanted
    BY DEF ConfiguredMechanismWins
  <2>1. prep \in Preparations
    BY <1>1 DEF IInv, OriginInv
  <2>2. /\ prep.config \in Configs /\ prep.bank \in Banks
        /\ prep.current = Prepared(prep.config, prep.bank).current
    BY <2>1, PreparationsForm
  <2> QED BY <2>2, PreparedWanted, PreparedWantedBefore, BanksAssumption
<1> QED BY <1>1, InvHolds, PTL

\* Without a configured mechanism the client works with a two-step mechanism that the bank
\* offers to the user (promote_two_step_tan after bootstrap_client): at a bank that
\* announces the user's mechanisms, offers a two-step one and does not offer one-step TAN,
\* whatever process and implementation its mechanisms have.  At a bank that offers one-step
\* TAN as well the client stays with it; nothing is said of that bank.
THEOREM TwoStepUsed == Spec => []TwoStepIsUsed
<1>1. ASSUME IInv PROVE TwoStepIsUsed
  <2> SUFFICES ASSUME prep # NoPrep, prep.config.wanted = NoMechanism, prep.bank.announces,
                      OneStep \notin Offer(prep.bank), Offer(prep.bank) \cap TwoStepCodes # {}
               PROVE  prep.current \in Offer(prep.bank) \cap TwoStepCodes
    BY DEF TwoStepIsUsed, Offer
  <2>1. prep \in Preparations
    BY <1>1 DEF IInv, OriginInv
  <2>2. /\ prep.config \in Configs /\ prep.bank \in Banks
        /\ prep.current = Prepared(prep.config, prep.bank).current
    BY <2>1, PreparationsForm
  <2> QED BY <2>2, PreparedUnconfigured
<1> QED BY <1>1, InvHolds, PTL

-----------------------------------------------------------------------------
(* The information shown with an account.                                    *)

LEMMA ElementType ==
  ASSUME NEW S, NEW seq \in Seq(S), NEW i \in DOMAIN seq
  PROVE  seq[i] \in S
OBVIOUS

LEMMA AccountType ==
  ASSUME NEW i \in Ids
  PROVE  Accounts[i] \in [iban : STRING, number : STRING, bank : STRING, subaccount : STRING]
BY ElementType, AccountsAssumption DEF Ids

LEMMA DescribedFields ==
  ASSUME NEW i \in Ids, NEW hidden \in SUBSET {"iban", "bank", "subaccount"}
  PROVE  /\ Described(i, hidden).number = Accounts[i].number
         /\ Described(i, hidden).iban = IF "iban" \in hidden THEN Absent ELSE Accounts[i].iban
         /\ Described(i, hidden).bank = IF "bank" \in hidden THEN Absent ELSE Accounts[i].bank
         /\ Described(i, hidden).subaccount =
              IF "subaccount" \in hidden THEN Absent ELSE Accounts[i].subaccount
         /\ Accounts[i].number # Absent /\ Accounts[i].iban # Absent
<1>1. Accounts[i] \in [iban : STRING, number : STRING, bank : STRING, subaccount : STRING]
  BY AccountType
<1>2. DOMAIN Accounts[i] = {"iban", "number", "bank", "subaccount"}
  BY <1>1
<1> QED BY <1>1, <1>2, AccountsAssumption DEF Described

\* An account that is told apart from all others is matched with its own entry.
LEMMA ToldIsMatched ==
  ASSUME NEW view \in Views, NEW i \in ToldApart(view)
  PROVE  MatchAccountInformation(Described(i, view.account), AllDescribed(view.entry)) = i
<1> DEFINE account == Described(i, view.account)
           entries == AllDescribed(view.entry)
<1>1. /\ i \in Ids /\ Ids \subseteq Nat \ {0}
      /\ view.account \in SUBSET {"iban", "bank", "subaccount"}
      /\ view.entry \in SUBSET {"iban", "bank", "subaccount"}
  BY AccountsAssumption DEF ToldApart, Views, Ids
<1>2. DOMAIN entries = Ids /\ \A j \in Ids : entries[j] = Described(j, view.entry)
  BY DEF AllDescribed
<1>3. FirstAt({i}) = i
  BY <1>1, FirstAtIndex
<1>4. CASE "iban" \notin view.account \cup view.entry
  <2>1. \A j \in Ids \ {i} : Accounts[i].iban # Accounts[j].iban
    BY <1>4 DEF ToldApart
  <2>2. account.iban # Absent /\ account.iban = Accounts[i].iban
    BY <1>1, <1>4, DescribedFields
  <2>3. ASSUME NEW j \in Ids
        PROVE  entries[j].iban = Accounts[j].iban
    <3>1. Described(j, view.entry).iban = Accounts[j].iban
      BY <1>1, <1>4, DescribedFields
    <3>2. entries[j] = Described(j, view.entry)
      BY <1>2
    <3> QED BY ONLY <3>1, <3>2
  <2> HIDE DEF account, entries
  <2>4. SameIban(account, entries) = {i}
    BY <1>1, <1>2, <2>1, <2>2, <2>3 DEF SameIban
  <2>5. MatchAccountInformation(account, entries) = i
    BY <1>1, <1>3, <2>4 DEF MatchAccountInformation
  <2> QED BY <2>5 DEF account, entries
<1>5. CASE "iban" \in view.account \cup view.entry
  <2>1. \A j \in Ids \ {i} : \E field \in {"number", "bank", "subaccount"} :
          field \notin view.account \cup view.entry /\ Accounts[i][field] # Accounts[j][field]
    BY <1>5 DEF ToldApart
  <2>2. account.iban = Absent \/ \A j \in Ids : entries[j].iban # account.iban
    <3>1. CASE "iban" \in view.account
      BY <1>1, <3>1, DescribedFields
    <3>2. CASE "iban" \in view.entry
      <4>1. ASSUME NEW j \in Ids
            PROVE  entries[j].iban = Absent
        <5>1. Described(j, view.entry).iban = Absent
          BY <1>1, <3>2, DescribedFields
        <5>2. entries[j] = Described(j, view.entry)
          BY <1>2
        <5> QED BY ONLY <5>1, <5>2
      <4> QED BY <4>1
    <3> QED BY <1>5, <3>1, <3>2
  <2>3. account.number # Absent /\ account.number = Accounts[i].number
    BY <1>1, DescribedFields
  <2>4. ASSUME NEW j \in Ids
        PROVE  entries[j].number = Accounts[j].number
    <3>1. Described(j, view.entry).number = Accounts[j].number
      BY <1>1, DescribedFields
    <3>2. entries[j] = Described(j, view.entry)
      BY <1>2
    <3> QED BY ONLY <3>1, <3>2
  <2>5. Compatible(account.bank, entries[i].bank) /\ Compatible(account.subaccount, entries[i].subaccount)
    BY <1>1, <1>2, DescribedFields DEF Compatible
  <2>6. ASSUME NEW j \in Ids \ {i}, Accounts[j].number = Accounts[i].number,
               Compatible(account.bank, entries[j].bank),
               Compatible(account.subaccount, entries[j].subaccount)
        PROVE  FALSE
    <3>1. PICK field \in {"bank", "subaccount"} :
            field \notin view.account \cup view.entry /\ Accounts[i][field] # Accounts[j][field]
      BY <2>1, <2>6
    <3>2. Accounts[i][field] \in STRING /\ Accounts[j][field] \in STRING
      <4>1. /\ Accounts[i] \in [iban : STRING, number : STRING, bank : STRING, subaccount : STRING]
            /\ Accounts[j] \in [iban : STRING, number : STRING, bank : STRING, subaccount : STRING]
        BY <1>1, AccountType
      <4> QED BY <4>1
    <3>3. CASE field = "bank"
      <4>1. account.bank = Accounts[i].bank /\ entries[j].bank = Accounts[j].bank
        BY <1>1, <1>2, <3>1, <3>3, DescribedFields
      <4> QED BY <2>6, <3>1, <3>2, <3>3, <4>1, AccountsAssumption DEF Compatible
    <3>4. CASE field = "subaccount"
      <4>1. account.subaccount = Accounts[i].subaccount /\ entries[j].subaccount = Accounts[j].subaccount
        BY <1>1, <1>2, <3>1, <3>4, DescribedFields
      <4> QED BY <2>6, <3>1, <3>2, <3>4, <4>1, AccountsAssumption DEF Compatible
    <3> QED BY <3>3, <3>4
  <2> HIDE DEF account, entries
  <2>7. SameIban(account, entries) = {}
    BY <1>2, <2>2 DEF SameIban
  <2>8. SameNumber(account, entries) = {i}
    <3>1. \A j \in SameNumber(account, entries) : j = i
      BY <1>2, <2>3, <2>4, <2>6 DEF SameNumber
    <3>2. i \in SameNumber(account, entries)
      BY <1>1, <1>2, <2>3, <2>4, <2>5 DEF SameNumber
    <3> QED BY <3>1, <3>2
  <2>9. MatchAccountInformation(account, entries) = i
    BY <1>3, <2>7, <2>8 DEF MatchAccountInformation, FirstAt
  <2> QED BY <2>9 DEF account, entries
<1> QED BY <1>4, <1>5

\* match_account_information finds an account's own entry whenever IBAN, or number with
\* bank and subaccount, tell it from all others, for any set of accounts and whatever the
\* bank leaves out.
THEOREM OwnInformation == Spec => []InformationIsOwn
<1>1. ASSUME IInv PROVE InformationIsOwn
  <2> SUFFICES ASSUME NEW k \in DOMAIN listing.selected, listing.selected[k] \in listing.told
               PROVE  listing.matched[k] = listing.selected[k]
    BY DEF InformationIsOwn
  <2>1. CASE listing = NoListing
    BY <2>1 DEF NoListing
  <2>2. CASE \E needle \in Needles : listing \in Listings[needle]
    <3>1. PICK view \in Views, informed \in BOOLEAN, selected \in Seq(Ids) :
            listing = [selected |-> selected, matched |-> Matched(view, informed, selected),
                       told |-> IF informed THEN ToldApart(view) ELSE {}]
      BY <2>2, ListingsForm
    <3>2. informed /\ selected[k] \in ToldApart(view) /\ k \in DOMAIN selected
      BY <3>1
    <3>3. listing.matched[k] =
            MatchAccountInformation(Described(selected[k], view.account), AllDescribed(view.entry))
      BY <3>1, <3>2 DEF Matched
    <3> QED BY <3>1, <3>2, <3>3, ToldIsMatched
  <2> QED BY <1>1, <2>1, <2>2 DEF IInv, OriginInv
<1> QED BY <1>1, InvHolds, PTL

-----------------------------------------------------------------------------
(* The transactions that are shown.                                          *)

LEMMA BookedForm ==
  ASSUME IInv, booked # NoBooking
  PROVE  /\ booked \in Transactions
         /\ \A place \in DOMAIN booked \cap AmountPlaces :
              /\ booked[place] \in BookedAmount /\ booked[place] # Missing
              /\ booked[place].currency \in Currencies
              /\ booked[place].form = "opaque" \/ booked[place].frame = "bare" => booked[place].currency = "none"
<1>1. booked \in Transactions
  BY DEF IInv, TypeOK
<1>2. ASSUME NEW place \in DOMAIN booked \cap AmountPlaces
      PROVE  /\ booked[place] \in Amount /\ booked[place] # Missing
             /\ booked[place].form # "number" => booked[place].number >= 0
             /\ booked[place].form = "opaque" \/ booked[place].frame = "bare" => booked[place].currency = "none"
  BY <1>1, TransactionsAssumption
<1>3. \A amount \in Amount : amount.currency \in Currencies
  BY DEF Amount
<1> QED BY <1>1, <1>2, <1>3 DEF BookedAmount

\* Whatever form the bank gave an amount, apply_credit_debit_indicator signs a debit once
\* and leaves everything else what it was worth, at all places both mappings look at.
THEOREM DebitsAreNegative == Spec => []DebitIsNegative
<1>1. ASSUME IInv PROVE DebitIsNegative
  <2> DEFINE amounts == {booked[place] : place \in DOMAIN booked \cap AmountPlaces}
             shown == Row["amount"]
  <2> SUFFICES ASSUME booked # NoBooking, shown # Missing
               PROVE  \E amount \in amounts :
                        /\ shown.form # "number" => shown.number = amount.number
                        /\ IF Indicator(booked) # "DBIT" \/ ~Readable(shown)
                             THEN Worth(shown) = Worth(amount)
                             ELSE Worth(shown) <= 0 /\ Worth(shown) \in {Worth(amount), -Worth(amount)}
    BY DEF DebitIsNegative
  <2>1. \A place \in DOMAIN booked \cap AmountPlaces : booked[place] \in BookedAmount
    BY <1>1, BookedForm
  <2>2. shown = NormalizeTransaction(booked)["amount"]
    BY DEF Row
  <2>3. PICK place \in DOMAIN booked \cap AmountPlaces :
          RightlySigned(NormalizeTransaction(booked)["amount"], booked[place], Indicator(booked))
    BY <2>1, <2>2, RowAmount
  <2>4. booked[place] \in amounts
    OBVIOUS
  <2> HIDE DEF shown, amounts
  <2>5. RightlySigned(shown, booked[place], Indicator(booked))
    BY <2>2, <2>3
  <2> QED BY <2>4, <2>5 DEF RightlySigned
<1> QED BY <1>1, InvHolds, PTL

\* The currency shown is that of the amount shown, whichever mapping found it, unless the
\* bank names one for the entry, or vr_camt finds the details' currency first, because it
\* is named as CAMT does and the currency of the entry's amount is not.
THEOREM CurrencyKept == Spec => []AmountKeepsCurrency
<1>1. ASSUME IInv PROVE AmountKeepsCurrency
  <2> DEFINE first == FirstPresent(booked, BothPlaces)
  <2> SUFFICES ASSUME booked # NoBooking,
                      DOMAIN booked \cap {"tx.currency", "data.currency", "Currency"} = {},
                      first # Missing, first.currency # "none",
                      FirstPlace(booked, BothPlaces) = "Amount" =>
                        first.frame = "camt" \/ CamtCurrency(booked, "details.Amount") = Missing
               PROVE  Row["currency"] = first.currency
    BY DEF AmountKeepsCurrency, BothPlaces
  <2>1. \A place \in DOMAIN booked \cap AmountPlaces :
          /\ booked[place] # Missing /\ booked[place].currency \in Currencies
          /\ booked[place].form = "opaque" \/ booked[place].frame = "bare" => booked[place].currency = "none"
    BY <1>1, BookedForm
  <2>2. NormalizeTransaction(booked)["currency"] = first.currency
    BY <2>1, RowCurrency
  <2> QED BY <2>2 DEF Row
<1> QED BY <1>1, InvHolds, PTL

\* Name and account of the counterparty are looked up independently, yet both mappings go
\* through the parties in one order, so that a row never mixes two of them: for every entry
\* that gives both or none of each party.
THEOREM OnePartyShown == Spec => []CounterpartyIsOneParty
<1>1. ASSUME IInv PROVE CounterpartyIsOneParty
  <2> SUFFICES ASSUME booked # NoBooking,
                      DOMAIN booked \cap (FlatPlaces \cup UnpairedPlaces) = {},
                      \A places \in PartyPlaces :
                        (places[1] \in DOMAIN booked) <=> (places[2] \in DOMAIN booked)
               PROVE  Row["counterparty_name"] = Row["counterparty_iban"]
    BY DEF CounterpartyIsOneParty
  <2>1. booked \in Transactions
    BY <1>1, BookedForm
  <2>2. \A places \in PartyPlaces : places[1] \in DOMAIN booked => booked[places[1]] = booked[places[2]]
    BY <2>1, PartiesAssumption
  <2>3. DOMAIN booked \cap {"flat.Creditor", "flat.Debtor", "flat.details.CreditorAccount",
                            "flat.details.DebtorAccount", "tx.recipient_name", "tx.account",
                            "data.applicant_bin"} = {}
    BY DEF FlatPlaces, UnpairedPlaces
  <2>4. Paired(booked)
    BY <2>2, <2>3 DEF Paired
  <2> QED BY <2>4, RowParty DEF Row
<1> QED BY <1>1, InvHolds, PTL

\* Whatever the bank asks for, the accounts and the mechanism: a read at a bank whose approval
\* is good for the dialog is interrupted and resumed at most in one round, and its loop over
\* the accounts ends.
THEOREM ReadsDescend == Spec => ReadDescends
<1>1. IInv /\ DialogInv /\ [Next]_vars =>
        [scope = "dialog" /\ request.op # "transfer" =>
           \/ ~granted /\ granted'
           \/ granted' = granted /\ Nearer]_vars
  BY WorkDescends, ConfirmDescends DEF Next, OnceApproved
<1> QED BY <1>1, DialogHolds, PTL DEF Spec, ReadDescends

=============================================================================
