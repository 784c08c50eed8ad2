----------------------- MODULE TransactionMapping_proofs -----------------------
(*****************************************************************************)
(* Proofs about TransactionMapping: what the row of a transaction says of    *)
(* amount and currency, for every transaction.                               *)
(*****************************************************************************)
EXTENDS TransactionMapping, Integers, FiniteSetTheorems, TLAPS

-----------------------------------------------------------------------------
(* The code looks for the first of several things in sequences of places,    *)
(* accounts and mechanisms.                                                  *)

\* A nonempty set of natural numbers has a least element.
LEMMA LeastExists ==
  ASSUME NEW S, S \subseteq Nat, S # {}
  PROVE  \E i \in S : \A j \in S : i <= j
<1> DEFINE T == {0 .. i : i \in S}
<1>1. T \subseteq FiniteSubsetsOf(Nat)
  <2> SUFFICES ASSUME NEW i \in S PROVE 0 .. i \in FiniteSubsetsOf(Nat)
    OBVIOUS
  <2>1. i \in Int /\ 0 \in Int
    OBVIOUS
  <2>2. IsFiniteSet(0 .. i)
    BY ONLY FS_Interval, <2>1
  <2>3. 0 .. i \subseteq Nat
    OBVIOUS
  <2> QED BY <2>2, <2>3 DEF FiniteSubsetsOf
<1>2. T # {}
  OBVIOUS
<1>3. IsWellFoundedOn(StrictSubsetOrdering(Nat), FiniteSubsetsOf(Nat))
  BY FS_StrictSubsetOrderingWellFounded
<1> HIDE DEF T
<1>4. PICK t \in T : \A u \in T : ~ (<<u, t>> \in StrictSubsetOrdering(Nat))
  BY <1>1, <1>2, <1>3, WFMin
<1>5. PICK i \in S : t = 0 .. i
  BY DEF T
<1>6. ASSUME NEW j \in S, j < i PROVE FALSE
  <2>1. 0 .. j \in T
    BY DEF T
  <2>2. 0 .. j \subseteq 0 .. i /\ i \in 0 .. i /\ i \notin 0 .. j /\ 0 .. j \subseteq Nat /\ 0 .. i \subseteq Nat
    BY <1>6
  <2>3. <<0 .. j, 0 .. i>> \in StrictSubsetOrdering(Nat)
    BY <2>2 DEF StrictSubsetOrdering
  <2> QED BY <2>1, <2>3, <1>4, <1>5
<1>7. \A j \in S : i <= j
  BY <1>6
<1> QED BY <1>7

-----------------------------------------------------------------------------
(* The first place that holds a value.                                       *)

\* The first of some places is the one before which none holds a value.
LEMMA FirstPlaceIs ==
  ASSUME NEW tx, NEW D, NEW places \in Seq(D), NEW i \in DOMAIN places, places[i] \in DOMAIN tx,
         \A j \in DOMAIN places : j < i => places[j] \notin DOMAIN tx
  PROVE  FirstPlace(tx, places) = places[i]
<1> DEFINE held == {k \in DOMAIN places : places[k] \in DOMAIN tx}
<1>1. i \in held /\ held \subseteq Nat
  OBVIOUS
<1>2. \A k \in held : i <= k
  OBVIOUS
<1>3. \A k \in held : (\A j \in held : k <= j) => k = i
  BY <1>1, <1>2
<1>4. (CHOOSE k \in held : \A j \in held : k <= j) = i
  BY <1>1, <1>2, <1>3
<1> QED BY <1>1, <1>4 DEF FirstPlace

LEMMA FirstPlaceNone ==
  ASSUME NEW tx, NEW places, \A i \in DOMAIN places : places[i] \notin DOMAIN tx
  PROVE  FirstPlace(tx, places) = Missing
BY DEF FirstPlace

\* What is found is missing, or held in one of the places.
LEMMA FirstPresentForm ==
  ASSUME NEW tx, NEW D, NEW places \in Seq(D), FirstPresent(tx, places) # Missing
  PROVE  \E i \in DOMAIN places : places[i] \in DOMAIN tx /\ FirstPresent(tx, places) = tx[places[i]]
<1> DEFINE held == {k \in DOMAIN places : places[k] \in DOMAIN tx}
<1>1. held \subseteq Nat
  OBVIOUS
<1>2. FirstPlace(tx, places) # Missing /\ FirstPresent(tx, places) = tx[FirstPlace(tx, places)]
  BY DEF FirstPresent
<1>3. held # {}
  BY <1>2 DEF FirstPlace
<1>4. \E k \in held : \A j \in held : k <= j
  BY <1>1, <1>3, LeastExists
<1>5. FirstPlace(tx, places) = places[CHOOSE k \in held : \A j \in held : k <= j]
  BY <1>3 DEF FirstPlace
<1>6. (CHOOSE k \in held : \A j \in held : k <= j) \in held
  BY <1>4
<1> HIDE DEF held
<1>7. PICK k \in held : FirstPlace(tx, places) = places[k]
  BY <1>5, <1>6
<1> QED BY <1>2, <1>7 DEF held

-----------------------------------------------------------------------------
(* Amounts.                                                                  *)

\* Amounts as they are booked: the sign of one that is no number is in its lead.
BookedAmount == {amount \in Amount : amount.form # "number" => amount.number >= 0}

\* What the sign of a shown amount must be.
RightlySigned(shown, amount, indicator) ==
  /\ shown.form # "number" => shown.number = amount.number
  /\ IF indicator # "DBIT" \/ ~Readable(shown)
       THEN Worth(shown) = Worth(amount)
       ELSE Worth(shown) <= 0 /\ Worth(shown) \in {Worth(amount), -Worth(amount)}

\* normalize_amount takes the currency and its frame off an amount, nothing else.
LEMMA AmountOfForm ==
  ASSUME NEW amount \in BookedAmount, amount # Missing
  PROVE  /\ AmountOf(amount) \in BookedAmount
         /\ AmountOf(amount).form = amount.form
         /\ AmountOf(amount).lead = amount.lead
         /\ AmountOf(amount).number = amount.number
BY DEF AmountOf, BookedAmount, Amount, Currencies

\* Records of amounts, with a sign put before them or a number changed.
LEMMA Signed ==
  ASSUME NEW amount \in Amount, NEW n \in Int
  PROVE  /\ [amount EXCEPT !.number = n].form = amount.form
         /\ [amount EXCEPT !.number = n].number = n
         /\ [amount EXCEPT !.lead = "minus"].form = amount.form
         /\ [amount EXCEPT !.lead = "minus"].lead = "minus"
         /\ [amount EXCEPT !.lead = "minus"].number = amount.number
         /\ [amount EXCEPT !.form = "text", !.lead = "minus"].form = "text"
         /\ [amount EXCEPT !.form = "text", !.lead = "minus"].lead = "minus"
         /\ [amount EXCEPT !.form = "text", !.lead = "minus"].number = amount.number
BY DEF Amount

\* apply_credit_debit_indicator signs a debit once, in whatever form the amount is.
LEMMA SignedOnce ==
  ASSUME NEW amount \in BookedAmount, amount # Missing, NEW indicator
  PROVE  RightlySigned(ApplyCreditDebitIndicator(amount, indicator), amount, indicator)
<1> DEFINE shown == ApplyCreditDebitIndicator(amount, indicator)
<1>1. /\ amount.form \in {"number", "text", "object", "blank", "opaque"} /\ amount.lead \in {"none", "plus", "minus"}
      /\ amount.number \in Int /\ (amount.form # "number" => amount.number >= 0)
      /\ amount \in Amount
  BY DEF BookedAmount, Amount
<1>w. Worth(amount) \in Int /\ -amount.number \in Int
  BY <1>1 DEF Worth
<1>2. indicator # "DBIT" => shown = amount
  BY DEF ApplyCreditDebitIndicator
<1>3. indicator = "DBIT" /\ amount.form \in {"blank", "opaque"} => shown = amount
  BY DEF ApplyCreditDebitIndicator
<1>4. indicator = "DBIT" /\ amount.form = "number" =>
        shown = IF amount.number <= 0 THEN amount ELSE [amount EXCEPT !.number = -amount.number]
  BY DEF ApplyCreditDebitIndicator
<1>5. indicator = "DBIT" /\ amount.form = "text" => shown = [amount EXCEPT !.lead = "minus"]
  BY DEF ApplyCreditDebitIndicator
<1>6. indicator = "DBIT" /\ amount.form = "object" =>
        shown = IF Worth(amount) <= 0 THEN amount ELSE [amount EXCEPT !.form = "text", !.lead = "minus"]
  BY DEF ApplyCreditDebitIndicator
<1> SUFFICES RightlySigned(shown, amount, indicator)
  OBVIOUS
<1> HIDE DEF shown
<1>7. CASE shown = amount /\ (indicator # "DBIT" \/ ~Readable(amount) \/ Worth(amount) <= 0)
  BY <1>7, <1>w DEF RightlySigned
<1>8. CASE indicator = "DBIT" /\ amount.form = "number" /\ ~ (amount.number <= 0)
  <2>1. shown.form = "number" /\ shown.number = -amount.number
    <3>1. shown = [amount EXCEPT !.number = -amount.number]
      BY <1>4, <1>8
    <3> QED BY <1>1, <1>8, <1>w, <3>1, Signed
  <2>2. Worth(shown) = -amount.number /\ Worth(amount) = amount.number
    BY <1>8, <2>1 DEF Worth
  <2> QED BY <1>1, <1>8, <2>1, <2>2 DEF RightlySigned, Readable
<1>9. CASE indicator = "DBIT" /\ (amount.form = "text" \/ (amount.form = "object" /\ ~ (Worth(amount) <= 0)))
  <2>1. shown.form = "text" /\ shown.lead = "minus" /\ shown.number = amount.number
    BY <1>1, <1>5, <1>6, <1>9, Signed
  <2>2. Worth(shown) = -amount.number /\ Worth(amount) \in {amount.number, -amount.number}
    BY <2>1 DEF Worth
  <2>3. amount.number >= 0
    BY <1>1, <1>9
  <2> QED BY <1>1, <1>9, <2>1, <2>2, <2>3 DEF RightlySigned, Readable
<1>10. amount.form = "number" => Worth(amount) = amount.number
  BY DEF Worth
<1> QED BY <1>1, <1>2, <1>3, <1>4, <1>5, <1>6, <1>7, <1>8, <1>9, <1>10 DEF Readable

\* The same for what the mappings make of an amount.
LEMMA MappedAmountSigned ==
  ASSUME NEW amount \in BookedAmount, amount # Missing, AmountOf(amount) # Missing, NEW indicator
  PROVE  RightlySigned(ApplyCreditDebitIndicator(AmountOf(amount), indicator), amount, indicator)
<1>1. RightlySigned(ApplyCreditDebitIndicator(AmountOf(amount), indicator), AmountOf(amount), indicator)
  BY AmountOfForm, SignedOnce
<1>2. Worth(AmountOf(amount)) = Worth(amount) /\ AmountOf(amount).number = amount.number
  BY AmountOfForm DEF Worth
<1> QED BY <1>1, <1>2 DEF RightlySigned

LEMMA MissingAmount ==
  ASSUME NEW amount, NEW indicator, ApplyCreditDebitIndicator(AmountOf(amount), indicator) # Missing
  PROVE  amount # Missing /\ AmountOf(amount) # Missing
BY DEF AmountOf, ApplyCreditDebitIndicator

\* The amount of a row comes from one of the places, rightly signed.
LEMMA RowAmount ==
  ASSUME NEW tx,
         \A place \in DOMAIN tx \cap AmountPlaces : tx[place] \in BookedAmount,
         NormalizeTransaction(tx)["amount"] # Missing
  PROVE  \E place \in DOMAIN tx \cap AmountPlaces :
            RightlySigned(NormalizeTransaction(tx)["amount"], tx[place], Indicator(tx))
<1> DEFINE shown(amount) == ApplyCreditDebitIndicator(AmountOf(amount), Indicator(tx))
<1>1. \/ NormalizeTransaction(tx)["amount"] = shown(DefaultAmount(tx))
      \/ NormalizeTransaction(tx)["amount"] = shown(CamtAmount(tx))
  BY DEF NormalizeTransaction, DefaultMapping, CamtMapping, Fields
<1>2. PICK amount \in {DefaultAmount(tx), CamtAmount(tx)} :
        NormalizeTransaction(tx)["amount"] = shown(amount)
  BY <1>1
<1>3. amount # Missing /\ AmountOf(amount) # Missing
  BY <1>2, MissingAmount
<1>4. \E place \in DOMAIN tx \cap AmountPlaces : amount = tx[place]
  <2>1. CASE amount = DefaultAmount(tx)
    <3> DEFINE places == <<"tx.amount", "tx.transaction_amount", "tx.value", "data.amount">>
    <3>1. places \in Seq(AmountPlaces)
      BY DEF AmountPlaces
    <3>2. FirstPresent(tx, places) # Missing
      BY <1>3, <2>1 DEF DefaultAmount
    <3> HIDE DEF places
    <3>3. PICK i \in DOMAIN places : places[i] \in DOMAIN tx /\ FirstPresent(tx, places) = tx[places[i]]
      BY <3>1, <3>2, FirstPresentForm
    <3>4. amount = FirstPresent(tx, places)
      BY <2>1 DEF DefaultAmount, places
    <3>5. places[i] \in AmountPlaces
      BY <3>1
    <3> QED BY <3>3, <3>4, <3>5
  <2>2. CASE amount = CamtAmount(tx)
    <3> DEFINE places == <<"Amount", "details.Amount">>
    <3>1. places \in Seq(AmountPlaces)
      BY DEF AmountPlaces
    <3>2. FirstPresent(tx, places) # Missing
      BY <1>3, <2>2 DEF CamtAmount
    <3> HIDE DEF places
    <3>3. PICK i \in DOMAIN places : places[i] \in DOMAIN tx /\ FirstPresent(tx, places) = tx[places[i]]
      BY <3>1, <3>2, FirstPresentForm
    <3>4. amount = FirstPresent(tx, places)
      BY <2>2 DEF CamtAmount, places
    <3>5. places[i] \in AmountPlaces
      BY <3>1
    <3> QED BY <3>3, <3>4, <3>5
  <2> QED BY <2>1, <2>2
<1>5. PICK place \in DOMAIN tx \cap AmountPlaces : amount = tx[place]
  BY <1>4
<1>6. RightlySigned(shown(amount), amount, Indicator(tx))
  BY <1>3, <1>5, MappedAmountSigned
<1> QED BY <1>2, <1>5, <1>6

-----------------------------------------------------------------------------
(* Currencies.                                                               *)

\* A place that is found is the first: none before it holds a value.
LEMMA FirstPlaceFirst ==
  ASSUME NEW tx, NEW D, NEW places \in Seq(D), \E i \in DOMAIN places : places[i] \in DOMAIN tx
  PROVE  \E i \in DOMAIN places :
           /\ FirstPlace(tx, places) = places[i] /\ places[i] \in DOMAIN tx
           /\ \A j \in DOMAIN places : j < i => places[j] \notin DOMAIN tx
<1> DEFINE held == {k \in DOMAIN places : places[k] \in DOMAIN tx}
<1>1. held \subseteq Nat /\ held # {}
  OBVIOUS
<1>2. PICK i \in held : \A j \in held : i <= j
  BY <1>1, LeastExists
<1>3. \A j \in DOMAIN places : j < i => places[j] \notin DOMAIN tx
  BY <1>1, <1>2
<1>4. FirstPlace(tx, places) = places[i]
  BY <1>2, <1>3, FirstPlaceIs
<1> QED BY <1>2, <1>3, <1>4

\* More places at the end make no difference to a place that is found.
LEMMA FirstPlaceExtends ==
  ASSUME NEW tx, NEW D, NEW places \in Seq(D), NEW more \in Seq(D),
         \A i \in DOMAIN places : i \in DOMAIN more /\ more[i] = places[i],
         \E i \in DOMAIN places : places[i] \in DOMAIN tx
  PROVE  FirstPlace(tx, more) = FirstPlace(tx, places)
<1>1. PICK i \in DOMAIN places :
        /\ FirstPlace(tx, places) = places[i] /\ places[i] \in DOMAIN tx
        /\ \A j \in DOMAIN places : j < i => places[j] \notin DOMAIN tx
  BY FirstPlaceFirst
<1>2. \A j \in DOMAIN more : j < i => j \in DOMAIN places
  OBVIOUS
<1>3. \A j \in DOMAIN more : j < i => more[j] \notin DOMAIN tx
  BY <1>1, <1>2
<1>4. i \in DOMAIN more /\ more[i] = places[i]
  OBVIOUS
<1>5. FirstPlace(tx, more) = more[i]
  BY <1>1, <1>3, <1>4, FirstPlaceIs
<1> QED BY <1>1, <1>4, <1>5

LEMMA FirstPresentOne ==
  ASSUME NEW tx, NEW place, place \notin DOMAIN tx
  PROVE  FirstPresent(tx, <<place>>) = Missing
<1>1. FirstPlace(tx, <<place>>) = Missing
  BY FirstPlaceNone
<1> QED BY <1>1 DEF FirstPresent

\* The places of DefaultAmount, then those of CamtAmount.
DefaultPlaces == <<"tx.amount", "tx.transaction_amount", "tx.value", "data.amount">>
BothPlaces == <<"tx.amount", "tx.transaction_amount", "tx.value", "data.amount", "Amount", "details.Amount">>

\* An entry whose first amount stands in a frame is mapped as CAMT.
LEMMA CamtAppliesToAmount ==
  ASSUME NEW tx,
         \/ "Amount" \in DOMAIN tx /\ tx["Amount"].frame # "bare"
         \/ /\ "Amount" \notin DOMAIN tx /\ "details.Amount" \in DOMAIN tx
            /\ tx["details.Amount"].frame # "bare"
  PROVE  CamtApplies(tx)
<1> DEFINE places == CamtPlaces
<1>1. places \in Seq({places[i] : i \in DOMAIN places})
  BY DEF CamtPlaces
<1>2. 3 \in DOMAIN places /\ places[3] = "Amount"
  BY DEF CamtPlaces
<1>3. 4 \in DOMAIN places /\ places[4] = "details.Amount"
  BY DEF CamtPlaces
<1>4. \A k \in DOMAIN places : k \in Nat /\ (places[k] = "details.Amount" => k = 4)
  BY DEF CamtPlaces
<1>5. CamtApplies(tx) <=>
        /\ FirstPlace(tx, places) # Missing
        /\ FirstPlace(tx, places) \in {"Amount", "details.Amount"} =>
             ~ (/\ tx[FirstPlace(tx, places)].frame = "bare" /\ tx[FirstPlace(tx, places)].form = "number"
                /\ tx[FirstPlace(tx, places)].number = 0)
  BY DEF CamtApplies
<1> HIDE DEF places
<1>6. PICK i \in DOMAIN places :
        /\ FirstPlace(tx, places) = places[i] /\ places[i] \in DOMAIN tx
        /\ \A j \in DOMAIN places : j < i => places[j] \notin DOMAIN tx
  BY <1>1, <1>2, <1>3, FirstPlaceFirst
<1>8. FirstPlace(tx, places) # Missing
  BY <1>6, MissingAssumption DEF places
<1>9. places[i] = "details.Amount" => "Amount" \notin DOMAIN tx
  BY <1>2, <1>3, <1>4, <1>6
<1>7. places[i] \in {"Amount", "details.Amount"} => tx[places[i]].frame # "bare"
  BY <1>6, <1>9
<1> QED BY <1>5, <1>6, <1>7, <1>8

\* An amount that names its currency, in an entry that names none, is shown in it, unless
\* the details' currency is found first.
LEMMA RowCurrency ==
  ASSUME NEW tx,
         \A place \in DOMAIN tx \cap AmountPlaces :
           /\ tx[place] # Missing /\ tx[place].currency \in Currencies
           /\ tx[place].form = "opaque" \/ tx[place].frame = "bare" => tx[place].currency = "none",
         DOMAIN tx \cap {"tx.currency", "data.currency", "Currency"} = {},
         FirstPresent(tx, BothPlaces) # Missing,
         FirstPresent(tx, BothPlaces).currency # "none",
         FirstPlace(tx, BothPlaces) = "Amount" =>
           FirstPresent(tx, BothPlaces).frame = "camt" \/ CamtCurrency(tx, "details.Amount") = Missing
  PROVE  NormalizeTransaction(tx)["currency"] = FirstPresent(tx, BothPlaces).currency
<1> DEFINE first == FirstPresent(tx, BothPlaces)
           default == DefaultMapping(tx)["currency"]
           camt == CamtMapping(tx)["currency"]
<1>1. NormalizeTransaction(tx)["currency"] = IF default = Missing /\ CamtApplies(tx) THEN camt ELSE default
  BY DEF NormalizeTransaction, Fields
<1>2. BothPlaces \in Seq(AmountPlaces) /\ DefaultPlaces \in Seq(AmountPlaces)
  BY DEF BothPlaces, DefaultPlaces, AmountPlaces
<1>3. FirstPresent(tx, <<"tx.currency">>) = Missing /\ FirstPresent(tx, <<"data.currency">>) = Missing
  BY FirstPresentOne
<1>4. default = CurrencyOf(DefaultAmount(tx))
  BY <1>3 DEF DefaultMapping, FirstCurrency
<1>5. DefaultAmount(tx) = FirstPresent(tx, DefaultPlaces)
  BY DEF DefaultAmount, DefaultPlaces
<1>6. CASE \E i \in DOMAIN DefaultPlaces : DefaultPlaces[i] \in DOMAIN tx
  <2>1. \A i \in DOMAIN DefaultPlaces : i \in DOMAIN BothPlaces /\ BothPlaces[i] = DefaultPlaces[i]
    BY DEF BothPlaces, DefaultPlaces
  <2>2. FirstPlace(tx, BothPlaces) = FirstPlace(tx, DefaultPlaces)
    BY <1>2, <1>6, <2>1, FirstPlaceExtends
  <2>3. DefaultAmount(tx) = first
    BY <1>5, <2>2 DEF FirstPresent
  <2>4. PICK i \in DOMAIN BothPlaces : BothPlaces[i] \in DOMAIN tx /\ first = tx[BothPlaces[i]]
    BY <1>2, FirstPresentForm
  <2>5. BothPlaces[i] \in AmountPlaces
    BY DEF BothPlaces, AmountPlaces
  <2>6. first.currency \in Currencies /\ first.form # "opaque"
    BY <2>4, <2>5
  <2>7. CurrencyOf(first) = first.currency
    BY <2>6 DEF CurrencyOf
  <2> QED BY <1>1, <1>4, <2>3, <2>6, <2>7, MissingAssumption
<1>7. CASE ~ \E i \in DOMAIN DefaultPlaces : DefaultPlaces[i] \in DOMAIN tx
  <2>1. default = Missing
    <3>1. FirstPlace(tx, DefaultPlaces) = Missing
      BY <1>7, FirstPlaceNone
    <3> QED BY <1>4, <1>5, <3>1 DEF FirstPresent, CurrencyOf
  <2>2. camt = CamtCurrencyField(tx)
    BY DEF CamtMapping
  <2>3. /\ "tx.amount" \notin DOMAIN tx /\ "tx.transaction_amount" \notin DOMAIN tx
        /\ "tx.value" \notin DOMAIN tx /\ "data.amount" \notin DOMAIN tx
    BY <1>7 DEF DefaultPlaces
  <2>4. CASE "Amount" \in DOMAIN tx
    <3>1. FirstPlace(tx, BothPlaces) = "Amount"
      <4>1. 5 \in DOMAIN BothPlaces /\ BothPlaces[5] = "Amount"
        BY DEF BothPlaces
      <4>2. \A j \in DOMAIN BothPlaces : j < 5 => BothPlaces[j] \notin DOMAIN tx
        BY <2>3 DEF BothPlaces
      <4> QED BY <1>2, <2>4, <4>1, <4>2, FirstPlaceIs
    <3>2. first = tx["Amount"] /\ "Amount" # Missing
      BY <3>1, MissingAssumption DEF FirstPresent
    <3>3. first.currency \in Currencies /\ first.frame # "bare" /\ CurrencyOf(first) = first.currency
      BY <2>4, <3>2 DEF AmountPlaces, CurrencyOf
    <3>6. CamtAmount(tx) = first
      <4>1. FirstPlace(tx, <<"Amount", "details.Amount">>) = "Amount"
        <5> DEFINE places == <<"Amount", "details.Amount">>
        <5>1. places \in Seq(AmountPlaces) /\ 1 \in DOMAIN places /\ places[1] = "Amount"
          BY DEF AmountPlaces
        <5>2. \A j \in DOMAIN places : j < 1 => places[j] \notin DOMAIN tx
          OBVIOUS
        <5> HIDE DEF places
        <5>3. FirstPlace(tx, places) = "Amount"
          BY <2>4, <5>1, <5>2, FirstPlaceIs
        <5> QED BY <5>3 DEF places
      <4> QED BY <3>2, <4>1 DEF CamtAmount, FirstPresent
    <3>4. CamtCurrencyField(tx) = first.currency
      <4>1. "Currency" \notin DOMAIN tx
        OBVIOUS
      <4>2. CASE first.frame = "camt"
        <5>1. CamtCurrency(tx, "Amount") = first.currency
          BY <2>4, <3>2, <4>2 DEF CamtCurrency
        <5> QED BY <3>3, <4>1, <5>1, MissingAssumption DEF CamtCurrencyField
      <4>3. CASE first.frame # "camt"
        <5>1. CamtCurrency(tx, "Amount") = Missing /\ CamtCurrency(tx, "details.Amount") = Missing
          BY <2>4, <3>1, <3>2, <4>3 DEF CamtCurrency
        <5> QED BY <3>3, <3>6, <4>1, <5>1 DEF CamtCurrencyField
      <4> QED BY <4>2, <4>3
    <3>5. CamtApplies(tx)
      <4>1. tx["Amount"].frame # "bare"
        BY <3>2, <3>3
      <4> QED BY <2>4, <4>1, CamtAppliesToAmount
    <3> QED BY <1>1, <2>1, <2>2, <3>4, <3>5
  <2>5. CASE "Amount" \notin DOMAIN tx
    <3>1. PICK i \in DOMAIN BothPlaces : BothPlaces[i] \in DOMAIN tx /\ first = tx[BothPlaces[i]]
      BY <1>2, FirstPresentForm
    <3>2. BothPlaces[i] = "details.Amount"
      BY <2>3, <2>5, <3>1 DEF BothPlaces
    <3>3. "details.Amount" \in DOMAIN tx /\ first = tx["details.Amount"]
      BY <3>1, <3>2
    <3>6. first.currency \in Currencies /\ first.frame # "bare" /\ CurrencyOf(first) = first.currency
      BY <3>3 DEF AmountPlaces, CurrencyOf
    <3>7. CamtAmount(tx) = first
      <4>1. FirstPlace(tx, <<"Amount", "details.Amount">>) = "details.Amount"
        <5> DEFINE places == <<"Amount", "details.Amount">>
        <5>1. places \in Seq(AmountPlaces) /\ 2 \in DOMAIN places /\ places[2] = "details.Amount"
          BY DEF AmountPlaces
        <5>2. \A j \in DOMAIN places : j < 2 => places[j] \notin DOMAIN tx
          BY <2>5
        <5> HIDE DEF places
        <5>3. FirstPlace(tx, places) = "details.Amount"
          BY <3>3, <5>1, <5>2, FirstPlaceIs
        <5> QED BY <5>3 DEF places
      <4>2. "details.Amount" # Missing
        BY MissingAssumption DEF PartyPlaces, CamtPlaces
      <4> QED BY <3>3, <4>1, <4>2 DEF CamtAmount, FirstPresent
    <3>4. CamtCurrencyField(tx) = first.currency
      <4>1. "Currency" \notin DOMAIN tx /\ CamtCurrency(tx, "Amount") = Missing
        BY <2>5 DEF CamtCurrency
      <4>2. CamtCurrency(tx, "details.Amount") \in {Missing, first.currency}
        BY <3>3 DEF CamtCurrency
      <4> QED BY <3>6, <3>7, <4>1, <4>2 DEF CamtCurrencyField
    <3>5. CamtApplies(tx)
      <4>1. tx["details.Amount"].frame # "bare"
        BY <3>3, <3>6
      <4> QED BY <2>5, <3>3, <4>1, CamtAppliesToAmount
    <3> QED BY <1>1, <2>1, <2>2, <3>4, <3>5
  <2> QED BY <2>4, <2>5
<1> QED BY <1>6, <1>7

-----------------------------------------------------------------------------
(* Names and accounts of parties.                                            *)

\* Two lists of places whose positions in pairs belong together, in the same order: both
\* places of a pair hold the same or nothing, and all other places hold nothing.
Together(tx, names, ibans, pairs) ==
  /\ \A i \in DOMAIN names : names[i] \in DOMAIN tx => \E j \in DOMAIN ibans : <<i, j>> \in pairs
  /\ \A j \in DOMAIN ibans : ibans[j] \in DOMAIN tx => \E i \in DOMAIN names : <<i, j>> \in pairs
  /\ \A i, k \in DOMAIN names : \A j, l \in DOMAIN ibans :
       <<i, j>> \in pairs /\ <<k, l>> \in pairs => (i < k <=> j < l)
  /\ \A i \in DOMAIN names : \A j \in DOMAIN ibans : <<i, j>> \in pairs =>
       /\ names[i] \in DOMAIN tx <=> ibans[j] \in DOMAIN tx
       /\ names[i] \in DOMAIN tx => tx[names[i]] = tx[ibans[j]]
       /\ names[i] # Missing /\ ibans[j] # Missing

\* What is found first in one list is what is found first in the other.
LEMMA PairedPresent ==
  ASSUME NEW tx, NEW D, NEW names \in Seq(D), NEW ibans \in Seq(D),
         NEW pairs, Together(tx, names, ibans, pairs)
  PROVE  FirstPresent(tx, names) = FirstPresent(tx, ibans)
<1> USE DEF Together
<1>1. CASE \E i \in DOMAIN names : names[i] \in DOMAIN tx
  <2>1. PICK i \in DOMAIN names :
          /\ FirstPlace(tx, names) = names[i] /\ names[i] \in DOMAIN tx
          /\ \A k \in DOMAIN names : k < i => names[k] \notin DOMAIN tx
    BY <1>1, FirstPlaceFirst
  <2>2. PICK j \in DOMAIN ibans : <<i, j>> \in pairs
    BY <2>1
  <2>3. ibans[j] \in DOMAIN tx
    BY <2>1, <2>2
  <2>4. ASSUME NEW l \in DOMAIN ibans, l < j, ibans[l] \in DOMAIN tx PROVE FALSE
    <3>1. PICK k \in DOMAIN names : <<k, l>> \in pairs
      BY <2>4
    <3>2. k < i /\ names[k] \in DOMAIN tx
      BY <2>2, <2>4, <3>1
    <3> QED BY <2>1, <3>2
  <2>5. FirstPlace(tx, ibans) = ibans[j]
    BY <2>3, <2>4, FirstPlaceIs
  <2>6. names[i] # Missing /\ ibans[j] # Missing /\ tx[names[i]] = tx[ibans[j]]
    BY <2>1, <2>2
  <2> QED BY <2>1, <2>5, <2>6 DEF FirstPresent
<1>2. CASE ~ \E i \in DOMAIN names : names[i] \in DOMAIN tx
  <2>1. \A j \in DOMAIN ibans : ibans[j] \notin DOMAIN tx
    BY <1>2
  <2>2. FirstPlace(tx, names) = Missing /\ FirstPlace(tx, ibans) = Missing
    BY <1>2, <2>1, FirstPlaceNone
  <2> QED BY <2>2 DEF FirstPresent
<1> QED BY <1>1, <1>2

\* Entries that give name and account of every party together, in the places of PartyPlaces.
Paired(tx) ==
  /\ DOMAIN tx \cap {"flat.Creditor", "flat.Debtor", "flat.details.CreditorAccount",
                     "flat.details.DebtorAccount", "tx.recipient_name", "tx.account",
                     "data.applicant_bin"} = {}
  /\ \A places \in PartyPlaces :
       /\ places[1] \in DOMAIN tx <=> places[2] \in DOMAIN tx
       /\ places[1] \in DOMAIN tx => tx[places[1]] = tx[places[2]]

\* The places of a list that is made of two.
LEMMA ConcatForm ==
  ASSUME NEW D, NEW a \in Seq(D), NEW b \in Seq(D)
  PROVE  /\ a \o b \in Seq(D) /\ Len(a \o b) = Len(a) + Len(b)
         /\ \A i \in 1 .. Len(a) : (a \o b)[i] = a[i]
         /\ \A i \in 1 .. Len(b) : (a \o b)[Len(a) + i] = b[i]
OBVIOUS

\* The default mapping looks for both in the same order.
LEMMA DefaultParty ==
  ASSUME NEW tx, Paired(tx)
  PROVE  FirstPresent(tx, TxNames \o DataNames) = FirstPresent(tx, TxIbans \o DataIbans)
<1> DEFINE D == {"tx.counterparty_name", "tx.name", "tx.other_account_name", "tx.recipient_name",
                 "data.applicant_name", "data.recipient_name",
                 "tx.counterparty_iban", "tx.iban", "tx.account", "tx.other_account",
                 "data.applicant_iban", "data.recipient_iban", "data.applicant_bin"}
           names == TxNames \o DataNames
           ibans == TxIbans \o DataIbans
           pairs == {<<1, 1>>, <<2, 2>>, <<3, 4>>, <<5, 5>>, <<6, 6>>}
<1>1. TxNames \in Seq(D) /\ DataNames \in Seq(D) /\ TxIbans \in Seq(D) /\ DataIbans \in Seq(D)
  BY DEF TxNames, DataNames, TxIbans, DataIbans
<1>2. Len(TxNames) = 4 /\ Len(DataNames) = 2 /\ Len(TxIbans) = 4 /\ Len(DataIbans) = 3
  BY DEF TxNames, DataNames, TxIbans, DataIbans
<1>3. /\ names \in Seq(D) /\ DOMAIN names = 1 .. 6
      /\ names[1] = "tx.counterparty_name" /\ names[2] = "tx.name"
      /\ names[3] = "tx.other_account_name" /\ names[4] = "tx.recipient_name"
      /\ names[5] = "data.applicant_name" /\ names[6] = "data.recipient_name"
  <2> HIDE DEF D
  <2>3. /\ names \in Seq(D) /\ Len(names) = Len(TxNames) + Len(DataNames)
        /\ \A i \in 1 .. Len(TxNames) : names[i] = TxNames[i]
        /\ \A i \in 1 .. Len(DataNames) : names[Len(TxNames) + i] = DataNames[i]
    BY <1>1, ConcatForm
  <2> HIDE DEF names
  <2>1. /\ names \in Seq(D) /\ Len(names) = 6
        /\ \A i \in 1 .. 4 : names[i] = TxNames[i]
        /\ \A i \in 1 .. 2 : names[4 + i] = DataNames[i]
    BY <1>2, <2>3
  <2>2. names[1] = TxNames[1] /\ names[2] = TxNames[2] /\ names[3] = TxNames[3]
        /\ names[4] = TxNames[4] /\ names[4 + 1] = DataNames[1] /\ names[4 + 2] = DataNames[2]
    BY <2>1
  <2> QED BY <2>1, <2>2 DEF TxNames, DataNames
<1>4. /\ ibans \in Seq(D) /\ DOMAIN ibans = 1 .. 7
      /\ ibans[1] = "tx.counterparty_iban" /\ ibans[2] = "tx.iban"
      /\ ibans[3] = "tx.account" /\ ibans[4] = "tx.other_account"
      /\ ibans[5] = "data.applicant_iban" /\ ibans[6] = "data.recipient_iban"
      /\ ibans[7] = "data.applicant_bin"
  <2> HIDE DEF D
  <2>3. /\ ibans \in Seq(D) /\ Len(ibans) = Len(TxIbans) + Len(DataIbans)
        /\ \A i \in 1 .. Len(TxIbans) : ibans[i] = TxIbans[i]
        /\ \A i \in 1 .. Len(DataIbans) : ibans[Len(TxIbans) + i] = DataIbans[i]
    BY <1>1, ConcatForm
  <2> HIDE DEF ibans
  <2>1. /\ ibans \in Seq(D) /\ Len(ibans) = 7
        /\ \A i \in 1 .. 4 : ibans[i] = TxIbans[i]
        /\ \A i \in 1 .. 3 : ibans[4 + i] = DataIbans[i]
    BY <1>2, <2>3
  <2>2. ibans[1] = TxIbans[1] /\ ibans[2] = TxIbans[2] /\ ibans[3] = TxIbans[3] /\ ibans[4] = TxIbans[4]
        /\ ibans[4 + 1] = DataIbans[1] /\ ibans[4 + 2] = DataIbans[2] /\ ibans[4 + 3] = DataIbans[3]
    BY <2>1
  <2> QED BY <2>1, <2>2 DEF TxIbans, DataIbans
<1> HIDE DEF names, ibans, D
<1>5. \A i \in DOMAIN names : names[i] \in DOMAIN tx => \E j \in DOMAIN ibans : <<i, j>> \in pairs
  BY <1>3, <1>4 DEF Paired
<1>6. \A j \in DOMAIN ibans : ibans[j] \in DOMAIN tx => \E i \in DOMAIN names : <<i, j>> \in pairs
  BY <1>3, <1>4 DEF Paired
<1>7. \A i, k \in DOMAIN names : \A j, l \in DOMAIN ibans :
        <<i, j>> \in pairs /\ <<k, l>> \in pairs => (i < k <=> j < l)
  BY <1>3, <1>4
<1>8. \A i \in DOMAIN names : \A j \in DOMAIN ibans :
        <<i, j>> \in pairs => <<names[i], ibans[j]>> \in PartyPlaces
  BY <1>3, <1>4 DEF PartyPlaces
<1> HIDE DEF pairs
<1>9. ASSUME NEW i \in DOMAIN names, NEW j \in DOMAIN ibans, <<i, j>> \in pairs
       PROVE  /\ names[i] \in DOMAIN tx <=> ibans[j] \in DOMAIN tx
              /\ names[i] \in DOMAIN tx => tx[names[i]] = tx[ibans[j]]
              /\ names[i] # Missing /\ ibans[j] # Missing
  BY <1>8, <1>9, MissingAssumption DEF Paired
<1>10. Together(tx, names, ibans, pairs)
  BY <1>5, <1>6, <1>7, <1>9 DEF Together
<1>11. names \in Seq(D) /\ ibans \in Seq(D)
  BY <1>3, <1>4
<1>12. FirstPresent(tx, names) = FirstPresent(tx, ibans)
  BY <1>10, <1>11, PairedPresent
<1> QED BY <1>12 DEF names, ibans

\* So does the mapping of CAMT entries.
LEMMA CamtParty ==
  ASSUME NEW tx, Paired(tx)
  PROVE  FirstPresent(tx, TxNames \o CamtNames \o DataNames) = FirstPresent(tx, TxIbans \o CamtIbans \o DataIbans)
<1> DEFINE D == {"tx.counterparty_name", "tx.name", "tx.other_account_name", "tx.recipient_name",
                 "data.applicant_name", "data.recipient_name",
                 "tx.counterparty_iban", "tx.iban", "tx.account", "tx.other_account",
                 "data.applicant_iban", "data.recipient_iban", "data.applicant_bin",
                 "details.Creditor", "details.Debtor", "Creditor", "Debtor", "flat.Creditor", "flat.Debtor",
                 "details.CreditorAccount", "details.DebtorAccount", "CreditorAccount", "DebtorAccount",
                 "flat.details.CreditorAccount", "flat.details.DebtorAccount"}
           names == TxNames \o CamtNames \o DataNames
           ibans == TxIbans \o CamtIbans \o DataIbans
           pairs == {<<1, 1>>, <<2, 2>>, <<3, 4>>, <<5, 5>>, <<6, 6>>, <<7, 7>>, <<8, 8>>, <<11, 11>>, <<12, 12>>}
<1>1. TxNames \in Seq(D) /\ CamtNames \in Seq(D) /\ DataNames \in Seq(D)
  BY DEF TxNames, CamtNames, DataNames
<1>2. TxIbans \in Seq(D) /\ CamtIbans \in Seq(D) /\ DataIbans \in Seq(D)
  BY DEF TxIbans, CamtIbans, DataIbans
<1>3. /\ Len(TxNames) = 4 /\ Len(CamtNames) = 6 /\ Len(DataNames) = 2
      /\ Len(TxIbans) = 4 /\ Len(CamtIbans) = 6 /\ Len(DataIbans) = 3
  BY DEF TxNames, CamtNames, DataNames, TxIbans, CamtIbans, DataIbans
<1>4. /\ names \in Seq(D) /\ DOMAIN names = 1 .. 12
      /\ names[1] = "tx.counterparty_name" /\ names[2] = "tx.name"
      /\ names[3] = "tx.other_account_name" /\ names[4] = "tx.recipient_name"
      /\ names[5] = "details.Creditor" /\ names[6] = "details.Debtor"
      /\ names[7] = "Creditor" /\ names[8] = "Debtor"
      /\ names[9] = "flat.Creditor" /\ names[10] = "flat.Debtor"
      /\ names[11] = "data.applicant_name" /\ names[12] = "data.recipient_name"
  <2> DEFINE front == TxNames \o CamtNames
  <2> HIDE DEF D
  <2>1. /\ front \in Seq(D) /\ Len(front) = Len(TxNames) + Len(CamtNames)
        /\ \A i \in 1 .. Len(TxNames) : front[i] = TxNames[i]
        /\ \A i \in 1 .. Len(CamtNames) : front[Len(TxNames) + i] = CamtNames[i]
    BY <1>1, ConcatForm
  <2> HIDE DEF front
  <2>2. /\ names \in Seq(D) /\ Len(names) = Len(front) + Len(DataNames)
        /\ \A i \in 1 .. Len(front) : names[i] = front[i]
        /\ \A i \in 1 .. Len(DataNames) : names[Len(front) + i] = DataNames[i]
    BY <1>1, <2>1, ConcatForm DEF front
  <2> HIDE DEF names
  <2>3. /\ names \in Seq(D) /\ Len(names) = 12
        /\ \A i \in 1 .. 4 : names[i] = TxNames[i]
        /\ \A i \in 1 .. 6 : names[4 + i] = CamtNames[i]
        /\ \A i \in 1 .. 2 : names[10 + i] = DataNames[i]
    BY <1>3, <2>1, <2>2
  <2>4. names[1] = TxNames[1] /\ names[2] = TxNames[2] /\ names[3] = TxNames[3] /\ names[4] = TxNames[4]
    BY <2>3
  <2>5. names[4 + 1] = CamtNames[1] /\ names[4 + 2] = CamtNames[2] /\ names[4 + 3] = CamtNames[3]
    BY <2>3
  <2>6. names[4 + 4] = CamtNames[4] /\ names[4 + 5] = CamtNames[5] /\ names[4 + 6] = CamtNames[6]
    BY <2>3
  <2>7. names[10 + 1] = DataNames[1] /\ names[10 + 2] = DataNames[2]
    BY <2>3
  <2> QED BY <2>3, <2>4, <2>5, <2>6, <2>7 DEF TxNames, CamtNames, DataNames
<1>5. /\ ibans \in Seq(D) /\ DOMAIN ibans = 1 .. 13
      /\ ibans[1] = "tx.counterparty_iban" /\ ibans[2] = "tx.iban"
      /\ ibans[3] = "tx.account" /\ ibans[4] = "tx.other_account"
      /\ ibans[5] = "details.CreditorAccount" /\ ibans[6] = "details.DebtorAccount"
      /\ ibans[7] = "CreditorAccount" /\ ibans[8] = "DebtorAccount"
      /\ ibans[9] = "flat.details.CreditorAccount" /\ ibans[10] = "flat.details.DebtorAccount"
      /\ ibans[11] = "data.applicant_iban" /\ ibans[12] = "data.recipient_iban"
      /\ ibans[13] = "data.applicant_bin"
  <2> DEFINE front == TxIbans \o CamtIbans
  <2> HIDE DEF D
  <2>1. /\ front \in Seq(D) /\ Len(front) = Len(TxIbans) + Len(CamtIbans)
        /\ \A i \in 1 .. Len(TxIbans) : front[i] = TxIbans[i]
        /\ \A i \in 1 .. Len(CamtIbans) : front[Len(TxIbans) + i] = CamtIbans[i]
    BY <1>2, ConcatForm
  <2> HIDE DEF front
  <2>2. /\ ibans \in Seq(D) /\ Len(ibans) = Len(front) + Len(DataIbans)
        /\ \A i \in 1 .. Len(front) : ibans[i] = front[i]
        /\ \A i \in 1 .. Len(DataIbans) : ibans[Len(front) + i] = DataIbans[i]
    BY <1>2, <2>1, ConcatForm DEF front
  <2> HIDE DEF ibans
  <2>3. /\ ibans \in Seq(D) /\ Len(ibans) = 13
        /\ \A i \in 1 .. 4 : ibans[i] = TxIbans[i]
        /\ \A i \in 1 .. 6 : ibans[4 + i] = CamtIbans[i]
        /\ \A i \in 1 .. 3 : ibans[10 + i] = DataIbans[i]
    BY <1>3, <2>1, <2>2
  <2>4. ibans[1] = TxIbans[1] /\ ibans[2] = TxIbans[2] /\ ibans[3] = TxIbans[3] /\ ibans[4] = TxIbans[4]
    BY <2>3
  <2>5. ibans[4 + 1] = CamtIbans[1] /\ ibans[4 + 2] = CamtIbans[2] /\ ibans[4 + 3] = CamtIbans[3]
    BY <2>3
  <2>6. ibans[4 + 4] = CamtIbans[4] /\ ibans[4 + 5] = CamtIbans[5] /\ ibans[4 + 6] = CamtIbans[6]
    BY <2>3
  <2>7. ibans[10 + 1] = DataIbans[1] /\ ibans[10 + 2] = DataIbans[2] /\ ibans[10 + 3] = DataIbans[3]
    BY <2>3
  <2> QED BY <2>3, <2>4, <2>5, <2>6, <2>7 DEF TxIbans, CamtIbans, DataIbans
<1> HIDE DEF names, ibans, D
<1>6. \A i \in DOMAIN names : names[i] \in DOMAIN tx => \E j \in DOMAIN ibans : <<i, j>> \in pairs
  <2>1. ASSUME NEW i \in 1 .. 12, names[i] \in DOMAIN tx PROVE i \notin {4, 9, 10}
    BY <1>4, <2>1 DEF Paired
  <2>2. \A i \in 1 .. 12 : i \notin {4, 9, 10} => \E j \in 1 .. 13 : <<i, j>> \in pairs
    OBVIOUS
  <2> HIDE DEF pairs
  <2> QED BY <1>4, <1>5, <2>1, <2>2
<1>7. \A j \in DOMAIN ibans : ibans[j] \in DOMAIN tx => \E i \in DOMAIN names : <<i, j>> \in pairs
  <2>1. ASSUME NEW j \in 1 .. 13, ibans[j] \in DOMAIN tx PROVE j \notin {3, 9, 10, 13}
    BY <1>5, <2>1 DEF Paired
  <2>2. \A j \in 1 .. 13 : j \notin {3, 9, 10, 13} => \E i \in 1 .. 12 : <<i, j>> \in pairs
    OBVIOUS
  <2> HIDE DEF pairs
  <2> QED BY <1>4, <1>5, <2>1, <2>2
<1>8. \A i, k \in DOMAIN names : \A j, l \in DOMAIN ibans :
        <<i, j>> \in pairs /\ <<k, l>> \in pairs => (i < k <=> j < l)
  BY <1>4, <1>5
<1>9. \A i \in DOMAIN names : \A j \in DOMAIN ibans :
        <<i, j>> \in pairs => <<names[i], ibans[j]>> \in PartyPlaces
  BY <1>4, <1>5 DEF PartyPlaces
<1> HIDE DEF pairs
<1>10. ASSUME NEW i \in DOMAIN names, NEW j \in DOMAIN ibans, <<i, j>> \in pairs
       PROVE  /\ names[i] \in DOMAIN tx <=> ibans[j] \in DOMAIN tx
              /\ names[i] \in DOMAIN tx => tx[names[i]] = tx[ibans[j]]
              /\ names[i] # Missing /\ ibans[j] # Missing
  BY <1>9, <1>10, MissingAssumption DEF Paired
<1>11. Together(tx, names, ibans, pairs)
  BY <1>6, <1>7, <1>8, <1>10 DEF Together
<1>12. names \in Seq(D) /\ ibans \in Seq(D)
  BY <1>4, <1>5
<1>13. FirstPresent(tx, names) = FirstPresent(tx, ibans)
  BY <1>11, <1>12, PairedPresent
<1> QED BY <1>13 DEF names, ibans

\* Name and account in a row are those of one party, whichever mapping found them.
LEMMA RowParty ==
  ASSUME NEW tx, Paired(tx)
  PROVE  NormalizeTransaction(tx)["counterparty_name"] = NormalizeTransaction(tx)["counterparty_iban"]
<1>1. DefaultMapping(tx)["counterparty_name"] = DefaultMapping(tx)["counterparty_iban"]
  BY DefaultParty DEF DefaultMapping
<1>2. CamtMapping(tx)["counterparty_name"] = CamtMapping(tx)["counterparty_iban"]
  BY CamtParty DEF CamtMapping
<1>3. \A field \in Fields : NormalizeTransaction(tx)[field] =
        IF DefaultMapping(tx)[field] = Missing /\ CamtApplies(tx) THEN CamtMapping(tx)[field]
                                                                  ELSE DefaultMapping(tx)[field]
  BY DEF NormalizeTransaction
<1>4. "counterparty_name" \in Fields /\ "counterparty_iban" \in Fields
  BY DEF Fields
<1> QED BY <1>1, <1>2, <1>3, <1>4

=============================================================================
