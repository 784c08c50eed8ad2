---------------------------- MODULE TanSelection ----------------------------
(*****************************************************************************)
(* Which TAN mechanism a FinTSClient works with: the preparation of a new    *)
(* python-fints client (FinTSClientRuntimeMixin._prepare_client) and the     *)
(* local patch of python-fints' own selection (helpers.py).                  *)
(*                                                                           *)
(* A client is a record: current, the mechanism it has selected, and known,  *)
(* those get_tan_mechanisms returns, in the bank's order.  A bank is a       *)
(* record: methods, the mechanisms it advertises, in order; allowed, those   *)
(* the user may use; process and implemented, what python-fints thinks of    *)
(* each; announces, whether it says so (code 3920); ing, whether it is the   *)
(* patched bank.                                                             *)
(*****************************************************************************)
EXTENDS Naturals, Sequences

CONSTANTS
  TwoStepCodes,   \* security functions of two-step mechanisms
  OneStep,        \* "999"
  NoMechanism     \* None

ASSUME MechanismAssumption ==
  /\ OneStep \notin TwoStepCodes
  /\ NoMechanism \notin TwoStepCodes \cup {OneStep}

Mechanism == TwoStepCodes \cup {OneStep, NoMechanism}

\* The first element of a sequence in S, or NoMechanism.
FirstIn(seq, S) ==
  LET hits == {i \in DOMAIN seq : seq[i] \in S}
  IN IF hits = {} THEN NoMechanism
     ELSE seq[CHOOSE i \in hits : \A j \in hits : i <= j]

\* What both selections take for usable: no one-step mechanism, allowed to the user,
\* process variant 2, and not refused by set_tan_mechanism (NotImplementedError).
Usable(bank) == {c \in bank.allowed \cap bank.implemented : c # OneStep /\ bank.process[c] = "2"}

\* _select_two_step_tan_mechanism
SelectTwoStep(client, bank) == FirstIn(bank.methods, client.known \cap Usable(bank))

\* _apply_ing_two_step_tan_selection, which runs before python-fints' own handling.
IngSelection(client, bank) ==
  LET selected == SelectTwoStep(client, bank)
  IN IF ~bank.ing \/ client.current \in bank.allowed \/ selected = NoMechanism THEN client
     ELSE [client EXCEPT !.current = selected]

\* python-fints on code 3920: a mechanism the user may not use is replaced by the first
\* usable one, or by one-step TAN.
OwnSelection(client, bank) ==
  LET selected == SelectTwoStep(client, bank)
  IN IF client.current \in bank.allowed THEN client
     ELSE [client EXCEPT !.current = IF selected = NoMechanism THEN OneStep ELSE selected]

\* python-fints knows of the bank's mechanisms those it was told the user may use.
Told(client, bank) ==
  [client EXCEPT !.known = {bank.methods[i] : i \in DOMAIN bank.methods} \cap bank.allowed]

\* patched_process_response for the code 3920
ProcessResponse(client, bank) == OwnSelection(IngSelection(Told(client, bank), bank), bank)

\* python-fints' fetch_tan_mechanisms: a dialog with one-step TAN.
FetchTanMechanisms(client, bank) ==
  LET asking == [client EXCEPT !.current = OneStep]
  IN IF bank.announces THEN ProcessResponse(asking, bank) ELSE asking

ApplyTanOverride(client, wanted) ==
  IF wanted = NoMechanism THEN client ELSE [client EXCEPT !.current = wanted]

\* bootstrap_client: an override made first keeps the mechanisms from being fetched.
Bootstrap(client, config, bank) ==
  LET asked == IF config.before THEN ApplyTanOverride(client, config.wanted) ELSE client
  IN IF asked.current = NoMechanism THEN FetchTanMechanisms(asked, bank) ELSE asked

\* Mutant: the promotion leaves the choice between several mechanisms to nobody.
PromoteSingleOnly(client, bank) ==
  LET codes == client.known \cap TwoStepCodes
      code  == FirstIn(bank.methods, codes)
  IN IF client.current \in client.known \/ code = NoMechanism \/ codes # {code} THEN client
     ELSE [client EXCEPT !.current = code]

\* promote_two_step_tan: a client whose mechanism the bank does not advertise gets the
\* first two-step one, whatever its process variant.
PromoteTwoStepTan(client, bank) ==
  LET code == FirstIn(bank.methods, client.known \cap TwoStepCodes)
  IN IF client.current \in client.known \/ code = NoMechanism THEN client
     ELSE [client EXCEPT !.current = code]

NewClient == [current |-> NoMechanism, known |-> {}]

\* Mutant: the override is made before the promotion in either case.
PreparedOverridingFirst(config, bank) ==
  PromoteTwoStepTan(ApplyTanOverride(Bootstrap(NewClient, config, bank), config.wanted), bank)

\* _prepare_client
Prepared(config, bank) ==
  LET promoted == PromoteTwoStepTan(Bootstrap(NewClient, config, bank), bank)
  IN IF config.before THEN promoted ELSE ApplyTanOverride(promoted, config.wanted)

=============================================================================
