SPECIFICATION LiveSpec
CONSTANTS
  TwoStepCodes <- MCTwoStepCodes
  OneStep <- MCOneStep
  NoMechanism = NoMechanism
  Missing = Missing
  Absent = Absent
  Repr <- MCRepr
  Accounts <- MCAccounts
  Needles <- MCNeedles
  Configs <- MCConfigs
  Banks <- MCBanks
  Transactions <- MCTransactions
  TanScopes = {"dialog", "request"}
INVARIANTS
  TypeOK
  WaitingBankIsSeen
  NoFalseSuccess
  AnswerIsComplete
  InformationIsOwn
  ConfiguredMechanismWins
  TwoStepIsUsed
  DebitIsNegative
  CounterpartyIsOneParty
  AmountKeepsCurrency
PROPERTIES
  ReadEnds
  ReadDescends
CHECK_DEADLOCK FALSE
