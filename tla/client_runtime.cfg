SPECIFICATION Spec
CONSTANTS
  Names = {n1}
  NoName = NoName
  BankAnswers = {"tan", "vop", "ok", "validation", "capability", "error", "raised", "transfer_result", "other_result"}
  MaxChallenges = 4
INVARIANTS
  TypeOK
  TanIsForShown
  OrderHasChallenge
PROPERTY FacadeSpec
