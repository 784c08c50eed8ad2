SPECIFICATION CallsSpec
CONSTANTS
  Threads = {t1}
  Ids = {i1, i2}
  NoId = NoId
  Absent = Absent
  Names = {n1, n2}
  NoName = NoName
  Served = {"accounts", "transfer"}
  BankAnswers = {"tan", "decoupled", "vop", "ok", "validation", "capability", "error", "raised", "transfer_result", "other_result"}
  SessionTTL = 2
  MaxAccepted = 2
SYMMETRY Symmetry
INVARIANTS
  WaitingCanContinue
  GoneMeansClosed
  SessionLookupReplies
PROPERTIES
  AcceptedNameIsCurrent
  ExpiredOnlyWhenIdle
  ObjectCalls
