SPECIFICATION Spec
CONSTANTS
  Threads = {t1}
  Ids = {i1}
  NoId = NoId
  Absent = Absent
  Names = {n1}
  NoName = NoName
  Served = {"transfer"}
  BankAnswers = {"tan", "decoupled", "vop", "ok", "validation", "capability", "error", "transfer_result", "other_result"}
  SessionTTL = 1
  MaxAccepted = 0
INVARIANT RunningIsTransient
