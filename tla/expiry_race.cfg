SPECIFICATION Spec
CONSTANTS
  Threads = {t1, t2}
  Ids = {i1}
  NoId = NoId
  Absent = Absent
  Names = {n1}
  NoName = NoName
  Served = {"transfer"}
  BankAnswers = {"tan", "vop", "ok", "error", "transfer_result"}
  SessionTTL = 1
  MaxAccepted = 0
PROPERTY ExpiredOnlyWhenIdle
