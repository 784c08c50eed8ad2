------------------------- MODULE ServerControl_proofs -------------------------
(*****************************************************************************)
(* Proofs about ServerControl, for any number of callers and processes.      *)
(*****************************************************************************)
EXTENDS ServerControl, TLAPS

Control == {"idle", "look", "read", "check", "clear", "launch", "wait",
            "truncate", "write", "signal", "await", "remove"}

\* Where an invocation works with the process it has launched or found.
Holding == {"wait", "truncate", "write", "signal", "await"}

PidInv == \A c \in Callers : pc[c] \in Holding => pid[c] \in Pids

TInv == TypeOK /\ PidInv

\* What one invocation does, and what the operating system does.
Work(c) ==
  \/ Invoke(c) \/ Look(c) \/ Read(c)
  \/ CheckStart(c) \/ Clear(c) \/ Launch(c) \/ PollStarted(c) \/ Truncate(c) \/ Write(c)
  \/ CheckStop(c) \/ Signal(c) \/ Await(c) \/ TimeOut(c) \/ Remove(c)
  \/ CheckStatus(c)

System(p) == Die(p) \/ Reuse(p) \/ OtherEnds(p)

-----------------------------------------------------------------------------
(* Types.                                                                    *)

\* An invocation that moves on keeps the types and its process.
LEMMA GotoType ==
  ASSUME TInv, NEW c \in Callers, NEW where \in Control, Goto(c, where)
  PROVE  /\ pc' \in [Callers -> Control]
         /\ pc'[c] = where /\ \A d \in Callers \ {c} : pc'[d] = pc[d]
BY DEF TInv, TypeOK, Goto, Control

\* An invocation that ends lets go of its process.
LEMMA ExitType ==
  ASSUME TInv, NEW c \in Callers, NEW how \in {"ok", "failed"}, Exit(c, how)
  PROVE  /\ pc' \in [Callers -> Control]
         /\ last' \in [Callers -> {"none", "ok", "failed"}]
         /\ pid' \in [Callers -> Pids \cup {NoPid}]
         /\ pc'[c] = "idle" /\ last'[c] = how
         /\ \A d \in Callers \ {c} : pc'[d] = pc[d] /\ pid'[d] = pid[d] /\ last'[d] = last[d]
BY DEF TInv, TypeOK, Exit, Goto, Control

\* A step of an invocation keeps the types.
LEMMA WorkType ==
  ASSUME TInv, NEW c \in Callers, Work(c)
  PROVE  TInv'
<1> USE DEF TInv, TypeOK, PidInv, Holding, Control
<1>1. CASE Invoke(c)
  BY <1>1 DEF Invoke, Goto
<1>2. CASE Look(c)
  BY <1>2 DEF Look, Goto
<1>3. CASE Read(c)
  <2>1. CASE file = Missing /\ Exit(c, "failed")
    BY <1>3, <2>1, ExitType DEF Read
  <2>2. CASE /\ file # Missing
             /\ pid' = [pid EXCEPT ![c] = IF file = Empty THEN NoPid ELSE file]
             /\ Goto(c, "check")
             /\ UNCHANGED last
    <3>1. pid' \in [Callers -> Pids \cup {NoPid}]
      BY <2>2
    <3> QED BY <1>3, <2>2, <3>1 DEF Read, Goto
  <2> QED BY <1>3, <2>1, <2>2 DEF Read
<1>4. CASE CheckStart(c)
  BY <1>4, ExitType DEF CheckStart, Goto
<1>5. CASE Clear(c)
  BY <1>5 DEF Clear, Goto
<1>6. CASE Launch(c)
  BY <1>6 DEF Launch, Goto
<1>7. CASE PollStarted(c)
  <2>1. CASE proc[pid[c]] = "zombie"
    <3>1. proc' = [proc EXCEPT ![pid[c]] = "free"] /\ Exit(c, "failed")
      BY <1>7, <2>1 DEF PollStarted
    <3> QED BY <1>7, <3>1, ExitType DEF PollStarted
  <2>2. CASE proc[pid[c]] # "zombie"
    BY <1>7, <2>2 DEF PollStarted, Goto
  <2> QED BY <2>1, <2>2
<1>8. CASE Truncate(c)
  BY <1>8 DEF Truncate, Goto
<1>9. CASE Write(c)
  <2>1. pid[c] \in Pids
    BY <1>9 DEF Write
  <2>2. proc' \in [Pids -> {"free", "server", "stopping", "zombie", "other"}]
    BY <1>9, <2>1 DEF Write
  <2>3. Exit(c, "ok")
    BY <1>9 DEF Write
  <2> QED BY <1>9, <2>1, <2>2, <2>3, ExitType DEF Write
<1>10. CASE CheckStop(c)
  <2>1. Exists(pid[c]) => pid[c] \in Pids
    BY DEF Exists
  <2> QED BY <1>10, <2>1 DEF CheckStop, Goto
<1>11. CASE Signal(c)
  <2>1. CASE Exit(c, "failed") /\ UNCHANGED proc
    BY <1>11, <2>1, ExitType DEF Signal
  <2>2. CASE /\ proc' = [proc EXCEPT ![pid[c]] = IF @ = "server" THEN "stopping" ELSE @]
             /\ Goto(c, "await")
             /\ UNCHANGED <<pid, last>>
    <3>1. proc' \in [Pids -> {"free", "server", "stopping", "zombie", "other"}]
      BY <2>2
    <3> QED BY <1>11, <2>2, <3>1 DEF Signal, Goto
  <2> QED BY <1>11, <2>1, <2>2 DEF Signal
<1>12. CASE Await(c)
  BY <1>12 DEF Await, Goto
<1>13. CASE TimeOut(c)
  BY <1>13, ExitType DEF TimeOut
<1>14. CASE Remove(c)
  BY <1>14, ExitType DEF Remove
<1>15. CASE CheckStatus(c)
  BY <1>15, ExitType DEF CheckStatus
<1> QED BY <1>1, <1>2, <1>3, <1>4, <1>5, <1>6, <1>7, <1>8, <1>9, <1>10, <1>11, <1>12,
           <1>13, <1>14, <1>15 DEF Work

\* The operating system starts and ends processes, but no server.
LEMMA SystemStep ==
  ASSUME TInv, NEW p \in Pids, System(p)
  PROVE  /\ TInv'
         /\ Servers' \subseteq Servers
         /\ UNCHANGED <<file, pc, cmd, pid, last>>
<1>1. UNCHANGED <<file, pc, cmd, pid, last>>
  BY DEF System, Die, Reuse, OtherEnds
<1>2. PICK new \in {"free", "zombie", "other"} : proc' = [proc EXCEPT ![p] = new]
  BY DEF System, Die, Reuse, OtherEnds
<1>3. proc' \in [Pids -> {"free", "server", "stopping", "zombie", "other"}]
  BY <1>2 DEF TInv, TypeOK
<1>4. \A q \in Pids : proc'[q] \in {"server", "stopping"} => proc[q] \in {"server", "stopping"}
  BY <1>2 DEF TInv, TypeOK
<1> QED BY <1>1, <1>3, <1>4 DEF TInv, TypeOK, PidInv, Servers

LEMMA InitType == Init => TInv
BY DEF Init, TInv, TypeOK, PidInv, Holding

\* A step is one of an invocation or of the operating system, or changes nothing.
LEMMA StepCases ==
  ASSUME [Next]_vars
  PROVE  \/ \E c \in Callers : Work(c)
         \/ \E p \in Pids : System(p)
         \/ UNCHANGED vars
BY DEF Next, Work, System

LEMMA TypeStep ==
  ASSUME TInv, [Next]_vars
  PROVE  TInv'
<1>1. CASE UNCHANGED vars
  BY <1>1 DEF vars, TInv, TypeOK, PidInv
<1> QED BY <1>1, StepCases, WorkType, SystemStep

\* Whatever the callers and the operating system do, files, processes and invocations
\* are what cli.py takes them for; an invocation that signals or writes has a process.
THEOREM TypeCorrect == Spec => []TypeOK
<1>1. TInv => TypeOK
  BY DEF TInv
<1> QED BY <1>1, InitType, TypeStep, PTL DEF Spec

-----------------------------------------------------------------------------
(* One operator.                                                             *)

\* What an operator's invocation knows of the servers: none is running when one is
\* launched or the file removed; otherwise any that runs is the one in the file, or the
\* one at hand.
OpInv(c) ==
  /\ pc[c] \in {"idle", "look", "read", "check", "signal", "await"} =>
       \A p \in Servers : p = file
  /\ pc[c] \in {"check"} \cup Holding => \A p \in Servers : p = pid[c]
  /\ pc[c] \in {"clear", "launch", "remove"} => Servers = {}
  /\ pc[c] = "write" => file = Empty
  /\ pc[c] \in {"clear", "launch", "wait", "truncate", "write"} => cmd[c] = "start"
  /\ pc[c] = "idle" /\ cmd[c] = "stop" /\ last[c] = "ok" => Servers = {} /\ file = Missing

\* The others only look.
OthersInv ==
  \A c \in Callers \ Operators :
    pc[c] \in {"idle", "look", "read", "check"} /\ cmd[c] \in {"none", "status"}

IInv == TInv /\ OthersInv /\ \A c \in Operators : OpInv(c)

\* An invocation touches neither the control nor the memory of another.
LEMMA OtherCallers ==
  ASSUME TInv, NEW c \in Callers, Work(c), NEW d \in Callers, d # c
  PROVE  pc'[d] = pc[d] /\ cmd'[d] = cmd[d] /\ pid'[d] = pid[d] /\ last'[d] = last[d]
BY DEF TInv, TypeOK, Work, Invoke, Look, Read, CheckStart, Clear, Launch, PollStarted, Truncate,
       Write, CheckStop, Signal, Await, TimeOut, Remove, CheckStatus, Exit, Goto

\* Someone who asks for the status changes nothing for the operator.
LEMMA OnlookerStep ==
  ASSUME IInv, NEW c \in Callers \ Operators, Work(c)
  PROVE  /\ UNCHANGED <<file, proc>>
         /\ pc'[c] \in {"idle", "look", "read", "check"} /\ cmd'[c] \in {"none", "status"}
<1>1. /\ pc[c] \in {"idle", "look", "read", "check"} /\ cmd[c] \in {"none", "status"}
      /\ pc \in [Callers -> Control] /\ cmd \in [Callers -> {"none", "start", "stop", "status"}]
  BY DEF IInv, OthersInv, TInv, TypeOK, Control
<1>2. Invoke(c) \/ Look(c) \/ Read(c) \/ CheckStatus(c)
  BY <1>1 DEF Work, CheckStart, Clear, Launch, PollStarted, Truncate, Write, CheckStop, Signal,
              Await, TimeOut, Remove
<1> QED BY <1>1, <1>2 DEF Invoke, Look, Read, CheckStatus, Exit, Goto

\* A step of the operator keeps what its invocation knows.
LEMMA OperatorStep ==
  ASSUME TInv, TInv', NEW c \in Callers, c \in Operators, OpInv(c), Work(c)
  PROVE  OpInv(c)'
<1> USE DEF Holding, Servers
<1>0. /\ file \in Pids \cup {Missing, Empty}
      /\ proc \in [Pids -> {"free", "server", "stopping", "zombie", "other"}]
      /\ pc \in [Callers -> Control]
      /\ cmd \in [Callers -> {"none", "start", "stop", "status"}]
      /\ pid \in [Callers -> Pids \cup {NoPid}]
      /\ last \in [Callers -> {"none", "ok", "failed"}]
      /\ pc[c] \in Holding => pid[c] \in Pids
  BY DEF TInv, TypeOK, PidInv, Control
<1>1. CASE Invoke(c)
  BY <1>0, <1>1 DEF OpInv, Invoke, Goto
<1>2. CASE Look(c)
  BY <1>0, <1>2, PidAssumption DEF OpInv, Look, Goto
<1>3. CASE Read(c)
  BY <1>0, <1>3, PidAssumption DEF OpInv, Read, Exit, Goto
<1>4. CASE CheckStart(c)
  <2>1. ~Exists(pid[c]) => \A p \in Servers : p # pid[c]
    BY <1>0, PidAssumption DEF Exists
  <2> QED BY <1>0, <1>4, <2>1 DEF OpInv, CheckStart, Exit, Goto
<1>5. CASE Clear(c)
  BY <1>0, <1>5 DEF OpInv, Clear, Goto
<1>6. CASE Launch(c)
  BY <1>0, <1>6 DEF OpInv, Launch, Goto
<1>7. CASE PollStarted(c)
  BY <1>0, <1>7 DEF OpInv, PollStarted, Exit, Goto
<1>8. CASE Truncate(c)
  BY <1>0, <1>8 DEF OpInv, Truncate, Goto
<1>9. CASE Write(c)
  BY <1>0, <1>9, FileAssumption DEF OpInv, Write, Exit, Goto
<1>10. CASE CheckStop(c)
  <2>1. ~Exists(pid[c]) => \A p \in Servers : p # pid[c]
    BY <1>0, PidAssumption DEF Exists
  <2> QED BY <1>0, <1>10, <2>1 DEF OpInv, CheckStop, Goto
<1>11. CASE Signal(c)
  BY <1>0, <1>11 DEF OpInv, Signal, Exit, Goto
<1>12. CASE Await(c)
  <2>1. ~Exists(pid[c]) => \A p \in Servers : p # pid[c]
    BY <1>0, PidAssumption DEF Exists
  <2> QED BY <1>0, <1>12, <2>1 DEF OpInv, Await, Goto
<1>13. CASE TimeOut(c)
  BY <1>0, <1>13 DEF OpInv, TimeOut, Exit, Goto
<1>14. CASE Remove(c)
  BY <1>0, <1>14 DEF OpInv, Remove, Exit, Goto
<1>15. CASE CheckStatus(c)
  BY <1>0, <1>15 DEF OpInv, CheckStatus, Exit, Goto
<1> QED BY <1>1, <1>2, <1>3, <1>4, <1>5, <1>6, <1>7, <1>8, <1>9, <1>10, <1>11, <1>12,
           <1>13, <1>14, <1>15 DEF Work

LEMMA InitInv == Init => IInv
<1> SUFFICES ASSUME Init PROVE IInv
  OBVIOUS
<1>1. Servers = {}
  BY DEF Init, Servers
<1> QED BY <1>1, InitType, OperatorsAssumption DEF Init, IInv, OthersInv, OpInv, Holding

\* The invariant is kept if there is one operator.
LEMMA InvStep ==
  ASSUME NEW operator, Operators = {operator}, IInv, [Next]_vars
  PROVE  IInv'
<1>1. TInv /\ TInv' /\ operator \in Callers /\ OpInv(operator)
  BY TypeStep, OperatorsAssumption DEF IInv
<1>2. CASE UNCHANGED vars
  BY <1>1, <1>2 DEF vars, IInv, OthersInv, OpInv, Servers
<1>3. ASSUME NEW p \in Pids, System(p)
      PROVE  IInv'
  <2>1. Servers' \subseteq Servers /\ UNCHANGED <<file, pc, cmd, pid, last>>
    BY <1>1, <1>3, SystemStep
  <2>2. OthersInv'
    BY <2>1 DEF IInv, OthersInv
  <2>3. OpInv(operator)'
    BY <1>1, <2>1 DEF OpInv
  <2> QED BY <1>1, <2>2, <2>3 DEF IInv
<1>4. CASE Work(operator)
  <2>1. OpInv(operator)'
    BY <1>1, <1>4, OperatorStep
  <2>2. OthersInv'
    BY <1>1, <1>4, OtherCallers DEF IInv, OthersInv
  <2> QED BY <1>1, <2>1, <2>2 DEF IInv
<1>5. ASSUME NEW c \in Callers, c # operator, Work(c)
      PROVE  IInv'
  <2>1. /\ UNCHANGED <<file, proc>>
        /\ pc'[c] \in {"idle", "look", "read", "check"} /\ cmd'[c] \in {"none", "status"}
    BY <1>5, OnlookerStep
  <2>2. OthersInv'
    BY <1>1, <1>5, <2>1, OtherCallers DEF IInv, OthersInv
  <2>3. /\ pc'[operator] = pc[operator] /\ cmd'[operator] = cmd[operator]
        /\ pid'[operator] = pid[operator] /\ last'[operator] = last[operator]
    BY <1>1, <1>5, OtherCallers
  <2>4. OpInv(operator)'
    BY <1>1, <2>1, <2>3 DEF OpInv, Servers
  <2> QED BY <1>1, <2>2, <2>4 DEF IInv
<1> QED BY <1>2, <1>3, <1>4, <1>5, StepCases

\* With one operator there is never a second server.
THEOREM OnlyOneServer ==
  ASSUME NEW CONSTANT operator, Operators = {operator}
  PROVE  Spec => []OneServer
<1>1. IInv => OneServer
  <2> SUFFICES ASSUME IInv PROVE OneServer
    OBVIOUS
  <2>1. OpInv(operator) /\ pc[operator] \in Control
    BY OperatorsAssumption DEF IInv, TInv, TypeOK, Control
  <2> QED BY <2>1 DEF OpInv, OneServer, Holding, Control
<1>2. IInv /\ [Next]_vars => IInv'
  BY InvStep
<1> QED BY <1>1, <1>2, InitInv, PTL DEF Spec

\* Between the commands of the one operator a running server is in the PID file.
THEOREM ServerIsKnown ==
  ASSUME NEW CONSTANT operator, Operators = {operator}
  PROVE  Spec => []KnownServer
<1>1. IInv => KnownServer
  BY DEF IInv, OpInv, KnownServer, Resting
<1>2. IInv /\ [Next]_vars => IInv'
  BY InvStep
<1> QED BY <1>1, <1>2, InitInv, PTL DEF Spec

\* When the one operator's stop succeeds, no server runs and the PID file is gone.
THEOREM StopStops ==
  ASSUME NEW CONSTANT operator, Operators = {operator}
  PROVE  Spec => []StopMeansStopped
<1>1. IInv => StopMeansStopped
  BY DEF IInv, OpInv, StopMeansStopped, Resting
<1>2. IInv /\ [Next]_vars => IInv'
  BY InvStep
<1> QED BY <1>1, <1>2, InitInv, PTL DEF Spec

=============================================================================
