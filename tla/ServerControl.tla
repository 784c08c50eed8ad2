--------------------------- MODULE ServerControl ---------------------------
(*****************************************************************************)
(* fints-rest-server start, stop and status (easy_fints/cli.py): invocations *)
(* of the command line that share one PID file, the server processes they    *)
(* launch and signal, and an operating system that gives the identifier of a *)
(* process that has ended to another one.  Every look at the file or at a    *)
(* process, and every change of either, is a step of its own.                *)
(*****************************************************************************)
CONSTANTS
  Callers,    \* people or scripts that run the command line
  Operators,  \* those of them that start and stop the server
  Pids,       \* process identifiers
  NoPid,
  Missing,    \* the PID file does not exist
  Empty       \* the PID file exists and holds no number

ASSUME OperatorsAssumption == Operators \subseteq Callers
ASSUME PidAssumption == {NoPid, Missing, Empty} \cap Pids = {}
ASSUME FileAssumption == Missing # Empty

VARIABLES
  file,   \* contents of the PID file
  proc,   \* the processes; "zombie": ended, and its parent has not seen it yet
  pc,     \* where each invocation is
  cmd,    \* its command
  pid,    \* existing_pid, process.pid or pid
  last    \* history: how the caller's last invocation ended

vars == <<file, proc, pc, cmd, pid, last>>

TypeOK ==
  /\ file \in Pids \cup {Missing, Empty}
  /\ proc \in [Pids -> {"free", "server", "stopping", "zombie", "other"}]
  /\ pc \in [Callers -> {"idle", "look", "read", "check", "clear", "launch", "wait",
                         "truncate", "write", "signal", "await", "remove"}]
  /\ cmd \in [Callers -> {"none", "start", "stop", "status"}]
  /\ pid \in [Callers -> Pids \cup {NoPid}]
  /\ last \in [Callers -> {"none", "ok", "failed"}]

Init ==
  /\ file = Missing
  /\ proc = [p \in Pids |-> "free"]
  /\ pc = [c \in Callers |-> "idle"]
  /\ cmd = [c \in Callers |-> "none"]
  /\ pid = [c \in Callers |-> NoPid]
  /\ last = [c \in Callers |-> "none"]

\* _process_exists: signal 0 reaches a process that was not reaped yet, too.
Exists(p) == p # NoPid /\ proc[p] # "free"

Goto(c, where) == pc' = [pc EXCEPT ![c] = where]

Exit(c, how) ==
  /\ Goto(c, "idle")
  /\ last' = [last EXCEPT ![c] = how]
  /\ pid' = [pid EXCEPT ![c] = NoPid]

Invoke(c) ==
  /\ pc[c] = "idle"
  /\ \E command \in {"status"} \cup (IF c \in Operators THEN {"start", "stop"} ELSE {}) :
       cmd' = [cmd EXCEPT ![c] = command]
  /\ Goto(c, "look")
  /\ UNCHANGED <<file, proc, pid, last>>

-----------------------------------------------------------------------------
(* _read_pid, which all three commands call first.                           *)

Look(c) ==
  /\ pc[c] = "look"
  /\ Goto(c, IF file = Missing THEN "check" ELSE "read")
  /\ UNCHANGED <<file, proc, cmd, pid, last>>

\* Mutant: text that is no number is returned as it is.
ReadUnparsed(c) ==
  /\ pc[c] = "read"
  /\ file # Missing
  /\ pid' = [pid EXCEPT ![c] = file]
  /\ Goto(c, "check")
  /\ UNCHANGED <<file, proc, cmd, last>>

\* A file that has gone since Look raises FileNotFoundError, which ends the command.
Read(c) ==
  /\ pc[c] = "read"
  /\ \/ /\ file = Missing
        /\ Exit(c, "failed")
     \/ /\ file # Missing
        /\ pid' = [pid EXCEPT ![c] = IF file = Empty THEN NoPid ELSE file]
        /\ Goto(c, "check")
        /\ UNCHANGED last
  /\ UNCHANGED <<file, proc, cmd>>

-----------------------------------------------------------------------------
(* start                                                                     *)

\* Mutant: only a missing PID file is looked for, not the process it names.
CheckStartByFile(c) ==
  /\ pc[c] = "check"
  /\ cmd[c] = "start"
  /\ Goto(c, "clear")
  /\ UNCHANGED <<file, proc, cmd, pid, last>>

CheckStart(c) ==
  /\ pc[c] = "check"
  /\ cmd[c] = "start"
  /\ IF Exists(pid[c]) THEN Exit(c, "failed")
                       ELSE Goto(c, "clear") /\ UNCHANGED <<pid, last>>
  /\ UNCHANGED <<file, proc, cmd>>

Clear(c) ==
  /\ pc[c] = "clear"
  /\ file' = Missing
  /\ Goto(c, "launch")
  /\ UNCHANGED <<proc, cmd, pid, last>>

Launch(c) ==
  /\ pc[c] = "launch"
  /\ \E p \in Pids :
       /\ proc[p] = "free"
       /\ proc' = [proc EXCEPT ![p] = "server"]
       /\ pid' = [pid EXCEPT ![c] = p]
  /\ Goto(c, "wait")
  /\ UNCHANGED <<file, cmd, last>>

\* process.poll() after STARTUP_WAIT_SECONDS
PollStarted(c) ==
  /\ pc[c] = "wait"
  /\ IF proc[pid[c]] = "zombie"
       THEN proc' = [proc EXCEPT ![pid[c]] = "free"] /\ Exit(c, "failed")
       ELSE Goto(c, "truncate") /\ UNCHANGED <<proc, pid, last>>
  /\ UNCHANGED <<file, cmd>>

\* write_text opens the file, which empties it, and then writes.
Truncate(c) ==
  /\ pc[c] = "truncate"
  /\ file' = Empty
  /\ Goto(c, "write")
  /\ UNCHANGED <<proc, cmd, pid, last>>

\* What is written to a file that was unlinked meanwhile is lost.
Write(c) ==
  /\ pc[c] = "write"
  /\ file' = IF file = Missing THEN Missing ELSE pid[c]
  /\ proc' = [proc EXCEPT ![pid[c]] = IF @ = "zombie" THEN "free" ELSE @]
  /\ Exit(c, "ok")
  /\ UNCHANGED cmd

-----------------------------------------------------------------------------
(* stop and status                                                           *)

CheckStop(c) ==
  /\ pc[c] = "check"
  /\ cmd[c] = "stop"
  /\ Goto(c, IF Exists(pid[c]) THEN "signal" ELSE "remove")
  /\ UNCHANGED <<file, proc, cmd, pid, last>>

\* A process that has gone since CheckStop raises ProcessLookupError.
Signal(c) ==
  /\ pc[c] = "signal"
  /\ \/ /\ ~Exists(pid[c])
        /\ Exit(c, "failed")
        /\ UNCHANGED proc
     \/ /\ Exists(pid[c])
        /\ proc' = [proc EXCEPT ![pid[c]] = IF @ = "server" THEN "stopping" ELSE @]
        /\ Goto(c, "await")
        /\ UNCHANGED <<pid, last>>
  /\ UNCHANGED <<file, cmd>>

\* Mutant: the signal is taken for the end of the process.
AwaitNothing(c) ==
  /\ pc[c] = "await"
  /\ Goto(c, "remove")
  /\ UNCHANGED <<file, proc, cmd, pid, last>>

\* One look of the loop that finds the process gone.
Await(c) ==
  /\ pc[c] = "await"
  /\ ~Exists(pid[c])
  /\ Goto(c, "remove")
  /\ UNCHANGED <<file, proc, cmd, pid, last>>

\* Mutant: the PID file is removed although the server did not stop.
TimeOutForgetting(c) ==
  /\ pc[c] = "await"
  /\ file' = Missing
  /\ Exit(c, "failed")
  /\ UNCHANGED <<proc, cmd>>

\* STOP_WAIT_SECONDS have passed since the signal.
TimeOut(c) ==
  /\ pc[c] = "await"
  /\ Exit(c, "failed")
  /\ UNCHANGED <<file, proc, cmd>>

\* Without a number in the file there was nothing to stop.
Remove(c) ==
  /\ pc[c] = "remove"
  /\ file' = Missing
  /\ Exit(c, IF pid[c] = NoPid THEN "failed" ELSE "ok")
  /\ UNCHANGED <<proc, cmd>>

CheckStatus(c) ==
  /\ pc[c] = "check"
  /\ cmd[c] = "status"
  /\ Exit(c, IF Exists(pid[c]) THEN "ok" ELSE "failed")
  /\ UNCHANGED <<file, proc, cmd>>

-----------------------------------------------------------------------------
(* The operating system.                                                     *)

\* A server ends, because of a signal or of itself.  While the command that started it
\* runs, it stays behind as a zombie.
Die(p) ==
  /\ proc[p] \in {"server", "stopping"}
  /\ proc' = [proc EXCEPT ![p] =
       IF \E c \in Callers : pc[c] \in {"wait", "truncate", "write"} /\ pid[c] = p
         THEN "zombie" ELSE "free"]
  /\ UNCHANGED <<file, pc, cmd, pid, last>>

Reuse(p) ==
  /\ proc[p] = "free"
  /\ proc' = [proc EXCEPT ![p] = "other"]
  /\ UNCHANGED <<file, pc, cmd, pid, last>>

OtherEnds(p) ==
  /\ proc[p] = "other"
  /\ proc' = [proc EXCEPT ![p] = "free"]
  /\ UNCHANGED <<file, pc, cmd, pid, last>>

Next ==
  \/ \E c \in Callers :
       \/ Invoke(c) \/ Look(c) \/ Read(c)
       \/ CheckStart(c) \/ Clear(c) \/ Launch(c) \/ PollStarted(c) \/ Truncate(c) \/ Write(c)
       \/ CheckStop(c) \/ Signal(c) \/ Await(c) \/ TimeOut(c) \/ Remove(c)
       \/ CheckStatus(c)
  \/ \E p \in Pids : Die(p) \/ Reuse(p) \/ OtherEnds(p)

Spec == Init /\ [][Next]_vars

-----------------------------------------------------------------------------
(* What the command line gives to a single operator, whoever else asks for   *)
(* the status meanwhile and whatever becomes of the processes.               *)

Servers == {p \in Pids : proc[p] \in {"server", "stopping"}}
Resting == \A c \in Operators : pc[c] = "idle"

\* No server is ever launched next to one that is still running: a start that follows a
\* failed start, a stop that timed out or a crash of the server finds the right process.
OneServer == \A p, q \in Servers : p = q

\* Between the operator's commands a running server is the one the PID file names, so
\* that stop can reach it: no sequence of commands and deaths leaves it orphaned.
KnownServer == Resting => \A p \in Servers : file = p

\* After a successful stop no server runs and no PID file is left.
StopMeansStopped ==
  Resting =>
    \A c \in Operators :
      cmd[c] = "stop" /\ last[c] = "ok" => Servers = {} /\ file = Missing

=============================================================================
