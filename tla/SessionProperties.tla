-------------------------- MODULE SessionProperties --------------------------
(*****************************************************************************)
(* What the session registry should guarantee: to one caller at a time, and  *)
(* to callers whose requests overlap.                                        *)
(*****************************************************************************)
EXTENDS SessionStore

\* No request works on session or client i.
Quiet(i) == \A t \in Threads : local[t].id # i /\ closing[t] # i

-----------------------------------------------------------------------------
(* Overlapping requests.                                                     *)

\* Two requests never both close the client of one session, and a session whose
\* client is being closed is no longer in SESSIONS: the pop in _close_session
\* decides who closes.
OneCloser ==
  \A t \in Threads : closing[t] # NoId =>
    /\ ~Live(closing[t])
    /\ closing[t] \in born
    /\ \A u \in Threads : closing[u] = closing[t] => u = t

\* A session that can be seen as completed or failed is about to be removed by the
\* request that marked it: no path through the handlers forgets to close it.
TerminalIsLeaving ==
  \A i \in Ids : Live(i) /\ sessions[i].state \in TerminalStates =>
    \E t \in Threads : pc[t] = "pop" /\ local[t].id = i

\* How far the request of thread t is from its end; the code has no way back.
CallStage(fn) == IF fn \in {"confirm", "approve"} THEN 8 ELSE IF fn = "finalize" THEN 7 ELSE 5

Stage(t) ==
  IF pc[t] = "bank" THEN CallStage(call[t].fn)
  ELSE [scan |-> 11, prune |-> 10, dropclose |-> 10, loaded |-> 9, resume |-> 6, mark |-> 4,
        pop |-> 3, close |-> 2, done |-> 1, idle |-> 0][pc[t]]

\* A step towards the end: to a later stage, or, within the prune, to fewer sessions
\* left to close, or from the close of one of them to the next.
Descends(t) ==
  \/ Stage(t)' < Stage(t)
  \/ /\ Stage(t)' = Stage(t)
     /\ doomed'[t] \subseteq doomed[t]
     /\ doomed'[t] # doomed[t] \/ (pc[t] = "dropclose" /\ pc'[t] = "prune")

\* No request is kept in its handler by the others: each of its own steps brings it
\* closer to its answer, by a measure the steps of the other requests, which share
\* the sessions and clients it works on, do not change.
RequestDescends ==
  [][\A t \in Threads : pc[t] # "idle" =>
       IF Serve(t) THEN Descends(t) ELSE UNCHANGED <<pc[t], call[t], doomed[t]>>]_vars

\* The registry implements the life cycle: identifiers are never reused or
\* brought back, however late a request writes its outcome.
SessionPhase ==
  [i \in Ids |->
     CASE i \notin born                      -> "unborn"
       [] i \in born /\ Live(i)              -> "live"
       [] i \in born /\ ~Live(i) /\ (\E t \in Threads : closing[t] = i) -> "closing"
       [] OTHER                              -> "closed"]

Lifecycle == INSTANCE SessionLifecycle WITH phase <- SessionPhase

LifecycleSpec == Lifecycle!Spec

-----------------------------------------------------------------------------
(* One request at a time.                                                    *)

\* Whatever the bank answered, a session left waiting can be continued: its client
\* is open and remembers exactly one challenge, the one the state announces.  Only a
\* session whose resumed handler raised what nobody catches stays without one.
WaitingCanContinue ==
  \A i \in LiveIds : Quiet(i) =>
    /\ client[i].open
    /\ sessions[i].state # "resuming" => client[i].tan # client[i].vop
    /\ sessions[i].state = "awaiting_vop" => client[i].vop
    /\ sessions[i].state \in {"awaiting_tan", "awaiting_decoupled"} => client[i].tan

\* An order the bank accepts within a session carries the recipient name the
\* session was last given: the parameters in the session, the order pending in the
\* client and the order sent agree through every correction and resumption.
AcceptedNameIsCurrent ==
  [][\A i \in Ids : Live(i) /\ accepted'[i] > accepted[i] =>
       \E t \in Threads : local[t].id = i /\ call[t].sending = sessions[i].name]_vars

\* Once a session has left the registry and nobody works on it, its client is
\* closed: no dialog with the bank is left behind.
GoneMeansClosed ==
  \A i \in born : ~Live(i) /\ Quiet(i) => ~client[i].open

\* A prune removes a session only after SessionTTL without activity: between the scan
\* that dooms the session and the pop nothing touches it.
ExpiredOnlyWhenIdle ==
  [][\A t \in Threads, i \in Ids :
       /\ pc[t] = "prune" /\ local[t].kind # "shutdown"
       /\ Live(i) /\ closing'[t] = i
       => sessions[i].idle >= SessionTTL]_vars

\* Running and resuming are states of sessions somebody works on.
RunningIsTransient ==
  \A i \in LiveIds : sessions[i].state \in {"running", "resuming"} => ~Quiet(i)

\* The bank is asked at most once to execute the order of a session.
AcceptedOnce == \A i \in Ids : accepted[i] <= 1

\* An unsupported product is always reported as 422.
CapabilityIs422 ==
  \A t \in Threads : pc[t] = "done" /\ plan[t].cause = "capability" => plan[t].code = 422

\* GET and DELETE of a session answer 200 or 404: the registry does not change under
\* the prune that precedes them.
SessionLookupReplies ==
  \A t \in Threads : pc[t] = "done" /\ local[t].kind \in {"get", "cancel"} =>
    plan[t].code \in {200, 404}

-----------------------------------------------------------------------------
(* Progress.  A thread in a request keeps running and the bank answers; time *)
(* passes; requests of some kind keep arriving, since sessions expire only   *)
(* when a later request prunes them.                                         *)

LiveSpec ==
  /\ Spec
  /\ \A t \in Threads : WF_vars(Serve(t)) /\ WF_vars(Request(t))
  /\ WF_vars(Tick)

\* Every request is answered.
RequestAnswered == \A t \in Threads : pc[t] # "idle" ~> pc[t] = "idle"

\* A session that nobody confirms or retries any more leaves the registry, even
\* if it is polled with GET all the time.
Abandoned(i) ==
  /\ up /\ Live(i)
  /\ \A t \in Threads : local[t].id = i => local[t].kind \notin {"confirm", "retry"}

AbandonedExpires == \A i \in Ids : []<>~Abandoned(i)

=============================================================================
