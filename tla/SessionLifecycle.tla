-------------------------- MODULE SessionLifecycle --------------------------
(*****************************************************************************)
(* What the session registry of easy_fints/api.py promises, with every       *)
(* request, bank answer and clock left out.  A session identifier is used    *)
(* once: the session is registered, is live while clients may continue it,   *)
(* is withdrawn from the registry by exactly one party, and that party       *)
(* closes its bank client.  Nothing ever brings the identifier back.         *)
(*****************************************************************************)
CONSTANT Ids

VARIABLE phase

Phases == {"unborn", "live", "closing", "closed"}

Init == phase = [i \in Ids |-> "unborn"]

Move(i, from, to) ==
  /\ phase[i] = from
  /\ phase' = [phase EXCEPT ![i] = to]

Register(i) == Move(i, "unborn", "live")
Withdraw(i) == Move(i, "live", "closing")
Close(i)    == Move(i, "closing", "closed")

Next == \E i \in Ids : Register(i) \/ Withdraw(i) \/ Close(i)

Spec == Init /\ [][Next]_phase

=============================================================================
