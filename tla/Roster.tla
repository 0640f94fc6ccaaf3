------------------------------- MODULE Roster -------------------------------
(***************************************************************************)
(* What a fleet promises about its camera ids, whoever adds and removes    *)
(* them at the same time: an id has one camera at a time, and comes back   *)
(* only when its last camera is gone for good, from the journal and from   *)
(* both servers.  The log is what the fleet tells the world.               *)
(***************************************************************************)
EXTENDS Sequences

CONSTANT Ids

VARIABLES life,  \* absent; present; leaving: removed but not yet in the log;
                 \* left: in the log, but not yet out of the servers
          log    \* log[id]: added, removed and fault entries

rosterVars == <<life, log>>

Init ==
  /\ life = [id \in Ids |-> "absent"]
  /\ log = [id \in Ids |-> <<>>]

Turn(id, from, to) == life[id] = from /\ life' = [life EXCEPT ![id] = to]

Tell(id, type) == log' = [log EXCEPT ![id] = Append(@, type)]

Come(id) == Turn(id, "absent", "present") /\ Tell(id, "added")

Go(id) == Turn(id, "present", "leaving") /\ UNCHANGED log

Announce(id) == Turn(id, "leaving", "left") /\ Tell(id, "removed")

Free(id) == Turn(id, "left", "absent") /\ UNCHANGED log

(* Faults are told of whenever a handle changes them, an old one too.      *)
Fault(id) == Tell(id, "fault") /\ UNCHANGED life

Next == \E id \in Ids : Come(id) \/ Go(id) \/ Announce(id) \/ Free(id) \/ Fault(id)

Spec == Init /\ [][Next]_rosterVars
=============================================================================
