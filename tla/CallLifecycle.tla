---------------------------- MODULE CallLifecycle ----------------------------
(***************************************************************************)
(* What sip_interface promises about inbound calls, seen from outside: the *)
(* life of the call of each Call-ID, and the cap on concurrent calls.      *)
(* CallServer is shown to implement it.                                    *)
(*                                                                         *)
(*   none --Ring--> ringing --Pick up--> answered --Establish--> up        *)
(*     ^                |                    |                   |         *)
(*     +----Forget--- ended <----------------+-------------------+         *)
(*                                                                         *)
(* Until an ended call is forgotten its Call-ID cannot ring again, and it  *)
(* counts against the cap.                                                 *)
(***************************************************************************)
EXTENDS Naturals, FiniteSets

CONSTANTS Ids, MaxCalls     \* Call-IDs; the cap, 0 for none

VARIABLE phase              \* the phase each Call-ID is in

Phases == {"none", "ringing", "answered", "up", "ended"}
Known == {id \in Ids : phase[id] # "none"}

Move(id, from, to) ==
    /\ phase[id] \in from
    /\ phase' = [phase EXCEPT ![id] = to]

Init == phase = [id \in Ids |-> "none"]

Ring(id) ==
    /\ MaxCalls > 0 => Cardinality(Known) < MaxCalls
    /\ Move(id, {"none"}, "ringing")
PickUp(id) == Move(id, {"ringing"}, "answered")
Establish(id) == Move(id, {"answered"}, "up")
End(id) == Move(id, {"ringing", "answered", "up"}, "ended")

\* The reaper drops every ended call at once.
Forget ==
    /\ \E id \in Ids : phase[id] = "ended"
    /\ phase' = [id \in Ids |-> IF phase[id] = "ended" THEN "none" ELSE phase[id]]

Next ==
    \/ \E id \in Ids : Ring(id) \/ PickUp(id) \/ Establish(id) \/ End(id)
    \/ Forget

Spec == Init /\ [][Next]_phase
=============================================================================
