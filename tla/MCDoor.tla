------------------------------- MODULE MCDoor -------------------------------
(***************************************************************************)
(* Two stations, and either two people on one day (who may draw the same   *)
(* code) or one person on two days.                                        *)
(***************************************************************************)
EXTENDS Door

CONSTANTS o1, o2, d1, d2, c1, c2, s1, s2

\* Half of a role, as the correction form sends it when only that half changed.
MCPatches == {[tag |-> "fixed"], [label |-> TRUE]}

\* What o2 and d2 have been used for.
Used(v) == v \in redeemed \/ \E s \in Stations :
                                request[s] # Idle /\ request[s].visit = v

Small ==
    /\ ~(Used(<<o2, d1>>) /\ Used(<<o1, d2>>)) /\ ~Used(<<o2, d2>>)
    /\ \A s \in Stations : request[s].op = "hook" =>
         s = s2 /\ request[s].visit = <<o1, d1>>     \* pretix calls one worker

MCNext == DoorNext /\ Small'

MCSpec == DoorInit /\ [][MCNext]_doorVars /\ DoorFairness
=============================================================================
