--------------------------- MODULE MCRegistration ---------------------------
(***************************************************************************)
(* Instances of Registration for TLC; beside it, sharing no state, the     *)
(* forms in which staff type what register() is given, and correct it.     *)
(***************************************************************************)
EXTENDS Registration, StaffForms

CONSTANTS r1, r2, i1, s1, s2, ann, bob

VARIABLE part

F(i, ss, free, approval) ==
    [invite |-> i, seats |-> ss, free |-> free, approval |-> approval]

\* Overlapping seats, a shared invite, every way an order is settled.
AllForms == {F(None, {s1}, TRUE, FALSE), F(None, {s1, s2}, FALSE, FALSE),
             F(i1, {s1, s2}, FALSE, TRUE), F(i1, {}, TRUE, FALSE),
             F(i1, {}, FALSE, FALSE)}

\* One registration with seats, or one on the invite.
SeatForms == {f \in AllForms : f.seats # {}}

InviteForms == {f \in AllForms : f.invite # None}

\* A listed title, a typed one, two from before the rules, a role without text.
MCStoredBefore ==
    {[company |-> "Acme", title |-> t, tag |-> Visitor, label |-> Blank]
        : t \in {"CEO", "Chef", "Chief Visionary", JOB_TITLE_OTHER}}
    \cup {[company |-> Blank, title |-> "Chef", tag |-> ROLE_OTHER, label |-> l]
        : l \in {Blank, "Press"}}

MCInit ==
    /\ part \in {"register", "walk in", "fix"}
    /\ Init /\ StaffInit /\ serving = ann
    /\ rows[bob] = NoRow /\ (rows[ann] # NoRow <=> part = "fix")
    /\ part # "walk in" => desk

MCNext ==
    /\ UNCHANGED part
    /\ \/ part = "register" /\ Next /\ UNCHANGED staffVars
       \/ part = "walk in" /\ (FillIn \/ WalkIn) /\ UNCHANGED vars
       \/ part = "fix" /\ Fixing /\ UNCHANGED vars

MCFairSpec ==
    /\ MCInit /\ [][MCNext]_<<vars, staffVars, part>>
    /\ \A r \in Requests : WF_vars(part = "register" /\ Advance(r))
                            /\ WF_vars(part = "register" /\ HoldLapses(r))
    /\ WF_vars(part = "register" /\ ReadSeatMap)
=============================================================================
