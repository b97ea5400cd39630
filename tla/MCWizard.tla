------------------------------ MODULE MCWizard ------------------------------
(***************************************************************************)
(* Two events with one programme: a day pass and two workshops that need    *)
(* the opt-in, overlap each other and the day.  One event's form is filled  *)
(* to the end; of the other only the details.  With a cap of two main       *)
(* tickets they are of one tier.                                            *)
(***************************************************************************)
EXTENDS Wizard

CONSTANTS e1, e2, std, vip, day, w1, w2, dayPass, workshops, Cap

MCCategory == [s \in {day, w1, w2} |-> IF s = day THEN dayPass ELSE workshops]
MCStarts == [s \in {day, w1, w2} |-> IF s = w2 THEN 2 ELSE 1]
MCEnds == [s \in {day, w1, w2} |-> IF s = w1 THEN 3 ELSE 4]
MCPerUser == [s \in {day, w1, w2} |-> IF s = day THEN Cap ELSE 1]
MCRules == {[main |-> 1, total |-> 2], [main |-> 2, total |-> 2]}

DetailsOnly(f) == f = [Blank EXCEPT !.from = f.from, !.details = f.details]
                  /\ f.details # "valid"
SmallStep == /\ DetailsOnly(drafts'[e2])
             /\ rule.main = 2 => vip \notin Chosen(form')
             /\ slug' = e2 => DetailsOnly(form') \/ restoredFor' # e2

MCWizardNext == WizardNext /\ SmallStep
MCWizardSpec == WizardInit /\ [][MCWizardNext]_wizardVars
=============================================================================
