----------------------------- MODULE MCAttendee -----------------------------
(***************************************************************************)
(* An attendee's form, the account they sign in to, and a registration that *)
(* is paid before it is approved: three parts that share no state, explored *)
(* one at a time in one run.                                                *)
(***************************************************************************)
EXTENDS MCWizard, Accounts, MCOrderLifecycle, Sequences

CONSTANTS a1, a2, b1, p1, p2, o1, k1, k2

VARIABLE side
attendeeVars == <<wizardVars, accountsVars, vars, side>>

\* Codes and links meet only in the account row, so one kind at a time.
SmallAccounts == /\ Len(codes) <= 2 /\ Len(links) <= 2 /\ Cardinality(tokens) <= 1
                 /\ codes = <<>> \/ (links = <<>> /\ tokens = {})
                 /\ account.version <= 2

MCInit == /\ side \in {"form", "account", "order"}
          /\ WizardInit /\ AccountsInit
          /\ side # "form" => rule = [main |-> 1, total |-> 2]
          /\ Init
          /\ side # "order" => \A o \in Orders : pretix[o] = "n" /\ row[o].approval = "pending"
MCNext == /\ UNCHANGED side
          /\ \/ side = "form" /\ MCWizardNext /\ UNCHANGED <<accountsVars, vars>>
             \/ side = "account" /\ AccountsNext /\ SmallAccounts' /\ UNCHANGED <<wizardVars, vars>>
             \/ side = "order" /\ Next /\ UNCHANGED <<wizardVars, accountsVars>>

MCSpec == MCInit /\ [][MCNext]_attendeeVars
Symmetric == Permutations(Posts) \cup WorkerSymmetry

AttendeeInv == WizardInv /\ AccountsInv
=============================================================================
