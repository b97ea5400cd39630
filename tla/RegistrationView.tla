-------------------------- MODULE RegistrationView --------------------------
(***************************************************************************)
(* What the platform promises about a registration, as the attendee, the   *)
(* admin lists and the door see it: one of five states (registrationState  *)
(* in lib/approval/state.ts), moving forward only.  A rejected or canceled *)
(* registration stays so, and a ticket that is out ends only by a cancel.  *)
(***************************************************************************)
CONSTANT Orders

VARIABLE state

State == {"pending_approval", "rejected", "pending_payment", "issued",
          "canceled"}

Later(s) ==
    CASE s = "pending_approval" -> {"rejected", "pending_payment", "issued"}
      [] s = "pending_payment"  -> {"issued", "canceled"}
      [] s = "issued"           -> {"canceled"}
      [] s \in {"rejected", "canceled"} -> {}

ViewInit == state \in [Orders -> {"pending_approval", "pending_payment",
                                  "issued"}]

Move(o) == \E s \in Later(state[o]) : state' = [state EXCEPT ![o] = s]

ViewNext == \E o \in Orders : Move(o)

ViewSpec == ViewInit /\ [][ViewNext]_state
=============================================================================
