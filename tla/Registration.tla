---------------------------- MODULE Registration ----------------------------
(***************************************************************************)
(* register() in lib/registration/service.ts: how a registration comes to  *)
(* exist.  One request claims a single-use invite, quotes prices, creates  *)
(* an order in pretix, takes seats, settles a free order and only then     *)
(* writes the AttendeeOrder row.  There is no transaction around it: the   *)
(* invite, pretix and the seats are undone by hand, path by path, while    *)
(* other requests compete for the same invite and the same seats.          *)
(*                                                                         *)
(* A request is named by the code of the order it may create.              *)
(***************************************************************************)
EXTENDS Naturals, FiniteSets, PretixApi

CONSTANTS
    Requests,       \* calls of register()
    Invites,        \* email-bound, single-use invites
    Seats,          \* seats of the event
    None,           \* no invite, no order
    Forms,          \* the submissions that are exercised
    Unanswered,     \* the pretix calls whose reply may be an error
    MaxFaults       \* bound on dying requests and failing database calls

Form == [invite : Invites \cup {None}, seats : SUBSET Seats,
         free : BOOLEAN, approval : BOOLEAN]

ASSUME FormsAssumption == Forms \subseteq Form
ASSUME UnansweredAssumption == Unanswered \subseteq {"create", "pay", "cancel"}
ASSUME FaultsAssumption == MaxFaults \in Nat
ASSUME NoneAssumption == None \notin Requests \cup Invites

Map == INSTANCE SeatMap WITH Orders <- Requests, NoOrder <- None

VARIABLES
    at,         \* the await every request is in
    form,       \* what each request submitted
    pretix,     \* pretix's status of each order; "none" if it does not exist
    learnt,      \* the status in createOrder's reply; "none" if there was none
    row,        \* AttendeeOrder.status of each order; "none" without a row
    invite,     \* redeemedAt and redeemedOrderCode of each invite
    seat,       \* the seat map
    faults      \* requests that died, database calls that failed

vars == <<at, form, pretix, learnt, row, invite, seat, faults>>

-----------------------------------------------------------------------------
Steps == {"start", "claim", "quote", "create", "sweep", "hold", "rollback",
          "confirm", "pay", "insert", "finalize",   \* the way forward
          "unseat", "unorder", "unpay", "uninvite", \* the ways back
          "done", "failed"}

InFlight(r) == at[r] \notin {"start", "done", "failed"}

Free == [redeemed |-> FALSE, order |-> None]

TypeOK ==
    /\ at \in [Requests -> Steps]
    /\ form \in [Requests -> Forms \cup {None}]
    /\ pretix \in [Requests -> OrderStatus \cup {"none"}]
    /\ learnt \in [Requests -> {"none", "n", "p"}]
    /\ row \in [Requests -> {"none", "pending", "paid", "canceled"}]
    /\ invite \in [Invites -> [redeemed : BOOLEAN,
                               order : Requests \cup {None}]]
    /\ seat \in Map!SeatMaps
    /\ faults \in 0..MaxFaults

Init ==
    /\ at = [r \in Requests |-> "start"]
    /\ form = [r \in Requests |-> None]
    /\ pretix = [r \in Requests |-> "none"]
    /\ learnt = [r \in Requests |-> "none"]
    /\ row = [r \in Requests |-> "none"]
    /\ invite = [i \in Invites |-> Free]
    /\ \E state \in [Seats -> {"available", "accessible", "blocked"}] :
          seat = [s \in Seats |-> Map!Unassigned(state[s])]
    /\ faults = 0

Goto(r, step) == at' = [at EXCEPT ![r] = step]

\* From any of the steps in from, on to the step named to.
Step(r, from, to) == at[r] = from /\ Goto(r, to)

\* A pretix call of this kind may end in an error only if it may go unanswered.
Replies(kind, outcomes) ==
    {out \in outcomes : out.reply = "error" => kind \in Unanswered}

-----------------------------------------------------------------------------
(* The way forward *)

\* Everything that is refused before the claim leaves no trace.
Submit(r, f) ==
    /\ at[r] = "start"
    /\ f.invite # None => ~invite[f.invite].redeemed
    /\ form' = [form EXCEPT ![r] = f]
    /\ Goto(r, IF f.invite = None THEN "quote" ELSE "claim")
    /\ UNCHANGED <<pretix, learnt, row, invite, seat, faults>>

\* Fault: the read alone decides.
ClaimableOnceRead(i) == TRUE

\* The where-clause of the compare-and-set.
Claimable(i) == ~invite[i].redeemed

ClaimInvite(r) ==
    LET i == form[r].invite IN
    /\ at[r] = "claim"
    /\ IF Claimable(i)
       THEN /\ invite' = [invite EXCEPT ![i] = [@ EXCEPT !.redeemed = TRUE]]
            /\ Goto(r, "quote")
       ELSE Goto(r, "failed") /\ UNCHANGED invite
    /\ UNCHANGED <<form, pretix, learnt, row, seat, faults>>

\* Prices from pretix, a missing seat, a missing answer: a throw here is past
\* the claim and outside every try.
Quote(r) ==
    /\ Step(r, "quote", "create") \/ Step(r, "quote", "failed")
    /\ UNCHANGED <<form, pretix, learnt, row, invite, seat, faults>>

\* Only an order that is free and needs no decision is settled here.
SettledHere(r) == form[r].free /\ ~form[r].approval

AfterSeats(r, status) ==
    IF SettledHere(r) /\ status # "p" THEN "pay" ELSE "insert"

\* pretix marks a zero-total order paid on its own, or leaves it pending.
Created(r) == IF form[r].free THEN {"n", "p"} ELSE {"n"}

CreateOrder(r) ==
    /\ at[r] = "create"
    /\ \E s \in Created(r) :
          /\ pretix' = [pretix EXCEPT ![r] = s]
          /\ learnt' = [learnt EXCEPT ![r] = s]
          /\ Goto(r, IF form[r].seats # {} THEN "sweep" ELSE AfterSeats(r, s))
    /\ UNCHANGED <<form, row, invite, seat, faults>>

\* Refused, unreachable, or timed out: pretix may have created the order, whose
\* code is then never learnt.
CreateOrderFails(r) ==
    /\ at[r] = "create"
    /\ \/ UNCHANGED pretix
       \/ /\ "create" \in Unanswered
          /\ \E s \in Created(r) : pretix' = [pretix EXCEPT ![r] = s]
    /\ Goto(r, "uninvite")
    /\ UNCHANGED <<form, learnt, row, invite, seat, faults>>

\* holdSeats, first its sweep, then the compare-and-set.
SweepHolds(r) ==
    /\ Step(r, "sweep", "hold")
    /\ seat' = Map!ReleaseExpiredHolds(seat)
    /\ UNCHANGED <<form, pretix, learnt, row, invite, faults>>

HoldSeats(r) ==
    /\ Step(r, "hold", IF Map!Holdable(seat, form[r].seats) = form[r].seats
                       THEN "confirm" ELSE "rollback")
    /\ seat' = Map!HoldSeats(seat, form[r].seats, r)
    /\ UNCHANGED <<form, pretix, learnt, row, invite, faults>>

RollBackHold(r) ==
    /\ Step(r, "rollback", "unseat")
    /\ seat' = Map!RollBackHold(seat, r)
    /\ UNCHANGED <<form, pretix, learnt, row, invite, faults>>

\* A part of the seats may be confirmed before the throw.
ConfirmSeats(r) ==
    /\ Step(r, "confirm",
            IF Map!Confirmable(seat, form[r].seats, r) = form[r].seats
            THEN AfterSeats(r, learnt[r]) ELSE "unseat")
    /\ seat' = Map!ConfirmSeats(seat, form[r].seats, r)
    /\ UNCHANGED <<form, pretix, learnt, row, invite, faults>>

\* A refusal counts as paid.
MarkPaid(r) ==
    /\ at[r] = "pay"
    /\ \E out \in Replies("pay", MarkPaidOutcomes(pretix[r])) :
          /\ pretix' = [pretix EXCEPT ![r] = out.status]
          /\ Goto(r, IF out.reply = "error" THEN "unpay" ELSE "insert")
    /\ UNCHANGED <<form, learnt, row, invite, seat, faults>>

InsertRow(r) ==
    /\ Step(r, "insert", IF form[r].invite = None THEN "done" ELSE "finalize")
    /\ row' = [row EXCEPT ![r] = IF SettledHere(r) THEN "paid" ELSE "pending"]
    /\ UNCHANGED <<form, pretix, learnt, invite, seat, faults>>

\* The rest of the handler is best effort and writes none of this state: the
\* account's link (MergeLedger), the profile, the answers, the events, the mail.
FinalizeInvite(r) ==
    /\ Step(r, "finalize", "done")
    /\ invite' = [invite EXCEPT ![form[r].invite] = [@ EXCEPT !.order = r]]
    /\ UNCHANGED <<form, pretix, learnt, row, seat, faults>>

-----------------------------------------------------------------------------
(* The ways back *)

ReleaseSeats(r) ==
    /\ Step(r, "unseat", "unorder")
    /\ seat' = Map!ReleaseSeats(seat, r)
    /\ UNCHANGED <<form, pretix, learnt, row, invite, faults>>

\* After a seat failure: best effort, the invite is released regardless.
CancelOrder(r) ==
    /\ Step(r, "unorder", "uninvite")
    /\ \E out \in Replies("cancel", CancelOutcomes(pretix[r])) :
          pretix' = [pretix EXCEPT ![r] = out.status]
    /\ UNCHANGED <<form, learnt, row, invite, seat, faults>>

\* Fault: the invite is freed whatever became of the order.
AlwaysRelease(reply) == "uninvite"

\* After a failed mark-paid: the invite stays consumed unless pretix confirms.
AfterUnpay(reply) == IF reply = "ok" THEN "uninvite" ELSE "failed"

CancelUnpaid(r) ==
    /\ at[r] = "unpay"
    /\ \E out \in Replies("cancel", CancelOutcomes(pretix[r])) :
          /\ pretix' = [pretix EXCEPT ![r] = out.status]
          /\ Goto(r, AfterUnpay(out.reply))
    /\ UNCHANGED <<form, learnt, row, invite, seat, faults>>

\* releaseInviteClaim: only a claim that was not finalized to an order.
ReleaseInvite(r) ==
    LET i == form[r].invite IN
    /\ Step(r, "uninvite", "failed")
    /\ IF i # None /\ invite[i].order = None
       THEN invite' = [invite EXCEPT ![i] = [@ EXCEPT !.redeemed = FALSE]]
       ELSE UNCHANGED invite
    /\ UNCHANGED <<form, pretix, learnt, row, seat, faults>>

-----------------------------------------------------------------------------
(* Faults, time, and what happens to a registration later *)

\* A database call fails.  Inside the seats' try that is a seat failure; a
\* best-effort call is skipped; anywhere else the request throws, or dies, and
\* leaves everything as it is.
Fault(r) ==
    /\ InFlight(r)
    /\ faults < MaxFaults
    /\ faults' = faults + 1
    /\ \/ at[r] \in {"sweep", "hold", "rollback", "confirm"} /\ Goto(r, "unseat")
       \/ Step(r, "unseat", "unorder")
       \/ Step(r, "finalize", "done")
       \/ Goto(r, "failed")
    /\ UNCHANGED <<form, pretix, learnt, row, invite, seat>>

\* Ten minutes after the hold.
HoldLapses(r) ==
    /\ \E s \in Map!HeldBy(seat, r) : ~seat[s].lapsed
    /\ seat' = Map!Lapse(seat, r)
    /\ UNCHANGED <<at, form, pretix, learnt, row, invite, faults>>

\* getSeatMap: every visit of the seat picker sweeps first.
ReadSeatMap ==
    /\ seat' = Map!ReleaseExpiredHolds(seat)
    /\ UNCHANGED <<at, form, pretix, learnt, row, invite, faults>>

\* A registration is canceled or rejected: see OrderLifecycle.
CancelLater(r) ==
    /\ row[r] \in {"pending", "paid"}
    /\ row' = [row EXCEPT ![r] = "canceled"]
    /\ pretix' = [pretix EXCEPT ![r] = "c"]
    /\ seat' = Map!ReleaseSeats(seat, r)
    /\ UNCHANGED <<at, form, learnt, invite, faults>>

-----------------------------------------------------------------------------
\* What a request does once it is under way.
Advance(r) ==
    \/ ClaimInvite(r) \/ Quote(r) \/ CreateOrder(r) \/ CreateOrderFails(r)
    \/ SweepHolds(r) \/ HoldSeats(r) \/ RollBackHold(r) \/ ConfirmSeats(r)
    \/ MarkPaid(r) \/ InsertRow(r) \/ FinalizeInvite(r)
    \/ ReleaseSeats(r) \/ CancelOrder(r) \/ CancelUnpaid(r) \/ ReleaseInvite(r)

Next ==
    \/ \E r \in Requests :
          \/ \E f \in Forms : Submit(r, f)
          \/ Advance(r) \/ Fault(r) \/ CancelLater(r) \/ HoldLapses(r)
    \/ ReadSeatMap

Spec == Init /\ [][Next]_vars

\* Requests under way go on; time passes; somebody looks at the seat picker.
FairSpec ==
    /\ Spec
    /\ \A r \in Requests : WF_vars(Advance(r)) /\ WF_vars(HoldLapses(r))
    /\ WF_vars(ReadSeatMap)
-----------------------------------------------------------------------------
(* Properties *)

LiveRow(r) == row[r] \in {"pending", "paid"}

LiveOrder(r) == pretix[r] \notin {"none", "c"}

SameInvite(r, q) == r # q /\ form[r].invite = form[q].invite

Begun(r) == at[r] # "start"

WithInvite == {r \in Requests : Begun(r) /\ form[r].invite # None}

\* A single-use invite admits one registration, ever: whatever was released
\* and claimed again on the way, two rows never come from the same invite.
InviteUsedOnce ==
    \A r, q \in WithInvite :
        SameInvite(r, q) => row[r] = "none" \/ row[q] = "none"

\* A registration that was committed, and not canceled since, has exactly the
\* seats it asked for, sold to it: a hold that lapsed while the request was
\* slow never commits, and nobody else's confirm or sweep takes a sold seat.
RowKeepsSeats ==
    \A r \in Requests :
        LiveRow(r) => Map!SoldTo(seat, r) = form[r].seats

\* The seats of registrations that are neither under way nor live.
StrandedSeats(r) ==
    IF InFlight(r) \/ LiveRow(r) THEN {} ELSE Map!AssignedTo(seat, r)

\* As long as nothing crashes, the seats of a failed registration and of a
\* canceled one are back in the pool, unless the registration was of the kind
\* that is settled on the spot: a failed mark-paid cancels the order and keeps
\* its seats.
SeatsReturn ==
    faults = 0 =>
        \A r \in Requests : StrandedSeats(r) # {} => SettledHere(r)

\* The rule spelled out beside the mark-paid failure: an invite is given back
\* only once pretix confirmed that the order is gone, so no invite ever backs
\* two live orders the platform knows of, replies lost or not.  (Not so if
\* createOrder itself, or the cancellation after a seat failure, fails.)
KnownLiveOrder(r) ==
    LiveOrder(r) /\ learnt[r] # "none" /\ form[r].seats = {}

OneLiveOrderPerInvite ==
    \A r, q \in WithInvite :
        SameInvite(r, q) => ~KnownLiveOrder(r) \/ ~KnownLiveOrder(q)

\* README: seats are held "for 10 minutes; expired holds are released on read".
\* No hold outlives its request for ever, not even that of a dead one.
HoldComesBack ==
    \A s \in Seats :
        seat[s].state = "temporarily_held"
            ~> seat[s].state # "temporarily_held"

-----------------------------------------------------------------------------
(* The inductive invariant behind InviteUsedOnce and RowKeepsSeats *)

\* Between the claim and the release, or for good once there is a row.
Holding(r) ==
    \/ at[r] \notin {"start", "claim", "done", "failed"}
    \/ row[r] # "none"

Progress ==
    \A r \in Requests :
        /\ Begun(r) => form[r] \in Form
        /\ at[r] \in {"claim", "finalize"} => form[r].invite # None
        /\ row[r] # "none" => at[r] \in {"finalize", "done", "failed"}

InviteReserved ==
    \A r \in WithInvite :
        Holding(r) => /\ invite[form[r].invite].redeemed
                      /\ \A q \in WithInvite : SameInvite(r, q) => ~Holding(q)

SeatsAsWished ==
    \A r \in Requests :
        /\ Map!AssignedTo(seat, r) \subseteq IF Begun(r) THEN form[r].seats ELSE {}
        /\ at[r] \in {"pay", "insert"} \/ LiveRow(r)
              => form[r].seats \subseteq Map!SoldTo(seat, r)

RegistrationInv == TypeOK /\ Progress /\ InviteReserved /\ SeatsAsWished
=============================================================================
