--------------------------- MODULE OrderLifecycle ---------------------------
(***************************************************************************)
(* The life of a registration after it exists: one AttendeeOrder row per   *)
(* order in the platform's database, the order it mirrors in pretix, the   *)
(* seats sold to it and the webhooks pretix sends about it.                *)
(*                                                                         *)
(* Every server request - an admin's approve, reject, cancel or mark-paid, *)
(* a scan at the door, a webhook delivery - runs as a worker's task: it    *)
(* reads the row, then takes its steps one await at a time while the other *)
(* workers, and pretix, take theirs.  Between a task's read and its write  *)
(* the row may change; a reply from pretix may be lost; the process may    *)
(* die.                                                                    *)
(***************************************************************************)
EXTENDS Naturals, FiniteSets, PretixApi

CONSTANTS
    Orders,             \* orders of one event
    Workers,            \* concurrent requests the server handles
    FreeOrders,         \* provider "free" or totalCents = 0
    SeatedOrders,       \* orders that bought a reserved seat
    PayBeforeApproval,  \* EventMapping.payBeforeApproval
    Ops,                \* the operations that are exercised
    MaxCrashes          \* bound on the requests that die half way

AllOps == {"approve", "reject", "cancel", "finance",
           "paidHook", "canceledHook", "checkin"}

ASSUME OrdersAssumption ==
    FreeOrders \subseteq Orders /\ SeatedOrders \subseteq Orders
ASSUME OpsAssumption == Ops \subseteq AllOps
ASSUME PolicyAssumption == PayBeforeApproval \in BOOLEAN
ASSUME BoundAssumption == MaxCrashes \in Nat

VARIABLES
    row,        \* AttendeeOrder: approvalStatus and status of every order
    pretix,     \* pretix's status of every order
    hooks,      \* webhook deliveries pretix has yet to see answered with 200
    sent,       \* webhooks pretix has ever sent: it may send them again
    seated,     \* orders whose seats are sold_or_reserved to them
    redeemed,   \* orders pretix has checked in on the door's list
    admitted,   \* orders the door's screen has let in (a badge is logged)
    issued,     \* how often ticket.issued was emitted for each order
    task,       \* what each worker is doing
    crashes     \* requests that have died so far

vars == <<row, pretix, hooks, sent, seated, redeemed, admitted, issued,
          task, crashes>>

-----------------------------------------------------------------------------
Approval == {"not_required", "pending", "approved", "rejected"}
Status == {"pending", "paid", "canceled"}
Row == [approval : Approval, status : Status]
Hook == [order : Orders, kind : {"paid", "canceled"}]

Steps == {"claim", "sync", "confirm", "release", "fetch", "write",
          "redeem", "log"}
NoTask == [op |-> "none", at |-> "none"]
Task == [op : AllOps, order : Orders, at : Steps, seen : Row]

TypeOK ==
    /\ row \in [Orders -> Row]
    /\ pretix \in [Orders -> OrderStatus]
    /\ hooks \subseteq Hook
    /\ sent \subseteq Hook
    /\ seated \subseteq SeatedOrders
    /\ redeemed \subseteq Orders
    /\ admitted \subseteq Orders
    /\ issued \in [Orders -> Nat]
    /\ task \in [Workers -> Task \cup {NoTask}]
    /\ crashes \in 0..MaxCrashes

\* A row as register() leaves it: a free order that needs no decision is paid
\* here, every other one starts out pending.  pretix pays a zero-total order on
\* its own or when told to, and register() tolerates its refusal.
FreshOrder(o) ==
    LET free == o \in FreeOrders IN
    /\ \/ row[o] = [approval |-> "not_required",
                    status |-> IF free THEN "paid" ELSE "pending"]
       \/ row[o] = [approval |-> "pending", status |-> "pending"]
    /\ pretix[o] \in IF free THEN {"n", "p"} ELSE {"n"}

Init ==
    /\ row \in [Orders -> Row]
    /\ pretix \in [Orders -> OrderStatus]
    /\ \A o \in Orders : FreshOrder(o)
    /\ sent = {h \in Hook : h.kind = "paid" /\ pretix[h.order] = "p"}
    /\ hooks \in SUBSET sent     \* a delivery that beat the row is lost
    /\ seated = SeatedOrders
    /\ redeemed = {}
    /\ admitted = {}
    /\ issued = [o \in Orders |->
                    IF row[o].status = "paid" THEN 1 ELSE 0]
    /\ task = [w \in Workers |-> NoTask]
    /\ crashes = 0

-----------------------------------------------------------------------------
(* Tasks: the control flow every handler shares. *)

Free(w) == task[w] = NoTask

At(w, op, at) == task[w].op = op /\ task[w].at = at

\* The handler has read the row and will next take the step named at.
Begin(w, op, o, at) ==
    /\ op \in Ops
    /\ Free(w)
    /\ task' = [task EXCEPT ![w] =
                   [op |-> op, order |-> o, at |-> at, seen |-> row[o]]]

Goto(w, at) == task' = [task EXCEPT ![w] = [@ EXCEPT !.at = at]]

\* The handler returns or throws.
Return(w) == task' = [task EXCEPT ![w] = NoTask]

SetStatus(o, s) == row' = [row EXCEPT ![o] = [@ EXCEPT !.status = s]]

Decide(o, a, s) == row' = [row EXCEPT ![o] = [approval |-> a, status |-> s]]

\* pretix's status of o becomes s; a payment or a cancellation, whoever made
\* it, queues a webhook.
PretixBecomes(o, s) ==
    LET news == IF s = pretix[o] THEN {}
                ELSE CASE s = "p" -> {[order |-> o, kind |-> "paid"]}
                       [] s = "c" -> {[order |-> o, kind |-> "canceled"]}
                       [] OTHER -> {}
    IN /\ pretix' = [pretix EXCEPT ![o] = s]
       /\ hooks' = hooks \cup news
       /\ sent' = sent \cup news

\* The route answers 200 and pretix stops retrying the delivery; after a throw
\* it answers 500 and the delivery stays queued.
Answer200(h) == hooks' = hooks \ {h}

\* Fault: the seats stay with an order that let them go.
KeepSeats(o) == UNCHANGED seated

ReleaseSeats(o) == seated' = seated \ {o}

EmitTicketIssued(o) == issued' = [issued EXCEPT ![o] = @ + 1]

-----------------------------------------------------------------------------
(* What is read of a row. *)

Decided(r) == r.approval \in {"approved", "not_required"}

\* registrationState: what the attendee, the admin lists and the door are shown.
RegistrationState(r) ==
    CASE r.approval = "pending"  -> "pending_approval"
      [] r.approval = "rejected" -> "rejected"
      [] Decided(r) -> CASE r.status = "canceled" -> "canceled"
                         [] r.status = "paid"     -> "issued"
                         [] r.status = "pending"  -> "pending_payment"

\* The only state the door accepts.
CheckinEligible(r) == RegistrationState(r) = "issued"

\* Fault: a compare-and-set update that lost its where-clause.
Unconditionally(o) == TRUE

\* The where-clauses of the compare-and-set updates.
DecisionOpen(o) == row[o].approval = "pending"
NotCanceled(o) == row[o].status # "canceled"
AwaitsPayment(o) == row[o].status = "pending"

-----------------------------------------------------------------------------
(* approve *)

\* An event may want its paid tickets paid before they are approved.
PaymentSettled(o) ==
    PayBeforeApproval /\ o \notin FreeOrders => row[o].status = "paid"

ApproveRead(w, o) ==
    /\ row[o].approval = "pending"
    /\ PaymentSettled(o)
    /\ Begin(w, "approve", o, "claim")
    /\ UNCHANGED <<row, pretix, hooks, sent, seated, redeemed, admitted,
                   issued, crashes>>

\* Fault: the decision is written to the payment status.
DecisionAsStatus(o) == "approved"

ApprovedStatus(o) == IF o \in FreeOrders THEN "paid" ELSE "pending"

ApproveClaim(w) ==
    LET o == task[w].order IN
    /\ At(w, "approve", "claim")
    /\ \/ /\ DecisionOpen(o)
          /\ Decide(o, "approved", ApprovedStatus(o))
          /\ IF o \in FreeOrders THEN Goto(w, "sync") ELSE Return(w)
       \/ /\ ~DecisionOpen(o)     \* lost the race to another decision
          /\ Return(w)
          /\ UNCHANGED row
    /\ UNCHANGED <<pretix, hooks, sent, seated, redeemed, admitted, issued,
                   crashes>>

\* Only free orders get here.  A refusal is tolerated, an error is thrown.
ApproveSync(w) ==
    LET o == task[w].order IN
    /\ At(w, "approve", "sync")
    /\ \E out \in MarkPaidOutcomes(pretix[o]) :
          /\ PretixBecomes(o, out.status)
          /\ IF out.reply = "error" THEN UNCHANGED issued
             ELSE EmitTicketIssued(o)
    /\ Return(w)
    /\ UNCHANGED <<row, seated, redeemed, admitted, crashes>>

-----------------------------------------------------------------------------
(* reject *)

RejectRead(w, o) ==
    /\ row[o].approval = "pending"
    /\ row[o].status # "paid"
    /\ Begin(w, "reject", o, "claim")
    /\ UNCHANGED <<row, pretix, hooks, sent, seated, redeemed, admitted,
                   issued, crashes>>

RejectClaim(w) ==
    LET o == task[w].order IN
    /\ At(w, "reject", "claim")
    /\ \/ /\ DecisionOpen(o)
          /\ Decide(o, "rejected", "canceled")
          /\ Goto(w, "sync")
       \/ /\ ~DecisionOpen(o)
          /\ Return(w)
          /\ UNCHANGED row
    /\ UNCHANGED <<pretix, hooks, sent, seated, redeemed, admitted, issued,
                   crashes>>

\* Best effort: whatever pretix answers, the rejection stands.
RejectSync(w) ==
    LET o == task[w].order IN
    /\ At(w, "reject", "sync")
    /\ \E out \in CancelOutcomes(pretix[o]) : PretixBecomes(o, out.status)
    /\ Goto(w, "release")
    /\ UNCHANGED <<row, seated, redeemed, admitted, issued, crashes>>

RejectRelease(w) ==
    /\ At(w, "reject", "release")
    /\ ReleaseSeats(task[w].order)
    /\ Return(w)
    /\ UNCHANGED <<row, pretix, hooks, sent, redeemed, admitted, issued,
                   crashes>>

-----------------------------------------------------------------------------
(* cancelRegistration: pretix first, then the local row *)

\* Fault: the local row is canceled first.
CancelReadLocalFirst(w, o) ==
    /\ row[o].status # "canceled"
    /\ Begin(w, "cancel", o, "claim")
    /\ UNCHANGED <<row, pretix, hooks, sent, seated, redeemed, admitted,
                   issued, crashes>>

CancelRead(w, o) ==
    /\ row[o].status # "canceled"
    /\ Begin(w, "cancel", o, "sync")
    /\ UNCHANGED <<row, pretix, hooks, sent, seated, redeemed, admitted,
                   issued, crashes>>

CancelSync(w) ==
    LET o == task[w].order IN
    /\ At(w, "cancel", "sync")
    /\ \E out \in CancelOutcomes(pretix[o]) :
          /\ PretixBecomes(o, out.status)
          /\ \/ out.reply = "ok"      /\ Goto(w, "claim")
             \/ out.reply = "invalid" /\ Goto(w, "confirm")
             \/ out.reply = "error"   /\ Return(w)
    /\ UNCHANGED <<row, seated, redeemed, admitted, issued, crashes>>

\* A refusal is tolerable only when pretix already has the order canceled.
RefusalTolerable(o) == pretix[o] = "c"

CancelConfirm(w) ==
    LET o == task[w].order IN
    /\ At(w, "cancel", "confirm")
    /\ \/ RefusalTolerable(o) /\ Goto(w, "claim")
       \/ Return(w)        \* another status, or getOrder itself failed
    /\ UNCHANGED <<row, pretix, hooks, sent, seated, redeemed, admitted,
                   issued, crashes>>

CancelClaim(w) ==
    LET o == task[w].order IN
    /\ At(w, "cancel", "claim")
    /\ IF NotCanceled(o)
       THEN SetStatus(o, "canceled") /\ Goto(w, "release")
       ELSE Return(w) /\ UNCHANGED row
    /\ UNCHANGED <<pretix, hooks, sent, seated, redeemed, admitted, issued,
                   crashes>>

CancelRelease(w) ==
    /\ At(w, "cancel", "release")
    /\ ReleaseSeats(task[w].order)
    /\ Return(w)
    /\ UNCHANGED <<row, pretix, hooks, sent, redeemed, admitted, issued,
                   crashes>>

-----------------------------------------------------------------------------
(* finance's markOrderPaid: pretix first, then the local row *)

FinanceRead(w, o) ==
    /\ row[o].status # "paid"
    /\ Begin(w, "finance", o, "sync")
    /\ UNCHANGED <<row, pretix, hooks, sent, seated, redeemed, admitted,
                   issued, crashes>>

\* A refusal is taken to mean "already paid"; an error is audited and thrown.
FinanceSync(w) ==
    LET o == task[w].order IN
    /\ At(w, "finance", "sync")
    /\ \E out \in MarkPaidOutcomes(pretix[o]) :
          /\ PretixBecomes(o, out.status)
          /\ IF out.reply = "error" THEN Return(w) ELSE Goto(w, "write")
    /\ UNCHANGED <<row, seated, redeemed, admitted, issued, crashes>>

\* An unconditional update: whatever the row has become meanwhile.
FinanceWrite(w) ==
    /\ At(w, "finance", "write")
    /\ SetStatus(task[w].order, "paid")
    /\ Return(w)
    /\ UNCHANGED <<pretix, hooks, sent, seated, redeemed, admitted, issued,
                   crashes>>

-----------------------------------------------------------------------------
(* Webhook deliveries: at least once, in any order *)

PaidHook(o) == [order |-> o, kind |-> "paid"]
CanceledHook(o) == [order |-> o, kind |-> "canceled"]

\* handleOrderPaid for an order already paid: nothing to reconcile.
PaidHookNoop(w, o) ==
    /\ "paidHook" \in Ops
    /\ Free(w)
    /\ PaidHook(o) \in hooks
    /\ row[o].status = "paid"
    /\ Answer200(PaidHook(o))
    /\ UNCHANGED <<row, pretix, sent, seated, redeemed, admitted, issued,
                   task, crashes>>

PaidHookRead(w, o) ==
    /\ PaidHook(o) \in hooks
    /\ row[o].status # "paid"
    /\ Begin(w, "paidHook", o, "fetch")
    /\ UNCHANGED <<row, pretix, hooks, sent, seated, redeemed, admitted,
                   issued, crashes>>

\* getOrder fetches the position's secret.
PaidHookFetched(w) ==
    /\ At(w, "paidHook", "fetch")
    /\ Goto(w, "claim")
    /\ UNCHANGED <<row, pretix, hooks, sent, seated, redeemed, admitted,
                   issued, crashes>>

\* getOrder throws: the route answers 500.
PaidHookFetchFails(w) ==
    /\ At(w, "paidHook", "fetch")
    /\ Return(w)
    /\ UNCHANGED <<row, pretix, hooks, sent, seated, redeemed, admitted,
                   issued, crashes>>

\* The ticket is issued unless a decision was outstanding when the row was read.
PaidHookClaim(w) ==
    LET o == task[w].order IN
    /\ At(w, "paidHook", "claim")
    /\ \/ /\ AwaitsPayment(o)
          /\ SetStatus(o, "paid")
          /\ IF task[w].seen.approval = "pending" THEN UNCHANGED issued
             ELSE EmitTicketIssued(o)
       \/ /\ ~AwaitsPayment(o)
          /\ UNCHANGED <<row, issued>>
    /\ Answer200(PaidHook(o))
    /\ Return(w)
    /\ UNCHANGED <<pretix, sent, seated, redeemed, admitted, crashes>>

\* handleOrderCanceled for an order already canceled.
CanceledHookNoop(w, o) ==
    /\ "canceledHook" \in Ops
    /\ Free(w)
    /\ CanceledHook(o) \in hooks
    /\ ~NotCanceled(o)
    /\ Answer200(CanceledHook(o))
    /\ UNCHANGED <<row, pretix, sent, seated, redeemed, admitted, issued,
                   task, crashes>>

CanceledHookRead(w, o) ==
    /\ CanceledHook(o) \in hooks
    /\ NotCanceled(o)
    /\ Begin(w, "canceledHook", o, "claim")
    /\ UNCHANGED <<row, pretix, hooks, sent, seated, redeemed, admitted,
                   issued, crashes>>

\* Fault: an order that was paid is left to a human.
CanceledHookSparesPaid(w) ==
    LET o == task[w].order IN
    /\ At(w, "canceledHook", "claim")
    /\ IF row[o].status = "pending"
       THEN SetStatus(o, "canceled") /\ Goto(w, "release") /\ UNCHANGED hooks
       ELSE Return(w) /\ Answer200(CanceledHook(o)) /\ UNCHANGED row
    /\ UNCHANGED <<pretix, sent, seated, redeemed, admitted, issued, crashes>>

CanceledHookClaim(w) ==
    LET o == task[w].order IN
    /\ At(w, "canceledHook", "claim")
    /\ IF NotCanceled(o)
       THEN SetStatus(o, "canceled") /\ Goto(w, "release") /\ UNCHANGED hooks
       ELSE Return(w) /\ Answer200(CanceledHook(o)) /\ UNCHANGED row
    /\ UNCHANGED <<pretix, sent, seated, redeemed, admitted, issued, crashes>>

CanceledHookRelease(w) ==
    /\ At(w, "canceledHook", "release")
    /\ ReleaseSeats(task[w].order)
    /\ Answer200(CanceledHook(task[w].order))
    /\ Return(w)
    /\ UNCHANGED <<row, pretix, sent, redeemed, admitted, issued, crashes>>

-----------------------------------------------------------------------------
(* The door: checkInOrder and checkInBySecret *)

CheckinRead(w, o) ==
    /\ CheckinEligible(row[o])
    /\ Begin(w, "checkin", o, "redeem")
    /\ UNCHANGED <<row, pretix, hooks, sent, seated, redeemed, admitted,
                   issued, crashes>>

\* Accepted by pretix: the attendee comes in.
CheckinRedeem(w) ==
    LET o == task[w].order IN
    /\ At(w, "checkin", "redeem")
    /\ Redeemable(pretix[o], o \in redeemed)
    /\ redeemed' = redeemed \cup {o}
    /\ Goto(w, "log")
    /\ UNCHANGED <<row, pretix, hooks, sent, seated, admitted, issued,
                   crashes>>

\* Refused by pretix, or no reply; pretix may have redeemed the position.
CheckinRefused(w) ==
    LET o == task[w].order IN
    /\ At(w, "checkin", "redeem")
    /\ \/ UNCHANGED redeemed
       \/ Redeemable(pretix[o], o \in redeemed) /\ redeemed' = redeemed \cup {o}
    /\ Return(w)
    /\ UNCHANGED <<row, pretix, hooks, sent, seated, admitted, issued,
                   crashes>>

CheckinLog(w) ==
    /\ At(w, "checkin", "log")
    /\ admitted' = admitted \cup {task[w].order}
    /\ Return(w)
    /\ UNCHANGED <<row, pretix, hooks, sent, seated, redeemed, issued,
                   crashes>>

-----------------------------------------------------------------------------
(* pretix on its own, and requests that die *)

\* The attendee, or pretix's own admin, pays, cancels or lets the order expire.
PretixMoves(o) ==
    /\ \/ pretix[o] \in {"n", "e"} /\ PretixBecomes(o, "p")
       \/ pretix[o] # "c" /\ PretixBecomes(o, "c")
       \/ pretix[o] = "n" /\ PretixBecomes(o, "e")
    /\ UNCHANGED <<row, seated, redeemed, admitted, issued, task, crashes>>

\* A delivery already answered comes again: the answer was lost.
PretixResends(h) ==
    /\ h \in sent
    /\ hooks' = hooks \cup {h}
    /\ UNCHANGED <<row, pretix, sent, seated, redeemed, admitted, issued,
                   task, crashes>>

\* The process dies, or a database call fails and the handler throws.
Crash(w) ==
    /\ ~Free(w)
    /\ crashes < MaxCrashes
    /\ crashes' = crashes + 1
    /\ Return(w)
    /\ UNCHANGED <<row, pretix, hooks, sent, seated, redeemed, admitted,
                   issued>>

-----------------------------------------------------------------------------
Approve(w) == (\E o \in Orders : ApproveRead(w, o)) \/ ApproveClaim(w)
                  \/ ApproveSync(w)
Reject(w) == (\E o \in Orders : RejectRead(w, o)) \/ RejectClaim(w)
                  \/ RejectSync(w) \/ RejectRelease(w)
CancelRegistration(w) ==
    (\E o \in Orders : CancelRead(w, o)) \/ CancelSync(w) \/ CancelConfirm(w)
        \/ CancelClaim(w) \/ CancelRelease(w)
MarkOrderPaid(w) == (\E o \in Orders : FinanceRead(w, o)) \/ FinanceSync(w)
                  \/ FinanceWrite(w)
DeliverPaid(w, o) == PaidHookNoop(w, o) \/ PaidHookRead(w, o)
DeliverCanceled(w, o) == CanceledHookNoop(w, o) \/ CanceledHookRead(w, o)
HandleOrderPaid(w) ==
    (\E o \in Orders : DeliverPaid(w, o)) \/ PaidHookFetched(w)
        \/ PaidHookFetchFails(w) \/ PaidHookClaim(w)
HandleOrderCanceled(w) ==
    (\E o \in Orders : DeliverCanceled(w, o)) \/ CanceledHookClaim(w)
        \/ CanceledHookRelease(w)
Checkin(w) == (\E o \in Orders : CheckinRead(w, o)) \/ CheckinRedeem(w)
                  \/ CheckinRefused(w) \/ CheckinLog(w)

Next ==
    \/ \E w \in Workers :
          \/ Approve(w) \/ Reject(w) \/ CancelRegistration(w)
          \/ MarkOrderPaid(w)
          \/ HandleOrderPaid(w) \/ HandleOrderCanceled(w)
          \/ Checkin(w) \/ Crash(w)
    \/ \E o \in Orders : PretixMoves(o)
    \/ \E h \in Hook : PretixResends(h)

Spec == Init /\ [][Next]_vars

\* A request that started goes on until it returns.  pretix delivers again
\* until it sees a 200, the server finds room for a delivery again and again,
\* and getOrder does not fail for ever.
HandlerFairness(w) ==
    /\ WF_vars(PaidHookClaim(w))
    /\ WF_vars(CanceledHookClaim(w) \/ CanceledHookRelease(w))
    /\ WF_vars(RejectClaim(w) \/ RejectSync(w) \/ RejectRelease(w))
    /\ WF_vars(CancelSync(w) \/ CancelConfirm(w) \/ CancelClaim(w)
                  \/ CancelRelease(w))
    /\ WF_vars(ApproveClaim(w) \/ ApproveSync(w))
    /\ WF_vars(FinanceSync(w) \/ FinanceWrite(w))
    /\ WF_vars(CheckinRedeem(w) \/ CheckinRefused(w) \/ CheckinLog(w))
    /\ SF_vars(PaidHookFetched(w))

DeliveryFairness(o) ==
    /\ SF_vars(\E w \in Workers : DeliverPaid(w, o))
    /\ SF_vars(\E w \in Workers : DeliverCanceled(w, o))

FairSpec ==
    /\ Spec
    /\ \A w \in Workers : HandlerFairness(w)
    /\ \A o \in Orders : DeliveryFairness(o)

-----------------------------------------------------------------------------
(* Properties *)

\* A decision is made once: approvalStatus moves from pending to approved or
\* to rejected and never again, however many admins press the buttons at once
\* (the compare-and-set updates of approve and reject).
DecisionIsFinal ==
    [][\A o \in Orders : row'[o].approval # row[o].approval =>
          /\ row[o].approval = "pending"
          /\ row'[o].approval \in {"approved", "rejected"}]_vars

\* The direction cancel.ts calls the worst possible one to be wrong in never
\* happens: a registration that shows as canceled, other than by a rejection
\* (whose pretix call is best-effort), is canceled in pretix too.
CancelMirrored ==
    \A o \in Orders :
        row[o].status = "canceled" /\ row[o].approval # "rejected"
            => pretix[o] = "c"

\* Nobody is checked in on a registration that shows as canceled, not even by
\* a scan that read the row before the cancellation: pretix was told first.
NoEntryAfterCancel ==
    [][\A o \in Orders : o \in redeemed' \ redeemed
          => row[o].status # "canceled"]_vars

\* Whoever was let in holds a registration that was decided in their favour,
\* and still is.
AdmittedWasDecided ==
    \A o \in redeemed : Decided(row[o])

\* ticket.issued goes out at most once per order, over concurrent and repeated
\* deliveries of order.paid and a concurrent approval, and only for an order
\* that needs no further decision and, unless it is free, was paid in pretix.
TicketIssuedOnce ==
    \A o \in Orders :
        issued[o] > 0 => /\ issued[o] = 1
                         /\ Decided(row[o])
                         /\ o \in FreeOrders \/ pretix[o] \in {"p", "c"}

\* On an event that wants payment before approval, no paid-tier registration is
\* approved that pretix never saw paid, whatever the approval raced with.
\* (Finance's mark-paid, which takes any refusal for a payment, is left out.)
ApprovedAfterPayment ==
    PayBeforeApproval =>
        \A o \in Orders \ FreeOrders :
            row[o].approval = "approved" => pretix[o] \in {"p", "c"}

\* While no approval and no finance request interferes, an order keeps its
\* reserved seat for as long as it is not canceled: no seat is released on
\* behalf of an order that then turns out to be live, in whatever order the
\* payment's and the cancellation's webhooks arrive.
LiveOrderKeepsSeat ==
    \A o \in SeatedOrders :
        RegistrationState(row[o]) # "rejected" /\ row[o].status # "canceled"
            => o \in seated

\* README: seats are "released on cancel".  Every canceled order's seats go
\* back to the pool in the end.
CanceledFreesSeat ==
    \A o \in SeatedOrders : row[o].status = "canceled" ~> o \notin seated

\* A payment pretix recorded shows up here, over failed fetches and lost
\* answers (or the order is canceled instead).
PaymentReconciled ==
    \A o \in Orders : pretix[o] = "p" ~> row[o].status # "pending"

\* A cancellation or refund made in pretix shows up here.
CancellationReconciled ==
    \A o \in Orders : pretix[o] = "c" ~> row[o].status = "canceled"

\* What pretix recorded, the local row shows in the end, whatever was lost.
MirrorCatchesUp == PaymentReconciled /\ CancellationReconciled

-----------------------------------------------------------------------------
(* The inductive invariant behind CancelMirrored, NoEntryAfterCancel,      *)
(* AdmittedWasDecided and TicketIssuedOnce                                 *)

\* A webhook is evidence: pretix's status has reached what it reports.
HooksReport ==
    /\ hooks \subseteq sent
    /\ \A h \in sent :
          /\ h.kind = "canceled" => pretix[h.order] = "c"
          /\ h.kind = "paid" => pretix[h.order] \in {"p", "c"}

\* What a task has learnt, and relies on later, stays true.
TaskKnows(w) ==
    LET o == task[w].order IN
    /\ At(w, "cancel", "claim") \/ task[w].op = "canceledHook"
          => pretix[o] = "c"
    /\ task[w].op = "paidHook" =>
          /\ pretix[o] \in {"p", "c"}
          /\ task[w].seen.approval # "pending"
                => row[o].approval = task[w].seen.approval
    /\ task[w].op = "checkin" => Decided(row[o])

TasksKnow == \A w \in Workers : TaskKnows(w)

\* The approval of a free order that is about to issue the ticket is the only
\* one, and nobody has issued it yet.
ApprovalsToSync ==
    /\ \A w \in Workers :
          At(w, "approve", "sync") =>
              LET o == task[w].order IN
              /\ o \in FreeOrders
              /\ row[o].approval = "approved"
              /\ row[o].status # "pending"
              /\ issued[o] = 0
    /\ \A v, w \in Workers :
          At(v, "approve", "sync") /\ At(w, "approve", "sync")
             /\ task[v].order = task[w].order => v = w

\* No payment is awaited any more once the ticket is out, nor of a rejected
\* order.
NothingAwaited ==
    \A o \in Orders :
        row[o].approval = "rejected" \/ issued[o] > 0
            => row[o].status # "pending"

\* The conjunction is inductive: each part needs the others.
LifecycleInv ==
    /\ TypeOK
    /\ HooksReport
    /\ TasksKnow
    /\ ApprovalsToSync
    /\ NothingAwaited
    /\ CancelMirrored
    /\ AdmittedWasDecided
    /\ TicketIssuedOnce

-----------------------------------------------------------------------------
(* What a comment or the README says and the code does not keep *)

\* order-paid.ts: an order paid before its approval is marked paid, and
\* approve() issues the ticket once the admin decides.  So an approval does
\* not take a recorded payment back.
ApprovalKeepsPayment ==
    [][\A o \in Orders :
          row[o].approval = "pending" /\ row'[o].approval = "approved"
             /\ row[o].status = "paid"
          => row'[o].status = "paid"]_vars

\* seats-waitlist-design.md: a reserved seat stays with its order until
\* cancel.  LiveOrderKeepsSeat, once admins may approve and finance may mark
\* paid an order that was canceled meanwhile, states exactly that.

-----------------------------------------------------------------------------
(* The abstract specification *)

View == INSTANCE RegistrationView
            WITH state <- [o \in Orders |-> RegistrationState(row[o])]

\* Without finance's unconditional write, what everyone is shown of a
\* registration only ever moves forward, as RegistrationView has it.
RefinesView == View!ViewSpec
=============================================================================
