----------------------- MODULE OrderLifecycle_proofs -----------------------
(***************************************************************************)
(* Proofs about OrderLifecycle, for any number of orders and of concurrent *)
(* requests, any set of operations and any bound on crashes.               *)
(***************************************************************************)
EXTENDS OrderLifecycle, TLAPS

USE OrdersAssumption, OpsAssumption, PolicyAssumption, BoundAssumption

-----------------------------------------------------------------------------
(* What the calls to pretix can do *)

LEMMA MarkPaidOutcome ==
    ASSUME NEW s \in OrderStatus, NEW out \in MarkPaidOutcomes(s)
    PROVE  /\ out.status \in OrderStatus
           /\ s \in {"p", "c"} => out.status = s
BY DEF OrderStatus, MarkPaidOutcomes, Moves, Refused, Unreachable

LEMMA CancelOutcome ==
    ASSUME NEW s \in OrderStatus, NEW out \in CancelOutcomes(s)
    PROVE  /\ out.status \in {s, "c"}
           /\ out.reply \in Reply
           /\ out.reply = "ok" => out.status = "c"
BY DEF OrderStatus, CancelOutcomes, Moves, Refused, Unreachable, Reply

\* Whoever moves pretix's status along, the webhook that reports it is true.
LEMMA PretixStep ==
    ASSUME TypeOK, NEW o \in Orders, NEW s \in OrderStatus,
           PretixBecomes(o, s)
    PROVE  /\ pretix' \in [Orders -> OrderStatus]
           /\ hooks' \subseteq Hook
           /\ sent' \subseteq Hook
BY DEF TypeOK, PretixBecomes, Hook, OrderStatus

-----------------------------------------------------------------------------
(* Type correctness *)

LEMMA TypeInit == Init => TypeOK
  <1> SUFFICES ASSUME Init PROVE TypeOK
    OBVIOUS
  <1>1. issued \in [Orders -> Nat]
    BY DEF Init
  <1>2. hooks \subseteq Hook /\ sent \subseteq Hook
    BY DEF Init, Hook
  <1>. QED
    BY <1>1, <1>2 DEF Init, TypeOK


\* A worker that is at a step of a handler has a proper task.
LEMMA BusyTask ==
    ASSUME TypeOK, NEW w \in Workers, task[w].op # "none"
    PROVE  task[w] \in Task /\ task[w].order \in Orders
BY DEF TypeOK, NoTask, Task

LEMMA GotoType ==
    ASSUME TypeOK, NEW w \in Workers, task[w].op # "none",
           NEW at \in Steps, Goto(w, at)
    PROVE  task' \in [Workers -> Task \cup {NoTask}]
  <1>1. task[w] \in Task
    BY BusyTask
  <1>2. [task[w] EXCEPT !.at = at] \in Task
    BY <1>1 DEF Task
  <1>. QED
    BY <1>2 DEF Goto, TypeOK

LEMMA ReturnType ==
    ASSUME TypeOK, NEW w \in Workers, Return(w)
    PROVE  task' \in [Workers -> Task \cup {NoTask}]
BY DEF Return, TypeOK

LEMMA BeginType ==
    ASSUME TypeOK, NEW w \in Workers, NEW op, NEW o \in Orders,
           NEW at \in Steps, Begin(w, op, o, at)
    PROVE  task' \in [Workers -> Task \cup {NoTask}]
  <1>1. [op |-> op, order |-> o, at |-> at, seen |-> row[o]] \in Task
    BY DEF TypeOK, Begin, Task
  <1>. QED
    BY <1>1 DEF Begin, TypeOK

LEMMA StatusType ==
    ASSUME TypeOK, NEW o \in Orders, NEW s \in Status, SetStatus(o, s)
    PROVE  row' \in [Orders -> Row]
BY DEF TypeOK, SetStatus, Row

LEMMA DecideType ==
    ASSUME TypeOK, NEW o \in Orders, NEW a \in Approval, NEW s \in Status,
           Decide(o, a, s)
    PROVE  row' \in [Orders -> Row]
BY DEF TypeOK, Decide, Row

LEMMA IssueType ==
    ASSUME TypeOK, NEW o \in Orders, EmitTicketIssued(o)
    PROVE  issued' \in [Orders -> Nat]
BY DEF TypeOK, EmitTicketIssued

LEMMA TypeStep == TypeOK /\ [Next]_vars => TypeOK'
  <1> SUFFICES ASSUME TypeOK, [Next]_vars PROVE TypeOK'
    OBVIOUS
  <1> USE BusyTask, GotoType, ReturnType, BeginType
      DEF At, Steps, Status, Approval
  <1>1. ASSUME NEW w \in Workers, Approve(w) PROVE TypeOK'
    <2>1. ASSUME NEW o \in Orders, ApproveRead(w, o) PROVE TypeOK'
      BY <2>1 DEF ApproveRead, TypeOK
    <2>2. CASE ApproveClaim(w)
      <3>1. ApprovedStatus(task[w].order) \in Status
        BY DEF ApprovedStatus
      <3>. QED
        BY <2>2, <3>1, DecideType DEF ApproveClaim, TypeOK
    <2>3. CASE ApproveSync(w)
      <3>1. task[w].order \in Orders
        BY <2>3 DEF ApproveSync
      <3>2. PICK out \in MarkPaidOutcomes(pretix[task[w].order]) :
                /\ PretixBecomes(task[w].order, out.status)
                /\ \/ UNCHANGED issued
                   \/ EmitTicketIssued(task[w].order)
        BY <2>3 DEF ApproveSync
      <3>3. out.status \in OrderStatus
        BY <3>1, MarkPaidOutcome DEF TypeOK
      <3>. QED
        BY <2>3, <3>1, <3>2, <3>3, PretixStep, IssueType
        DEF ApproveSync, TypeOK
    <2>. QED
      BY <1>1, <2>1, <2>2, <2>3 DEF Approve
  <1>2. ASSUME NEW w \in Workers, Reject(w) PROVE TypeOK'
    <2>1. ASSUME NEW o \in Orders, RejectRead(w, o) PROVE TypeOK'
      BY <2>1 DEF RejectRead, TypeOK
    <2>2. CASE RejectClaim(w)
      BY <2>2, DecideType DEF RejectClaim, TypeOK
    <2>3. CASE RejectSync(w)
      <3>1. task[w].order \in Orders
        BY <2>3 DEF RejectSync
      <3>2. PICK out \in CancelOutcomes(pretix[task[w].order]) :
                PretixBecomes(task[w].order, out.status)
        BY <2>3 DEF RejectSync
      <3>3. out.status \in OrderStatus
        BY <3>1, CancelOutcome DEF TypeOK, OrderStatus
      <3>. QED
        BY <2>3, <3>1, <3>2, <3>3, PretixStep DEF RejectSync, TypeOK
    <2>4. CASE RejectRelease(w)
      BY <2>4 DEF RejectRelease, ReleaseSeats, TypeOK
    <2>. QED
      BY <1>2, <2>1, <2>2, <2>3, <2>4 DEF Reject
  <1>3. ASSUME NEW w \in Workers, CancelRegistration(w) PROVE TypeOK'
    <2>1. ASSUME NEW o \in Orders, CancelRead(w, o) PROVE TypeOK'
      BY <2>1 DEF CancelRead, TypeOK
    <2>2. CASE CancelSync(w)
      <3>1. task[w].order \in Orders
        BY <2>2 DEF CancelSync
      <3>2. PICK out \in CancelOutcomes(pretix[task[w].order]) :
                PretixBecomes(task[w].order, out.status)
        BY <2>2 DEF CancelSync
      <3>3. out.status \in OrderStatus
        BY <3>1, CancelOutcome DEF TypeOK, OrderStatus
      <3>4. task' \in [Workers -> Task \cup {NoTask}]
        BY <2>2 DEF CancelSync
      <3>. QED
        BY <2>2, <3>1, <3>2, <3>3, <3>4, PretixStep DEF CancelSync, TypeOK
    <2>3. CASE CancelConfirm(w)
      BY <2>3 DEF CancelConfirm, TypeOK
    <2>4. CASE CancelClaim(w)
      BY <2>4, StatusType DEF CancelClaim, TypeOK
    <2>5. CASE CancelRelease(w)
      BY <2>5 DEF CancelRelease, ReleaseSeats, TypeOK
    <2>. QED
      BY <1>3, <2>1, <2>2, <2>3, <2>4, <2>5 DEF CancelRegistration
  <1>4. ASSUME NEW w \in Workers, MarkOrderPaid(w) PROVE TypeOK'
    <2>1. ASSUME NEW o \in Orders, FinanceRead(w, o) PROVE TypeOK'
      BY <2>1 DEF FinanceRead, TypeOK
    <2>2. CASE FinanceSync(w)
      <3>1. task[w].order \in Orders
        BY <2>2 DEF FinanceSync
      <3>2. PICK out \in MarkPaidOutcomes(pretix[task[w].order]) :
                PretixBecomes(task[w].order, out.status)
        BY <2>2 DEF FinanceSync
      <3>3. out.status \in OrderStatus
        BY <3>1, MarkPaidOutcome DEF TypeOK
      <3>4. task' \in [Workers -> Task \cup {NoTask}]
        BY <2>2 DEF FinanceSync
      <3>. QED
        BY <2>2, <3>1, <3>2, <3>3, <3>4, PretixStep DEF FinanceSync, TypeOK
    <2>3. CASE FinanceWrite(w)
      BY <2>3, StatusType DEF FinanceWrite, TypeOK
    <2>. QED
      BY <1>4, <2>1, <2>2, <2>3 DEF MarkOrderPaid
  <1>5. ASSUME NEW w \in Workers, HandleOrderPaid(w) PROVE TypeOK'
    <2>1. ASSUME NEW o \in Orders, PaidHookNoop(w, o) PROVE TypeOK'
      BY <2>1 DEF PaidHookNoop, Answer200, TypeOK
    <2>2. ASSUME NEW o \in Orders, PaidHookRead(w, o) PROVE TypeOK'
      BY <2>2 DEF PaidHookRead, TypeOK
    <2>3. CASE PaidHookFetched(w)
      BY <2>3 DEF PaidHookFetched, TypeOK
    <2>4. CASE PaidHookFetchFails(w)
      BY <2>4 DEF PaidHookFetchFails, TypeOK
    <2>5. CASE PaidHookClaim(w)
      <3>1. task[w].order \in Orders
        BY <2>5 DEF PaidHookClaim
      <3>2. row' \in [Orders -> Row]
        BY <2>5, <3>1, StatusType DEF PaidHookClaim, TypeOK
      <3>3. issued' \in [Orders -> Nat]
        BY <2>5, <3>1, IssueType DEF PaidHookClaim, TypeOK
      <3>. QED
        BY <2>5, <3>2, <3>3 DEF PaidHookClaim, Answer200, TypeOK
    <2>. QED
      BY <1>5, <2>1, <2>2, <2>3, <2>4, <2>5 DEF HandleOrderPaid, DeliverPaid
  <1>6. ASSUME NEW w \in Workers, HandleOrderCanceled(w) PROVE TypeOK'
    <2>1. ASSUME NEW o \in Orders, CanceledHookNoop(w, o) PROVE TypeOK'
      BY <2>1 DEF CanceledHookNoop, Answer200, TypeOK
    <2>2. ASSUME NEW o \in Orders, CanceledHookRead(w, o) PROVE TypeOK'
      BY <2>2 DEF CanceledHookRead, TypeOK
    <2>3. CASE CanceledHookClaim(w)
      BY <2>3, StatusType DEF CanceledHookClaim, Answer200, TypeOK
    <2>4. CASE CanceledHookRelease(w)
      BY <2>4 DEF CanceledHookRelease, ReleaseSeats, Answer200, TypeOK
    <2>. QED
      BY <1>6, <2>1, <2>2, <2>3, <2>4
      DEF HandleOrderCanceled, DeliverCanceled
  <1>7. ASSUME NEW w \in Workers, Checkin(w) PROVE TypeOK'
    <2>1. ASSUME NEW o \in Orders, CheckinRead(w, o) PROVE TypeOK'
      BY <2>1 DEF CheckinRead, TypeOK
    <2>2. CASE CheckinRedeem(w)
      BY <2>2 DEF CheckinRedeem, TypeOK
    <2>3. CASE CheckinRefused(w)
      BY <2>3 DEF CheckinRefused, TypeOK
    <2>4. CASE CheckinLog(w)
      BY <2>4 DEF CheckinLog, TypeOK
    <2>. QED
      BY <1>7, <2>1, <2>2, <2>3, <2>4 DEF Checkin
  <1>8. ASSUME NEW w \in Workers, Crash(w) PROVE TypeOK'
    BY <1>8 DEF Crash, TypeOK
  <1>9. ASSUME NEW o \in Orders, PretixMoves(o) PROVE TypeOK'
    BY <1>9, PretixStep DEF PretixMoves, TypeOK, OrderStatus
  <1>10. ASSUME NEW h \in Hook, PretixResends(h) PROVE TypeOK'
    BY <1>10 DEF PretixResends, TypeOK
  <1>11. CASE UNCHANGED vars
    BY <1>11 DEF vars, TypeOK
  <1>. QED
    BY <1>1, <1>2, <1>3, <1>4, <1>5, <1>6, <1>7, <1>8, <1>9, <1>10, <1>11
    DEF Next

\* Every variable keeps its type.
THEOREM TypeCorrect == Spec => []TypeOK
  <1>. QED
    BY TypeInit, TypeStep, PTL DEF Spec

-----------------------------------------------------------------------------
(* What every step leaves alone, or moves in one direction only *)

\* pretix never takes a payment or a cancellation back.
PretixForward ==
    \A o \in Orders :
        /\ pretix[o] = "c" => pretix'[o] = "c"
        /\ pretix[o] = "p" => pretix'[o] \in {"p", "c"}

\* A decision is made once.
DecisionForward ==
    \A o \in Orders :
        row'[o].approval = row[o].approval
            \/ /\ row[o].approval = "pending"
               /\ row'[o].approval \in {"approved", "rejected"}

\* Only calls to pretix and pretix itself change its status.
LEMMA WhoTouchesPretix ==
    ASSUME [Next]_vars
    PROVE  \/ /\ UNCHANGED <<pretix, sent>>
              /\ hooks' \subseteq hooks \cup sent
           \/ \E w \in Workers : \/ ApproveSync(w) \/ RejectSync(w)
                                 \/ CancelSync(w) \/ FinanceSync(w)
           \/ \E o \in Orders : PretixMoves(o)
BY DEF Next, vars, Approve, ApproveRead, ApproveClaim,
       Reject, RejectRead, RejectClaim, RejectRelease,
       CancelRegistration, CancelRead, CancelConfirm, CancelClaim,
       CancelRelease, MarkOrderPaid, FinanceRead, FinanceWrite,
       HandleOrderPaid, DeliverPaid, PaidHookNoop, PaidHookRead,
       PaidHookFetched, PaidHookFetchFails, PaidHookClaim,
       HandleOrderCanceled, DeliverCanceled, CanceledHookNoop,
       CanceledHookRead, CanceledHookClaim, CanceledHookRelease,
       Checkin, CheckinRead, CheckinRedeem, CheckinRefused, CheckinLog,
       Crash, PretixResends, Answer200

\* Only the claims and finance's write change a row.
LEMMA WhoTouchesRow ==
    ASSUME [Next]_vars
    PROVE  \/ UNCHANGED row
           \/ \E w \in Workers : \/ ApproveClaim(w) \/ RejectClaim(w)
                                 \/ CancelClaim(w) \/ FinanceWrite(w)
                                 \/ PaidHookClaim(w) \/ CanceledHookClaim(w)
BY DEF Next, vars, Approve, ApproveRead, ApproveSync,
       Reject, RejectRead, RejectSync, RejectRelease,
       CancelRegistration, CancelRead, CancelSync, CancelConfirm,
       CancelRelease, MarkOrderPaid, FinanceRead, FinanceSync,
       HandleOrderPaid, DeliverPaid, PaidHookNoop, PaidHookRead,
       PaidHookFetched, PaidHookFetchFails,
       HandleOrderCanceled, DeliverCanceled, CanceledHookNoop,
       CanceledHookRead, CanceledHookRelease,
       Checkin, CheckinRead, CheckinRedeem, CheckinRefused, CheckinLog,
       Crash, PretixMoves, PretixResends

\* Only two steps issue a ticket.
LEMMA WhoIssues ==
    ASSUME [Next]_vars
    PROVE  \/ UNCHANGED issued
           \/ \E w \in Workers : ApproveSync(w) \/ PaidHookClaim(w)
BY DEF Next, vars, Approve, ApproveRead, ApproveClaim,
       Reject, RejectRead, RejectClaim, RejectSync, RejectRelease,
       CancelRegistration, CancelRead, CancelSync, CancelConfirm,
       CancelClaim, CancelRelease, MarkOrderPaid, FinanceRead, FinanceSync,
       FinanceWrite, HandleOrderPaid, DeliverPaid, PaidHookNoop,
       PaidHookRead, PaidHookFetched, PaidHookFetchFails,
       HandleOrderCanceled, DeliverCanceled, CanceledHookNoop,
       CanceledHookRead, CanceledHookClaim, CanceledHookRelease,
       Checkin, CheckinRead, CheckinRedeem, CheckinRefused, CheckinLog,
       Crash, PretixMoves, PretixResends

\* Only a scan has pretix redeem a position.
LEMMA Redeemers ==
    ASSUME [Next]_vars, NEW o \in redeemed' \ redeemed
    PROVE  \E w \in Workers : /\ CheckinRedeem(w) \/ CheckinRefused(w)
                              /\ o = task[w].order
                              /\ Redeemable(pretix[o], o \in redeemed)
BY DEF Next, vars, Approve, ApproveRead, ApproveClaim, ApproveSync,
       Reject, RejectRead, RejectClaim, RejectSync, RejectRelease,
       CancelRegistration, CancelRead, CancelSync, CancelConfirm,
       CancelClaim, CancelRelease, MarkOrderPaid, FinanceRead, FinanceSync,
       FinanceWrite, HandleOrderPaid, DeliverPaid, PaidHookNoop,
       PaidHookRead, PaidHookFetched, PaidHookFetchFails, PaidHookClaim,
       HandleOrderCanceled, DeliverCanceled, CanceledHookNoop,
       CanceledHookRead, CanceledHookClaim, CanceledHookRelease,
       Checkin, CheckinRead, CheckinRedeem, CheckinRefused, CheckinLog,
       Crash, PretixMoves, PretixResends

\* Every call to pretix, and every move of its own, records what it did.
LEMMA PretixRecords ==
    ASSUME TypeOK, HooksReport, NEW o \in Orders, NEW s \in OrderStatus,
           pretix[o] = "c" => s = "c", pretix[o] = "p" => s \in {"p", "c"},
           PretixBecomes(o, s)
    PROVE  PretixForward /\ HooksReport' /\ pretix'[o] = s
BY DEF TypeOK, HooksReport, PretixBecomes, PretixForward, Hook, OrderStatus

LEMMA PretixMonotone ==
    ASSUME TypeOK, HooksReport, [Next]_vars
    PROVE  PretixForward
  <1> USE BusyTask
  <1>1. CASE UNCHANGED <<pretix, sent>>
    BY <1>1 DEF PretixForward
  <1>2. ASSUME NEW w \in Workers, ApproveSync(w) \/ FinanceSync(w)
        PROVE  PretixForward
    <2>1. task[w].order \in Orders
      BY <1>2 DEF ApproveSync, FinanceSync, At
    <2>2. PICK out \in MarkPaidOutcomes(pretix[task[w].order]) :
              PretixBecomes(task[w].order, out.status)
      BY <1>2 DEF ApproveSync, FinanceSync
    <2>. QED
      BY <2>1, <2>2, MarkPaidOutcome, PretixRecords DEF TypeOK
  <1>3. ASSUME NEW w \in Workers, RejectSync(w) \/ CancelSync(w)
        PROVE  PretixForward
    <2>1. task[w].order \in Orders
      BY <1>3 DEF RejectSync, CancelSync, At
    <2>2. PICK out \in CancelOutcomes(pretix[task[w].order]) :
              PretixBecomes(task[w].order, out.status)
      BY <1>3 DEF RejectSync, CancelSync
    <2>. QED
      BY <2>1, <2>2, CancelOutcome, PretixRecords DEF TypeOK, OrderStatus
  <1>4. ASSUME NEW o \in Orders, PretixMoves(o) PROVE PretixForward
    BY <1>4, PretixRecords DEF PretixMoves, OrderStatus
  <1>. QED
    BY <1>1, <1>2, <1>3, <1>4, WhoTouchesPretix

LEMMA DecisionStep ==
    ASSUME TypeOK, [Next]_vars
    PROVE  DecisionForward
  <1> USE BusyTask DEF At, TypeOK, Row, DecisionForward
  <1>1. CASE UNCHANGED row
    BY <1>1
  <1>2. ASSUME NEW w \in Workers, ApproveClaim(w) PROVE DecisionForward
    BY <1>2 DEF ApproveClaim, DecisionOpen, Decide
  <1>3. ASSUME NEW w \in Workers, RejectClaim(w) PROVE DecisionForward
    BY <1>3 DEF RejectClaim, DecisionOpen, Decide
  <1>4. ASSUME NEW w \in Workers,
               \/ CancelClaim(w) \/ FinanceWrite(w)
               \/ PaidHookClaim(w) \/ CanceledHookClaim(w)
        PROVE  DecisionForward
    BY <1>4 DEF CancelClaim, FinanceWrite, PaidHookClaim, CanceledHookClaim,
                SetStatus
  <1>. QED
    BY <1>1, <1>2, <1>3, <1>4, WhoTouchesRow

\* Nobody asks for a payment again once the decision and a payment, a
\* cancellation or a rejection are in.
StatusForward ==
    \A o \in Orders :
        row[o].status # "pending" /\ row[o].approval # "pending"
            => row'[o].status # "pending"

LEMMA StatusStep ==
    ASSUME TypeOK, [Next]_vars
    PROVE  StatusForward
  <1> USE BusyTask DEF At, TypeOK, Row, StatusForward
  <1>1. CASE UNCHANGED row
    BY <1>1
  <1>2. ASSUME NEW w \in Workers, ApproveClaim(w) \/ RejectClaim(w)
        PROVE  StatusForward
    BY <1>2 DEF ApproveClaim, RejectClaim, DecisionOpen, Decide
  <1>3. ASSUME NEW w \in Workers,
               \/ CancelClaim(w) \/ FinanceWrite(w)
               \/ PaidHookClaim(w) \/ CanceledHookClaim(w)
        PROVE  StatusForward
    BY <1>3 DEF CancelClaim, FinanceWrite, PaidHookClaim, CanceledHookClaim,
                SetStatus
  <1>. QED
    BY <1>1, <1>2, <1>3, WhoTouchesRow

\* approve and reject may race, and any number of admins with them: the first
\* compare-and-set decides.
THEOREM DecisionFinal == Spec => DecisionIsFinal
  <1>1. TypeOK /\ [Next]_vars =>
            [\A o \in Orders : row'[o].approval # row[o].approval =>
                 /\ row[o].approval = "pending"
                 /\ row'[o].approval \in {"approved", "rejected"}]_vars
    BY DecisionStep DEF DecisionForward
  <1>. QED
    BY <1>1, TypeCorrect, PTL DEF Spec, DecisionIsFinal

-----------------------------------------------------------------------------
(* The inductive invariant, part by part *)

LEMMA LifecycleInit == Init => LifecycleInv
  <1> SUFFICES ASSUME Init PROVE LifecycleInv
    OBVIOUS
  <1>1. TypeOK
    BY TypeInit
  <1>2. HooksReport
    BY DEF Init, HooksReport
  <1>3. TasksKnow /\ ApprovalsToSync
    BY DEF Init, TasksKnow, TaskKnows, ApprovalsToSync, At, NoTask
  <1>4. NothingAwaited /\ CancelMirrored
    BY DEF Init, FreshOrder, NothingAwaited, CancelMirrored
  <1>5. AdmittedWasDecided
    BY DEF Init, AdmittedWasDecided
  <1>6. TicketIssuedOnce
    BY DEF Init, FreshOrder, TicketIssuedOnce, Decided
  <1>. QED
    BY <1>1, <1>2, <1>3, <1>4, <1>5, <1>6 DEF LifecycleInv

LEMMA HooksStep ==
    ASSUME TypeOK, HooksReport, [Next]_vars
    PROVE  HooksReport'
  <1> USE BusyTask DEF At
  <1>1. ASSUME NEW w \in Workers, ApproveSync(w) \/ FinanceSync(w)
        PROVE  HooksReport'
    <2>1. task[w].order \in Orders
      BY <1>1 DEF ApproveSync, FinanceSync
    <2>2. PICK out \in MarkPaidOutcomes(pretix[task[w].order]) :
              PretixBecomes(task[w].order, out.status)
      BY <1>1 DEF ApproveSync, FinanceSync
    <2>. QED
      BY <2>1, <2>2, MarkPaidOutcome, PretixRecords DEF TypeOK
  <1>2. ASSUME NEW w \in Workers, RejectSync(w) \/ CancelSync(w)
        PROVE  HooksReport'
    <2>1. task[w].order \in Orders
      BY <1>2 DEF RejectSync, CancelSync
    <2>2. PICK out \in CancelOutcomes(pretix[task[w].order]) :
              PretixBecomes(task[w].order, out.status)
      BY <1>2 DEF RejectSync, CancelSync
    <2>. QED
      BY <2>1, <2>2, CancelOutcome, PretixRecords DEF TypeOK, OrderStatus
  <1>3. ASSUME NEW o \in Orders, PretixMoves(o) PROVE HooksReport'
    BY <1>3, PretixRecords DEF PretixMoves, OrderStatus
  <1>4. CASE UNCHANGED <<pretix, sent>> /\ hooks' \subseteq hooks \cup sent
    BY <1>4 DEF HooksReport
  <1>. QED
    BY <1>1, <1>2, <1>3, <1>4, WhoTouchesPretix

\* A task that goes on as it was keeps what it knows.
LEMMA TaskStillKnows ==
    ASSUME TypeOK, PretixForward, DecisionForward,
           NEW w \in Workers, TaskKnows(w), task'[w] = task[w]
    PROVE  TaskKnows(w)'
  <1>1. CASE task[w].op = "none"
    BY <1>1 DEF TaskKnows, At
  <1>2. CASE task[w].op # "none"
    <2>1. task[w].order \in Orders /\ task[w].seen \in Row
      BY <1>2, BusyTask DEF Task
    <2>. QED
      BY <2>1 DEF TaskKnows, At, Decided, PretixForward, DecisionForward
  <1>. QED
    BY <1>1, <1>2

LEMMA TasksStep ==
    ASSUME LifecycleInv, [Next]_vars
    PROVE  TasksKnow'
  <1> USE DEF At
  <1>1. TypeOK /\ PretixForward /\ DecisionForward
    BY PretixMonotone, DecisionStep DEF LifecycleInv
  <1>2. SUFFICES ASSUME NEW v \in Workers PROVE TaskKnows(v)'
    BY DEF TasksKnow
  <1>3. TaskKnows(v)
    BY DEF LifecycleInv, TasksKnow
  <1>4. CASE task'[v] = task[v]
    BY <1>1, <1>3, <1>4, TaskStillKnows
  <1>5. CASE task'[v] = NoTask
    BY <1>5 DEF TaskKnows, NoTask
  <1>6. ASSUME NEW w \in Workers, Approve(w) \/ Reject(w) \/ MarkOrderPaid(w)
        PROVE  TaskKnows(v)'
    <2>1. \/ task'[v] \in {task[v], NoTask}
          \/ task'[v].op \in {"approve", "reject", "finance"}
      BY <1>1, <1>6, BusyTask
      DEF Approve, ApproveRead, ApproveClaim, ApproveSync,
          Reject, RejectRead, RejectClaim, RejectSync, RejectRelease,
          MarkOrderPaid, FinanceRead, FinanceSync, FinanceWrite,
          Begin, Goto, Return, TypeOK, Task
    <2>2. CASE task'[v].op \in {"approve", "reject", "finance"}
      <3>1. /\ task'[v].op # "cancel" /\ task'[v].op # "canceledHook"
            /\ task'[v].op # "paidHook" /\ task'[v].op # "checkin"
        BY <2>2
      <3>. QED
        BY <3>1 DEF TaskKnows
    <2>. QED
      BY <2>1, <2>2, <1>4, <1>5
  <1>7. ASSUME NEW w \in Workers, CancelRegistration(w) PROVE TaskKnows(v)'
    <2>1. ASSUME NEW o \in Orders, CancelRead(w, o) PROVE TaskKnows(v)'
      <3>1. CASE v # w
        BY <1>1, <1>4, <2>1, <3>1 DEF CancelRead, Begin, TypeOK
      <3>2. CASE v = w
        BY <1>1, <2>1, <3>2 DEF CancelRead, Begin, TaskKnows, TypeOK
      <3>. QED
        BY <3>1, <3>2
    <2>2. CASE CancelSync(w)
      <3>1. task[w] \in Task /\ task[w].order \in Orders
        BY <1>1, <2>2, BusyTask DEF CancelSync
      <3>2. PICK out \in CancelOutcomes(pretix[task[w].order]) :
                /\ PretixBecomes(task[w].order, out.status)
                /\ \/ out.reply = "ok"      /\ Goto(w, "claim")
                   \/ out.reply = "invalid" /\ Goto(w, "confirm")
                   \/ out.reply = "error"   /\ Return(w)
        BY <2>2 DEF CancelSync
      <3>3. out.reply = "ok" => pretix'[task[w].order] = "c"
        BY <1>1, <3>1, <3>2, CancelOutcome DEF PretixBecomes, TypeOK
      <3>. QED
        BY <1>1, <1>4, <1>5, <2>2, <3>1, <3>2, <3>3
        DEF CancelSync, Goto, Return, TaskKnows, TypeOK, Task
    <2>3. CASE CancelConfirm(w)
      <3>1. task[w] \in Task
        BY <1>1, <2>3, BusyTask DEF CancelConfirm
      <3>. QED
        BY <1>1, <1>4, <1>5, <2>3, <3>1
        DEF CancelConfirm, RefusalTolerable, Goto, Return, TaskKnows, TypeOK,
            Task
    <2>4. CASE CancelClaim(w) \/ CancelRelease(w)
      <3>1. task[w] \in Task
        BY <1>1, <2>4, BusyTask DEF CancelClaim, CancelRelease
      <3>2. \/ task'[v] \in {task[v], NoTask}
            \/ task'[v].op = "cancel" /\ task'[v].at = "release"
        BY <1>1, <2>4, <3>1
        DEF CancelClaim, CancelRelease, Goto, Return, TypeOK, Task
      <3>. QED
        BY <3>2, <1>4, <1>5 DEF TaskKnows
    <2>. QED
      BY <1>7, <2>1, <2>2, <2>3, <2>4 DEF CancelRegistration
  <1>8. ASSUME NEW w \in Workers, HandleOrderPaid(w) PROVE TaskKnows(v)'
    <2>1. ASSUME NEW o \in Orders, PaidHookNoop(w, o) PROVE TaskKnows(v)'
      BY <1>4, <2>1 DEF PaidHookNoop
    <2>2. ASSUME NEW o \in Orders, PaidHookRead(w, o) PROVE TaskKnows(v)'
      <3>1. pretix[o] \in {"p", "c"}
        BY <2>2 DEF PaidHookRead, PaidHook, LifecycleInv, HooksReport
      <3>2. CASE v # w
        BY <1>1, <1>4, <2>2, <3>2 DEF PaidHookRead, Begin, TypeOK
      <3>3. CASE v = w
        BY <1>1, <2>2, <3>1, <3>3 DEF PaidHookRead, Begin, TaskKnows, TypeOK
      <3>. QED
        BY <3>2, <3>3
    <2>3. CASE PaidHookFetched(w)
      <3>1. task[w] \in Task
        BY <1>1, <2>3, BusyTask DEF PaidHookFetched
      <3>2. CASE v # w
        BY <1>1, <1>4, <2>3, <3>2 DEF PaidHookFetched, Goto, TypeOK
      <3>3. CASE v = w
        BY <1>1, <1>3, <2>3, <3>1, <3>3
        DEF PaidHookFetched, Goto, TaskKnows, TypeOK, Task
      <3>. QED
        BY <3>2, <3>3
    <2>4. CASE PaidHookFetchFails(w) \/ PaidHookClaim(w)
      BY <1>1, <1>4, <1>5, <2>4
      DEF PaidHookFetchFails, PaidHookClaim, Return, TypeOK
    <2>. QED
      BY <1>8, <2>1, <2>2, <2>3, <2>4 DEF HandleOrderPaid, DeliverPaid
  <1>9. ASSUME NEW w \in Workers, HandleOrderCanceled(w) PROVE TaskKnows(v)'
    <2>1. ASSUME NEW o \in Orders, CanceledHookNoop(w, o) PROVE TaskKnows(v)'
      BY <1>4, <2>1 DEF CanceledHookNoop
    <2>2. ASSUME NEW o \in Orders, CanceledHookRead(w, o) PROVE TaskKnows(v)'
      <3>1. pretix[o] = "c"
        BY <2>2 DEF CanceledHookRead, CanceledHook, LifecycleInv, HooksReport
      <3>2. CASE v # w
        BY <1>1, <1>4, <2>2, <3>2 DEF CanceledHookRead, Begin, TypeOK
      <3>3. CASE v = w
        BY <1>1, <2>2, <3>1, <3>3
        DEF CanceledHookRead, Begin, TaskKnows, TypeOK
      <3>. QED
        BY <3>2, <3>3
    <2>3. CASE CanceledHookClaim(w) \/ CanceledHookRelease(w)
      <3>1. task[w] \in Task
        BY <1>1, <2>3, BusyTask DEF CanceledHookClaim, CanceledHookRelease
      <3>2. UNCHANGED pretix
        BY <2>3 DEF CanceledHookClaim, CanceledHookRelease
      <3>. QED
        BY <1>1, <1>3, <1>4, <1>5, <2>3, <3>1, <3>2
        DEF CanceledHookClaim, CanceledHookRelease, Goto, Return, TaskKnows,
            TypeOK, Task
    <2>. QED
      BY <1>9, <2>1, <2>2, <2>3 DEF HandleOrderCanceled, DeliverCanceled
  <1>10. ASSUME NEW w \in Workers, Checkin(w) PROVE TaskKnows(v)'
    <2>1. ASSUME NEW o \in Orders, CheckinRead(w, o) PROVE TaskKnows(v)'
      <3>1. Decided(row[o])
        BY <1>1, <2>1
        DEF CheckinRead, CheckinEligible, RegistrationState, Decided, TypeOK,
            Row, Approval
      <3>2. CASE v # w
        BY <1>1, <1>4, <2>1, <3>2 DEF CheckinRead, Begin, TypeOK
      <3>3. CASE v = w
        BY <1>1, <2>1, <3>1, <3>3 DEF CheckinRead, Begin, TaskKnows, TypeOK
      <3>. QED
        BY <3>2, <3>3
    <2>2. CASE CheckinRedeem(w) \/ CheckinRefused(w) \/ CheckinLog(w)
      <3>1. task[w] \in Task
        BY <1>1, <2>2, BusyTask DEF CheckinRedeem, CheckinRefused, CheckinLog
      <3>2. UNCHANGED row
        BY <2>2 DEF CheckinRedeem, CheckinRefused, CheckinLog
      <3>. QED
        BY <1>1, <1>3, <1>4, <1>5, <2>2, <3>1, <3>2
        DEF CheckinRedeem, CheckinRefused, CheckinLog, Goto, Return,
            TaskKnows, TypeOK, Task
    <2>. QED
      BY <1>10, <2>1, <2>2 DEF Checkin
  <1>11. ASSUME NEW w \in Workers, Crash(w) PROVE TaskKnows(v)'
    BY <1>1, <1>4, <1>5, <1>11 DEF Crash, Return, TypeOK
  <1>12. ASSUME NEW o \in Orders, PretixMoves(o) PROVE TaskKnows(v)'
    BY <1>4, <1>12 DEF PretixMoves
  <1>13. ASSUME NEW h \in Hook, PretixResends(h) PROVE TaskKnows(v)'
    BY <1>4, <1>13 DEF PretixResends
  <1>14. CASE UNCHANGED vars
    BY <1>4, <1>14 DEF vars
  <1>. QED
    BY <1>6, <1>7, <1>8, <1>9, <1>10, <1>11, <1>12, <1>13, <1>14 DEF Next

\* At most one approval of a free order is on its way to issue the ticket.
LEMMA ApprovalsStep ==
    ASSUME LifecycleInv, [Next]_vars
    PROVE  ApprovalsToSync'
  <1> USE DEF At
  <1>1. TypeOK /\ DecisionForward
    BY DecisionStep DEF LifecycleInv
  <1>2. ASSUME NEW v \in Workers,
               task'[v].op = "approve", task'[v].at = "sync"
        PROVE  \/ task'[v] = task[v]
               \/ /\ ApproveClaim(v)
                  /\ DecisionOpen(task[v].order)
                  /\ task'[v].order = task[v].order
    <2>1. ASSUME NEW w \in Workers, ApproveClaim(w), v # w
          PROVE  task'[v] = task[v]
      BY <1>1, <2>1 DEF ApproveClaim, Goto, Return, TypeOK
    <2>2. CASE ApproveClaim(v)
      <3>1. task[v] \in Task
        BY <1>1, <2>2, BusyTask DEF ApproveClaim
      <3>. QED
        BY <1>1, <1>2, <2>2, <3>1
        DEF ApproveClaim, Goto, Return, NoTask, Task, TypeOK
    <2>3. ASSUME NEW w \in Workers, ~ApproveClaim(w), Approve(w)
          PROVE  task'[v] = task[v]
      BY <1>1, <1>2, <2>3
      DEF Approve, ApproveRead, ApproveSync, Begin, Return, NoTask, TypeOK
    <2>4. ASSUME NEW w \in Workers,
                 \/ Reject(w) \/ CancelRegistration(w) \/ MarkOrderPaid(w)
          PROVE  task'[v] = task[v]
      BY <1>1, <1>2, <2>4, BusyTask
      DEF Reject, RejectRead, RejectClaim, RejectSync, RejectRelease,
          CancelRegistration, CancelRead, CancelSync, CancelConfirm,
          CancelClaim, CancelRelease, MarkOrderPaid, FinanceRead,
          FinanceSync, FinanceWrite,
          Begin, Goto, Return, NoTask, TypeOK, Task
    <2>5. ASSUME NEW w \in Workers,
                 \/ HandleOrderPaid(w) \/ HandleOrderCanceled(w)
                 \/ Checkin(w) \/ Crash(w)
          PROVE  task'[v] = task[v]
      BY <1>1, <1>2, <2>5, BusyTask
      DEF HandleOrderPaid, DeliverPaid, PaidHookNoop, PaidHookRead,
          PaidHookFetched, PaidHookFetchFails, PaidHookClaim,
          HandleOrderCanceled, DeliverCanceled, CanceledHookNoop,
          CanceledHookRead, CanceledHookClaim, CanceledHookRelease,
          Checkin, CheckinRead, CheckinRedeem, CheckinRefused, CheckinLog,
          Crash, Begin, Goto, Return, NoTask, TypeOK, Task
    <2>6. CASE \/ \E o \in Orders : PretixMoves(o)
               \/ \E h \in Hook : PretixResends(h)
               \/ UNCHANGED vars
      BY <2>6 DEF PretixMoves, PretixResends, vars
    <2>. QED
      BY <2>1, <2>2, <2>3, <2>4, <2>5, <2>6 DEF Next
  <1>3. ASSUME NEW v \in Workers,
               task'[v].op = "approve", task'[v].at = "sync"
        PROVE  LET o == task'[v].order IN
               /\ o \in FreeOrders
               /\ row'[o].approval = "approved"
               /\ row'[o].status # "pending"
               /\ issued'[o] = 0
    <2>1. CASE task'[v] = task[v]
      <3> DEFINE o == task[v].order
      <3>1. /\ o \in FreeOrders
            /\ row[o].approval = "approved"
            /\ row[o].status # "pending"
            /\ issued[o] = 0
        BY <1>3, <2>1 DEF LifecycleInv, ApprovalsToSync
      <3>2. row'[o].approval = "approved" /\ row'[o].status # "pending"
        BY <1>1, <3>1, StatusStep DEF DecisionForward, StatusForward
      <3>3. ASSUME NEW w \in Workers, ApproveSync(w)
            PROVE  issued'[o] = 0
        <4>1. v # w
          BY <1>1, <1>3, <3>3 DEF ApproveSync, Return, NoTask, TypeOK
        <4>2. task[w].order # o
          BY <1>3, <2>1, <3>3, <4>1 DEF ApproveSync, LifecycleInv,
             ApprovalsToSync
        <4>3. \/ UNCHANGED issued
              \/ EmitTicketIssued(task[w].order)
          BY <3>3 DEF ApproveSync
        <4>. QED
          BY <1>1, <3>1, <4>2, <4>3 DEF EmitTicketIssued, TypeOK
      <3>4. ASSUME NEW w \in Workers, PaidHookClaim(w)
            PROVE  issued'[o] = 0
        BY <1>1, <3>1, <3>4
        DEF PaidHookClaim, AwaitsPayment, EmitTicketIssued, TypeOK
      <3>. QED
        BY <2>1, <3>1, <3>2, <3>3, <3>4, WhoIssues
    <2>2. CASE /\ ApproveClaim(v)
               /\ DecisionOpen(task[v].order)
               /\ task'[v].order = task[v].order
      <3> DEFINE o == task[v].order
      <3>1. o \in Orders
        BY <1>1, <2>2, BusyTask DEF ApproveClaim
      <3>2. issued'[o] = 0
        BY <2>2, <3>1, <1>1
        DEF ApproveClaim, DecisionOpen, LifecycleInv, TicketIssuedOnce,
            Decided, TypeOK
      <3>3. o \in FreeOrders
        BY <1>1, <1>3, <2>2 DEF ApproveClaim, Return, NoTask, TypeOK
      <3>4. row'[o] = [approval |-> "approved", status |-> "paid"]
        BY <1>1, <2>2, <3>1, <3>3
        DEF ApproveClaim, Decide, ApprovedStatus, TypeOK
      <3>. QED
        BY <2>2, <3>2, <3>3, <3>4
    <2>. QED
      BY <1>2, <1>3, <2>1, <2>2
  <1>4. ASSUME NEW v \in Workers, NEW w \in Workers, v # w,
               task'[v].op = "approve", task'[v].at = "sync",
               task'[w].op = "approve", task'[w].at = "sync",
               task'[v].order = task'[w].order
        PROVE  FALSE
    <2>1. CASE task'[v] = task[v] /\ task'[w] = task[w]
      BY <1>4, <2>1 DEF LifecycleInv, ApprovalsToSync
    <2>2. ASSUME NEW x \in {v, w}, NEW y \in {v, w}, x # y,
                 ApproveClaim(x), DecisionOpen(task[x].order),
                 task'[x].order = task[x].order
          PROVE  FALSE
      <3>1. task'[y] = task[y]
        BY <1>1, <2>2 DEF ApproveClaim, Goto, Return, TypeOK
      <3>2. row[task[y].order].approval = "approved"
        BY <1>4, <2>2, <3>1 DEF LifecycleInv, ApprovalsToSync
      <3>3. task[x].order = task[y].order
        BY <1>4, <2>2, <3>1
      <3>. QED
        BY <2>2, <3>2, <3>3 DEF DecisionOpen
    <2>. QED
      BY <1>2, <1>4, <2>1, <2>2
  <1>. QED
    BY <1>3, <1>4 DEF ApprovalsToSync

LEMMA NothingAwaitedStep ==
    ASSUME LifecycleInv, [Next]_vars
    PROVE  NothingAwaited' /\ TicketIssuedOnce'
  <1> USE DEF At
  <1>1. TypeOK /\ TypeOK' /\ DecisionForward /\ StatusForward /\ PretixForward
    BY DecisionStep, StatusStep, PretixMonotone, TypeStep DEF LifecycleInv
  <1>2. SUFFICES ASSUME NEW o \in Orders
        PROVE  /\ row'[o].approval = "rejected" \/ issued'[o] > 0
                     => row'[o].status # "pending"
               /\ issued'[o] > 0 =>
                     /\ issued'[o] = 1
                     /\ Decided(row'[o])
                     /\ o \in FreeOrders \/ pretix'[o] \in {"p", "c"}
    BY DEF NothingAwaited, TicketIssuedOnce, Decided
  <1>3. /\ row[o].approval = "rejected" \/ issued[o] > 0
               => row[o].status # "pending"
        /\ issued[o] > 0 =>
               /\ issued[o] = 1
               /\ Decided(row[o])
               /\ o \in FreeOrders \/ pretix[o] \in {"p", "c"}
    BY DEF LifecycleInv, NothingAwaited, TicketIssuedOnce
  <1>4. row'[o].approval = "rejected" => row'[o].status # "pending"
    <2>1. CASE row[o].approval = "rejected"
      BY <1>1, <1>3, <2>1 DEF StatusForward
    <2>2. ASSUME NEW w \in Workers,
                 \/ ApproveClaim(w) \/ RejectClaim(w) \/ CancelClaim(w)
                 \/ FinanceWrite(w) \/ PaidHookClaim(w) \/ CanceledHookClaim(w)
          PROVE  row'[o].approval = "rejected" => row'[o].status # "pending"
      <3>1. task[w].order \in Orders
        BY <1>1, <2>2, BusyTask DEF ApproveClaim, RejectClaim, CancelClaim,
           FinanceWrite, PaidHookClaim, CanceledHookClaim
      <3>. QED
        BY <1>1, <1>3, <2>2, <3>1
        DEF ApproveClaim, RejectClaim, CancelClaim, FinanceWrite,
            PaidHookClaim, CanceledHookClaim, Decide, SetStatus, TypeOK, Row
    <2>. QED
      BY <1>3, <2>2, WhoTouchesRow
  <1>5. CASE issued'[o] = issued[o]
    BY <1>1, <1>3, <1>4, <1>5
    DEF DecisionForward, StatusForward, PretixForward, Decided
  <1>6. ASSUME NEW w \in Workers, ApproveSync(w), issued'[o] # issued[o]
        PROVE  /\ issued'[o] = 1
               /\ Decided(row'[o]) /\ row'[o].status # "pending"
               /\ o \in FreeOrders
    <2>1. EmitTicketIssued(task[w].order) /\ task[w].order = o
      BY <1>1, <1>6 DEF ApproveSync, EmitTicketIssued, TypeOK
    <2>2. /\ o \in FreeOrders
          /\ row[o].approval = "approved"
          /\ row[o].status # "pending"
          /\ issued[o] = 0
      BY <1>6, <2>1 DEF ApproveSync, LifecycleInv, ApprovalsToSync
    <2>. QED
      BY <1>1, <1>6, <2>1, <2>2
      DEF ApproveSync, EmitTicketIssued, Decided, TypeOK
  <1>7. ASSUME NEW w \in Workers, PaidHookClaim(w), issued'[o] # issued[o]
        PROVE  /\ issued'[o] = 1
               /\ Decided(row'[o]) /\ row'[o].status # "pending"
               /\ pretix'[o] \in {"p", "c"}
    <2>1. /\ EmitTicketIssued(o) /\ task[w].order = o
          /\ AwaitsPayment(o) /\ SetStatus(o, "paid")
          /\ task[w].seen.approval # "pending"
      BY <1>1, <1>7 DEF PaidHookClaim, EmitTicketIssued, TypeOK
    <2>2. task[w] \in Task /\ TaskKnows(w)
      BY <1>1, <1>7, BusyTask DEF PaidHookClaim, LifecycleInv, TasksKnow
    <2>3. pretix[o] \in {"p", "c"} /\ row[o].approval = task[w].seen.approval
      BY <1>7, <2>1, <2>2 DEF PaidHookClaim, TaskKnows
    <2>4. row[o].approval \in {"approved", "not_required"}
      BY <1>1, <1>3, <2>1, <2>2, <2>3
      DEF AwaitsPayment, Task, Row, Approval, TypeOK
    <2>5. issued'[o] = 1
      BY <1>1, <1>3, <2>1 DEF AwaitsPayment, EmitTicketIssued, TypeOK
    <2>6. row'[o].status = "paid" /\ row'[o].approval = row[o].approval
      BY <1>1, <2>1 DEF SetStatus, TypeOK, Row
    <2>. QED
      BY <1>1, <2>3, <2>4, <2>5, <2>6 DEF Decided, PretixForward
  <1>. QED
    BY <1>4, <1>5, <1>6, <1>7, WhoIssues

LEMMA CancelMirroredStep ==
    ASSUME LifecycleInv, [Next]_vars
    PROVE  CancelMirrored'
  <1> USE DEF At
  <1>1. TypeOK /\ DecisionForward /\ PretixForward
    BY DecisionStep, PretixMonotone DEF LifecycleInv
  <1>2. SUFFICES ASSUME NEW o \in Orders, row'[o].status = "canceled",
                        row'[o].approval # "rejected"
                 PROVE  pretix'[o] = "c"
    BY DEF CancelMirrored
  <1>3. CASE row[o].status = "canceled" /\ row[o].approval # "rejected"
    BY <1>1, <1>3 DEF LifecycleInv, CancelMirrored, PretixForward
  <1>4. CASE row'[o] = row[o]
    BY <1>2, <1>3, <1>4
  <1>5. ASSUME NEW w \in Workers, ApproveClaim(w) \/ RejectClaim(w)
        PROVE  pretix'[o] = "c"
    <2>1. row'[o] = row[o]
      BY <1>1, <1>2, <1>5
      DEF ApproveClaim, RejectClaim, Decide, ApprovedStatus, TypeOK
    <2>. QED
      BY <1>4, <2>1
  <1>6. ASSUME NEW w \in Workers, FinanceWrite(w) \/ PaidHookClaim(w)
        PROVE  pretix'[o] = "c"
    <2>1. row'[o] = row[o]
      BY <1>1, <1>2, <1>6
      DEF FinanceWrite, PaidHookClaim, SetStatus, TypeOK, Row
    <2>. QED
      BY <1>4, <2>1
  <1>7. ASSUME NEW w \in Workers, CancelClaim(w) \/ CanceledHookClaim(w)
        PROVE  pretix'[o] = "c"
    <2>1. CASE task[w].order = o
      <3>1. TaskKnows(w)
        BY DEF LifecycleInv, TasksKnow
      <3>. QED
        BY <1>1, <1>7, <2>1, <3>1
        DEF CancelClaim, CanceledHookClaim, TaskKnows, PretixForward
    <2>2. CASE task[w].order # o
      <3>1. row'[o] = row[o]
        BY <1>1, <1>7, <2>2
        DEF CancelClaim, CanceledHookClaim, SetStatus, TypeOK
      <3>. QED
        BY <1>4, <3>1
    <2>. QED
      BY <2>1, <2>2
  <1>. QED
    BY <1>4, <1>5, <1>6, <1>7, WhoTouchesRow

LEMMA AdmittedStep ==
    ASSUME LifecycleInv, [Next]_vars
    PROVE  AdmittedWasDecided'
  <1>1. TypeOK /\ DecisionForward
    BY DecisionStep DEF LifecycleInv
  <1>2. ASSUME NEW o \in redeemed' \ redeemed
        PROVE  Decided(row[o])
    <2>1. PICK w \in Workers :
              /\ CheckinRedeem(w) \/ CheckinRefused(w)
              /\ o = task[w].order
      BY <1>2, Redeemers
    <2>. QED
      BY <2>1
      DEF CheckinRedeem, CheckinRefused, At, LifecycleInv, TasksKnow, TaskKnows
  <1>3. redeemed' \subseteq Orders
    BY TypeStep DEF LifecycleInv, TypeOK
  <1>. QED
    BY <1>1, <1>2, <1>3
    DEF LifecycleInv, AdmittedWasDecided, Decided, DecisionForward

-----------------------------------------------------------------------------
(* The theorems *)

\* The inductive invariant: what webhooks and running tasks know about pretix
\* and about decisions stays true.
THEOREM LifecycleCorrect == Spec => []LifecycleInv
  <1>1. LifecycleInv /\ [Next]_vars => LifecycleInv'
    <2> SUFFICES ASSUME LifecycleInv, [Next]_vars PROVE LifecycleInv'
      OBVIOUS
    <2>1. TypeOK' /\ HooksReport'
      BY TypeStep, HooksStep DEF LifecycleInv
    <2>2. TasksKnow' /\ ApprovalsToSync'
      BY TasksStep, ApprovalsStep
    <2>3. NothingAwaited' /\ TicketIssuedOnce'
      BY NothingAwaitedStep
    <2>4. CancelMirrored' /\ AdmittedWasDecided'
      BY CancelMirroredStep, AdmittedStep
    <2>. QED
      BY <2>1, <2>2, <2>3, <2>4 DEF LifecycleInv
  <1>. QED
    BY LifecycleInit, <1>1, PTL DEF Spec

\* A registration the platform shows as canceled is canceled in pretix,
\* rejections aside: cancelRegistration's pretix-first order and its check of
\* what a refusal means, and the webhook that only reports what happened.
THEOREM CanceledIsCanceledInPretix == Spec => []CancelMirrored
  <1>1. LifecycleInv => CancelMirrored
    BY DEF LifecycleInv
  <1>. QED
    BY <1>1, LifecycleCorrect, PTL

\* The door never lets anyone in whose registration was not decided in their
\* favour.
THEOREM OnlyDecidedAreAdmitted == Spec => []AdmittedWasDecided
  <1>1. LifecycleInv => AdmittedWasDecided
    BY DEF LifecycleInv
  <1>. QED
    BY <1>1, LifecycleCorrect, PTL

\* However often order.paid is delivered, and whoever approves meanwhile,
\* ticket.issued goes out once at most, and never for a payment pretix has not
\* seen.
THEOREM TicketIssuedAtMostOnce == Spec => []TicketIssuedOnce
  <1>1. LifecycleInv => TicketIssuedOnce
    BY DEF LifecycleInv
  <1>. QED
    BY <1>1, LifecycleCorrect, PTL

\* A scan that read the row before a cancellation cannot be redeemed after it.
THEOREM CancelClosesTheDoor == Spec => NoEntryAfterCancel
  <1>1. LifecycleInv /\ [Next]_vars =>
            [\A o \in Orders : o \in redeemed' \ redeemed
                => row[o].status # "canceled"]_vars
    <2> SUFFICES ASSUME LifecycleInv, [Next]_vars,
                        NEW o \in Orders, o \in redeemed' \ redeemed
                 PROVE  row[o].status # "canceled"
      OBVIOUS
    <2>1. PICK w \in Workers :
              /\ CheckinRedeem(w) \/ CheckinRefused(w)
              /\ o = task[w].order
              /\ Redeemable(pretix[o], o \in redeemed)
      BY Redeemers
    <2>2. Decided(row[o])
      BY <2>1
      DEF CheckinRedeem, CheckinRefused, At, LifecycleInv, TasksKnow, TaskKnows
    <2>3. pretix[o] = "p"
      BY <2>1 DEF Redeemable
    <2>. QED
      BY <2>2, <2>3 DEF LifecycleInv, CancelMirrored, Decided
  <1>. QED
    BY <1>1, LifecycleCorrect, PTL DEF Spec, NoEntryAfterCancel

-----------------------------------------------------------------------------
(* Whose step it was *)

\* A worker's task changes by a step of its own only.
LEMMA OwnSteps ==
    ASSUME TypeOK, [Next]_vars, NEW v \in Workers, task'[v] # task[v]
    PROVE  \/ Approve(v) \/ Reject(v) \/ CancelRegistration(v)
           \/ MarkOrderPaid(v) \/ HandleOrderPaid(v)
           \/ HandleOrderCanceled(v) \/ Checkin(v) \/ Crash(v)
  <1> USE DEF Begin, Goto, Return, TypeOK
  <1>1. ASSUME NEW w \in Workers, w # v
        PROVE  ~Approve(w) /\ ~Reject(w)
    BY <1>1 DEF Approve, ApproveRead, ApproveClaim, ApproveSync,
       Reject, RejectRead, RejectClaim, RejectSync, RejectRelease
  <1>2. ASSUME NEW w \in Workers, w # v
        PROVE  ~CancelRegistration(w) /\ ~MarkOrderPaid(w)
    BY <1>2 DEF CancelRegistration, CancelRead, CancelSync, CancelConfirm,
       CancelClaim, CancelRelease, MarkOrderPaid, FinanceRead, FinanceSync,
       FinanceWrite
  <1>3. ASSUME NEW w \in Workers, w # v
        PROVE  ~HandleOrderPaid(w) /\ ~HandleOrderCanceled(w)
    BY <1>3 DEF HandleOrderPaid, DeliverPaid, PaidHookNoop, PaidHookRead,
       PaidHookFetched, PaidHookFetchFails, PaidHookClaim,
       HandleOrderCanceled, DeliverCanceled, CanceledHookNoop,
       CanceledHookRead, CanceledHookClaim, CanceledHookRelease
  <1>4. ASSUME NEW w \in Workers, w # v
        PROVE  ~Checkin(w) /\ ~Crash(w)
    BY <1>4 DEF Checkin, CheckinRead, CheckinRedeem, CheckinRefused,
       CheckinLog, Crash
  <1>5. ~(\/ \E o \in Orders : PretixMoves(o)
          \/ \E h \in Hook : PretixResends(h)
          \/ UNCHANGED vars)
    BY DEF PretixMoves, PretixResends, vars
  <1>. QED
    BY <1>1, <1>2, <1>3, <1>4, <1>5 DEF Next

\* A task goes on, ends, or starts as one of the operations in use.
LEMMA TaskMoves ==
    ASSUME TypeOK, [Next]_vars, NEW v \in Workers
    PROVE  task'[v].op \in {task[v].op, "none"} \cup Ops
  <1> USE BusyTask DEF Begin, Goto, Return, TypeOK, NoTask, Task, At, Free
  <1>1. CASE Approve(v) \/ Reject(v)
    BY <1>1 DEF Approve, ApproveRead, ApproveClaim, ApproveSync,
       Reject, RejectRead, RejectClaim, RejectSync, RejectRelease
  <1>2. CASE CancelRegistration(v) \/ MarkOrderPaid(v)
    BY <1>2 DEF CancelRegistration, CancelRead, CancelSync, CancelConfirm,
       CancelClaim, CancelRelease, MarkOrderPaid, FinanceRead, FinanceSync,
       FinanceWrite
  <1>3. CASE HandleOrderPaid(v) \/ HandleOrderCanceled(v)
    BY <1>3 DEF HandleOrderPaid, DeliverPaid, PaidHookNoop, PaidHookRead,
       PaidHookFetched, PaidHookFetchFails, PaidHookClaim,
       HandleOrderCanceled, DeliverCanceled, CanceledHookNoop,
       CanceledHookRead, CanceledHookClaim, CanceledHookRelease
  <1>4. CASE Checkin(v) \/ Crash(v)
    BY <1>4 DEF Checkin, CheckinRead, CheckinRedeem, CheckinRefused,
       CheckinLog, Crash
  <1>. QED
    BY <1>1, <1>2, <1>3, <1>4, OwnSteps

\* An operation that is not in use is never run.
NobodyRuns(op) == \A w \in Workers : task[w].op # op

LEMMA UnusedStaysUnused ==
    ASSUME NEW op, op \notin Ops, op # "none",
           TypeOK, NobodyRuns(op), [Next]_vars
    PROVE  NobodyRuns(op)'
BY TaskMoves DEF NobodyRuns

LEMMA NothingRunsYet ==
    ASSUME NEW op, op # "none", Init
    PROVE  NobodyRuns(op)
BY DEF Init, NobodyRuns, NoTask

-----------------------------------------------------------------------------
(* Payment before approval *)

\* What the policy rests on: a paid-tier row that is paid or approved was paid
\* in pretix, and so is the order of an approval about to be written.
PaymentsSeen ==
    \A o \in Orders \ FreeOrders :
        row[o].status = "paid" \/ row[o].approval = "approved"
            => pretix[o] \in {"p", "c"}

ApproversSaw ==
    \A w \in Workers : At(w, "approve", "claim") =>
        \/ task[w].order \in FreeOrders
        \/ pretix[task[w].order] \in {"p", "c"}

PolicyInv == PayBeforeApproval => PaymentsSeen /\ ApproversSaw

LEMMA ApprovalBegins ==
    ASSUME TypeOK, [Next]_vars, NEW v \in Workers,
           task'[v].op = "approve", task'[v].at = "claim", task'[v] # task[v]
    PROVE  \E o \in Orders : ApproveRead(v, o)
  <1> USE BusyTask DEF Begin, Goto, Return, TypeOK, NoTask, Task, At
  <1>1. ~ApproveClaim(v) /\ ~ApproveSync(v) /\ ~Reject(v)
    BY DEF ApproveClaim, ApproveSync,
       Reject, RejectRead, RejectClaim, RejectSync, RejectRelease
  <1>2. ~CancelRegistration(v) /\ ~MarkOrderPaid(v)
    BY DEF CancelRegistration, CancelRead, CancelSync, CancelConfirm,
       CancelClaim, CancelRelease, MarkOrderPaid, FinanceRead, FinanceSync,
       FinanceWrite
  <1>3. ~HandleOrderPaid(v) /\ ~HandleOrderCanceled(v)
    BY DEF HandleOrderPaid, DeliverPaid, PaidHookNoop, PaidHookRead,
       PaidHookFetched, PaidHookFetchFails, PaidHookClaim,
       HandleOrderCanceled, DeliverCanceled, CanceledHookNoop,
       CanceledHookRead, CanceledHookClaim, CanceledHookRelease
  <1>4. ~Checkin(v) /\ ~Crash(v)
    BY DEF Checkin, CheckinRead, CheckinRedeem, CheckinRefused, CheckinLog,
       Crash
  <1>. QED
    BY <1>1, <1>2, <1>3, <1>4, OwnSteps DEF Approve

LEMMA PolicyStep ==
    ASSUME LifecycleInv, NobodyRuns("finance"), PolicyInv, [Next]_vars
    PROVE  PolicyInv'
  <1> SUFFICES ASSUME PayBeforeApproval PROVE PaymentsSeen' /\ ApproversSaw'
    BY DEF PolicyInv
  <1>1. TypeOK /\ PretixForward /\ PaymentsSeen /\ ApproversSaw
    BY PretixMonotone DEF LifecycleInv, PolicyInv
  <1>2. PaymentsSeen'
    <2> SUFFICES ASSUME NEW o \in Orders \ FreeOrders,
                        row'[o].status = "paid"
                            \/ row'[o].approval = "approved"
                 PROVE  pretix'[o] \in {"p", "c"}
      BY DEF PaymentsSeen
    <2>1. CASE row'[o] = row[o]
      BY <1>1, <2>1 DEF PaymentsSeen, PretixForward
    <2>2. ASSUME NEW w \in Workers, ApproveClaim(w), row'[o] # row[o]
          PROVE  pretix'[o] \in {"p", "c"}
      <3>1. task[w].order = o
        BY <1>1, <2>2 DEF ApproveClaim, Decide, TypeOK
      <3>. QED
        BY <1>1, <2>2, <3>1
        DEF ApproveClaim, ApproversSaw, PretixForward
    <2>3. ASSUME NEW w \in Workers, RejectClaim(w), row'[o] # row[o]
          PROVE  FALSE
      BY <1>1, <2>3 DEF RejectClaim, Decide, TypeOK
    <2>4. ASSUME NEW w \in Workers, CancelClaim(w) \/ CanceledHookClaim(w),
                 row'[o] # row[o]
          PROVE  pretix'[o] \in {"p", "c"}
      <3>1. row'[o].status = "canceled" /\ row'[o].approval = row[o].approval
        BY <1>1, <2>4
        DEF CancelClaim, CanceledHookClaim, SetStatus, TypeOK, Row
      <3>. QED
        BY <1>1, <3>1 DEF PaymentsSeen, PretixForward
    <2>5. ASSUME NEW w \in Workers, PaidHookClaim(w), row'[o] # row[o]
          PROVE  pretix'[o] \in {"p", "c"}
      <3>1. task[w].order = o
        BY <1>1, <2>5 DEF PaidHookClaim, SetStatus, TypeOK
      <3>2. pretix[o] \in {"p", "c"}
        BY <2>5, <3>1
        DEF PaidHookClaim, At, LifecycleInv, TasksKnow, TaskKnows
      <3>. QED
        BY <1>1, <3>2 DEF PretixForward
    <2>6. ASSUME NEW w \in Workers PROVE ~FinanceWrite(w)
      BY DEF FinanceWrite, At, NobodyRuns
    <2>. QED
      BY <2>1, <2>2, <2>3, <2>4, <2>5, <2>6, WhoTouchesRow
  <1>3. ApproversSaw'
    <2> SUFFICES ASSUME NEW v \in Workers, task'[v].op = "approve",
                        task'[v].at = "claim",
                        task'[v].order \notin FreeOrders
                 PROVE  pretix'[task'[v].order] \in {"p", "c"}
      BY DEF ApproversSaw, At
    <2>1. CASE task'[v] = task[v]
      <3>1. task[v].order \in Orders
        BY <1>1, <2>1, BusyTask
      <3>. QED
        BY <1>1, <2>1, <3>1 DEF ApproversSaw, At, PretixForward
    <2>2. ASSUME NEW o \in Orders, ApproveRead(v, o)
          PROVE  pretix'[task'[v].order] \in {"p", "c"}
      <3>1. task'[v].order = o
        BY <1>1, <2>2 DEF ApproveRead, Begin, TypeOK
      <3>2. row[o].status = "paid"
        BY <2>2, <3>1 DEF ApproveRead, PaymentSettled
      <3>. QED
        BY <1>1, <3>1, <3>2 DEF PaymentsSeen, PretixForward
    <2>. QED
      BY <1>1, <2>1, <2>2, ApprovalBegins
  <1>. QED
    BY <1>2, <1>3

\* On an event that wants payment before approval no paid-tier registration is
\* approved that pretix never saw paid, however the approval races with
\* payments, cancellations and webhooks.  Finance's mark-paid has to stay out:
\* it takes any refusal of pretix's for a payment.
THEOREM PaidBeforeApproved ==
    ASSUME "finance" \notin Ops
    PROVE  Spec => []ApprovedAfterPayment
  <1>1. Init => NobodyRuns("finance") /\ PolicyInv
    BY NothingRunsYet
    DEF Init, FreshOrder, PolicyInv, PaymentsSeen, ApproversSaw, At, NoTask
  <1>2. LifecycleInv /\ NobodyRuns("finance") /\ PolicyInv /\ [Next]_vars
            => PolicyInv'
    BY PolicyStep
  <1>3. PolicyInv => ApprovedAfterPayment
    BY DEF PolicyInv, PaymentsSeen, ApprovedAfterPayment
  <1>4. TypeOK /\ NobodyRuns("finance") /\ [Next]_vars
            => NobodyRuns("finance")'
    BY UnusedStaysUnused
  <1>. QED
    BY <1>1, <1>2, <1>3, <1>4, TypeCorrect, LifecycleCorrect, PTL DEF Spec

-----------------------------------------------------------------------------
(* Seats *)

\* A task that is about to release seats does so for an order that was
\* rejected or canceled.
ReleasersKnow ==
    \A w \in Workers :
        LET o == task[w].order IN
        /\ At(w, "reject", "sync") \/ At(w, "reject", "release")
              => row[o].approval = "rejected"
        /\ At(w, "cancel", "release") \/ At(w, "canceledHook", "release")
              => row[o].status = "canceled"

LiveKeeps ==
    \A o \in SeatedOrders :
        row[o].approval # "rejected" /\ row[o].status # "canceled"
            => o \in seated

\* Only three steps release seats.
LEMMA WhoReleases ==
    ASSUME [Next]_vars
    PROVE  \/ UNCHANGED seated
           \/ \E w \in Workers : /\ \/ RejectRelease(w) \/ CancelRelease(w)
                                   \/ CanceledHookRelease(w)
                                /\ seated' = seated \ {task[w].order}
BY DEF Next, vars, Approve, ApproveRead, ApproveClaim, ApproveSync,
       Reject, RejectRead, RejectClaim, RejectSync, RejectRelease,
       CancelRegistration, CancelRead, CancelSync, CancelConfirm,
       CancelClaim, CancelRelease, MarkOrderPaid, FinanceRead, FinanceSync,
       FinanceWrite, HandleOrderPaid, DeliverPaid, PaidHookNoop,
       PaidHookRead, PaidHookFetched, PaidHookFetchFails, PaidHookClaim,
       HandleOrderCanceled, DeliverCanceled, CanceledHookNoop,
       CanceledHookRead, CanceledHookClaim, CanceledHookRelease,
       Checkin, CheckinRead, CheckinRedeem, CheckinRefused, CheckinLog,
       Crash, PretixMoves, PretixResends, ReleaseSeats

\* Without approvals and mark-paid a canceled row stays canceled.
LEMMA CanceledStays ==
    ASSUME TypeOK, NobodyRuns("approve"), NobodyRuns("finance"), [Next]_vars,
           NEW o \in Orders, row[o].status = "canceled"
    PROVE  row'[o].status = "canceled"
  <1> USE DEF At, TypeOK, Row
  <1>1. ASSUME NEW w \in Workers PROVE ~ApproveClaim(w) /\ ~FinanceWrite(w)
    BY DEF ApproveClaim, FinanceWrite, NobodyRuns
  <1>2. ASSUME NEW w \in Workers, RejectClaim(w)
        PROVE  row'[o].status = "canceled"
    BY <1>2 DEF RejectClaim, Decide
  <1>3. ASSUME NEW w \in Workers, CancelClaim(w) \/ CanceledHookClaim(w)
        PROVE  row'[o].status = "canceled"
    BY <1>3 DEF CancelClaim, CanceledHookClaim, SetStatus
  <1>4. ASSUME NEW w \in Workers, PaidHookClaim(w)
        PROVE  row'[o].status = "canceled"
    BY <1>4 DEF PaidHookClaim, AwaitsPayment, SetStatus
  <1>. QED
    BY <1>1, <1>2, <1>3, <1>4, WhoTouchesRow

\* How a task comes to release seats: it, or its earlier self, made the claim.
LEMMA ReleaseBegins ==
    ASSUME TypeOK, [Next]_vars, NEW v \in Workers, task'[v] # task[v]
    PROVE  /\ task'[v].op = "reject" /\ task'[v].at \in {"sync", "release"}
              => /\ \/ RejectClaim(v) /\ row'[task[v].order].approval = "rejected"
                    \/ RejectSync(v)
                 /\ task'[v].order = task[v].order
           /\ task'[v].op \in {"cancel", "canceledHook"}
              /\ task'[v].at = "release"
              => /\ row'[task[v].order].status = "canceled"
                 /\ task'[v].order = task[v].order
  <1> USE BusyTask DEF Begin, Goto, Return, TypeOK, NoTask, Task, At
  <1>1. CASE Approve(v) \/ MarkOrderPaid(v)
    BY <1>1 DEF Approve, ApproveRead, ApproveClaim, ApproveSync,
       MarkOrderPaid, FinanceRead, FinanceSync, FinanceWrite
  <1>2. CASE Reject(v)
    BY <1>2 DEF Reject, RejectRead, RejectClaim, RejectSync, RejectRelease,
       Decide
  <1>3. CASE CancelRegistration(v)
    BY <1>3 DEF CancelRegistration, CancelRead, CancelSync, CancelConfirm,
       CancelClaim, CancelRelease, SetStatus, Row
  <1>4. CASE HandleOrderPaid(v) \/ Checkin(v) \/ Crash(v)
    BY <1>4 DEF HandleOrderPaid, DeliverPaid, PaidHookNoop, PaidHookRead,
       PaidHookFetched, PaidHookFetchFails, PaidHookClaim,
       Checkin, CheckinRead, CheckinRedeem, CheckinRefused, CheckinLog, Crash
  <1>5. CASE HandleOrderCanceled(v)
    BY <1>5 DEF HandleOrderCanceled, DeliverCanceled, CanceledHookNoop,
       CanceledHookRead, CanceledHookClaim, CanceledHookRelease, SetStatus,
       Row
  <1>. QED
    BY <1>1, <1>2, <1>3, <1>4, <1>5, OwnSteps

LEMMA ReleasersStep ==
    ASSUME TypeOK, NobodyRuns("approve"), NobodyRuns("finance"),
           ReleasersKnow, [Next]_vars
    PROVE  ReleasersKnow'
  <1>1. DecisionForward
    BY DecisionStep
  <1>2. ASSUME NEW v \in Workers, task'[v].op = "reject",
               task'[v].at \in {"sync", "release"}
        PROVE  row'[task'[v].order].approval = "rejected"
    <2>1. CASE task'[v] = task[v]
      <3>1. task[v].order \in Orders
        BY <1>2, <2>1, BusyTask
      <3>. QED
        BY <1>1, <1>2, <2>1, <3>1 DEF ReleasersKnow, At, DecisionForward
    <2>2. CASE RejectSync(v) /\ task'[v].order = task[v].order
      <3>1. task[v].order \in Orders
        BY <2>2, BusyTask DEF RejectSync, At
      <3>. QED
        BY <2>2, <3>1 DEF RejectSync, ReleasersKnow, At
    <2>. QED
      BY <1>2, <2>1, <2>2, ReleaseBegins
  <1>3. ASSUME NEW v \in Workers, task'[v].op \in {"cancel", "canceledHook"},
               task'[v].at = "release"
        PROVE  row'[task'[v].order].status = "canceled"
    <2>1. CASE task'[v] = task[v]
      <3>1. task[v].order \in Orders
        BY <1>3, <2>1, BusyTask
      <3>2. row[task[v].order].status = "canceled"
        BY <1>3, <2>1 DEF ReleasersKnow, At
      <3>. QED
        BY <2>1, <3>1, <3>2, CanceledStays
    <2>. QED
      BY <1>3, <2>1, ReleaseBegins
  <1>. QED
    BY <1>2, <1>3 DEF ReleasersKnow, At

LEMMA LiveKeepsStep ==
    ASSUME TypeOK, NobodyRuns("approve"), NobodyRuns("finance"),
           ReleasersKnow, LiveKeeps, [Next]_vars
    PROVE  LiveKeeps'
  <1> SUFFICES ASSUME NEW o \in SeatedOrders, row'[o].approval # "rejected",
                      row'[o].status # "canceled"
               PROVE  o \in seated'
    BY DEF LiveKeeps
  <1>1. row[o].approval # "rejected" /\ row[o].status # "canceled"
    BY DecisionStep, CanceledStays DEF DecisionForward
  <1>2. o \in seated
    BY <1>1 DEF LiveKeeps
  <1>3. ASSUME NEW w \in Workers, RejectRelease(w) \/ CancelRelease(w)
                                      \/ CanceledHookRelease(w)
        PROVE  task[w].order # o
    BY <1>1, <1>3
    DEF RejectRelease, CancelRelease, CanceledHookRelease, ReleasersKnow, At
  <1>. QED
    BY <1>2, <1>3, WhoReleases

\* While no approval and no mark-paid interferes, an order that is neither
\* rejected nor canceled keeps its seats, whatever cancellations, rejections
\* and webhooks overlap and whoever dies half way.
THEOREM LiveOrdersKeepSeats ==
    ASSUME "approve" \notin Ops, "finance" \notin Ops
    PROVE  Spec => []LiveOrderKeepsSeat
  <1>1. Init => /\ NobodyRuns("approve") /\ NobodyRuns("finance")
                /\ ReleasersKnow /\ LiveKeeps
    BY NothingRunsYet DEF Init, ReleasersKnow, LiveKeeps, At, NoTask
  <1>2. TypeOK /\ NobodyRuns("approve") /\ NobodyRuns("finance")
            /\ ReleasersKnow /\ LiveKeeps /\ [Next]_vars
            => ReleasersKnow' /\ LiveKeeps'
    BY ReleasersStep, LiveKeepsStep
  <1>3. TypeOK /\ LiveKeeps => LiveOrderKeepsSeat
    <2> SUFFICES ASSUME TypeOK, LiveKeeps, NEW o \in SeatedOrders,
                        RegistrationState(row[o]) # "rejected",
                        row[o].status # "canceled"
                 PROVE  o \in seated
      BY DEF LiveOrderKeepsSeat
    <2>1. row[o].approval # "rejected"
      BY DEF RegistrationState, Decided
    <2>. QED
      BY <2>1 DEF LiveKeeps
  <1>4. TypeOK /\ NobodyRuns("approve") /\ NobodyRuns("finance")
            /\ [Next]_vars => NobodyRuns("approve")' /\ NobodyRuns("finance")'
    BY UnusedStaysUnused
  <1>. QED
    BY <1>1, <1>2, <1>3, <1>4, TypeCorrect, PTL DEF Spec

-----------------------------------------------------------------------------
(* Refinement *)

\* What the abstract specification calls the state of every registration.
ViewState == [o \in Orders |-> RegistrationState(row[o])]

\* One row changes, and its state moves to a later one or stays.
ViewStep(o) ==
    /\ row' = [row EXCEPT ![o] = row'[o]]
    /\ \/ RegistrationState(row'[o]) = RegistrationState(row[o])
       \/ RegistrationState(row'[o]) \in View!Later(RegistrationState(row[o]))

LEMMA ClaimsMoveForward ==
    ASSUME TypeOK, NobodyRuns("finance"), [Next]_vars, ~UNCHANGED row
    PROVE  \E o \in Orders : ViewStep(o)
  <1> USE BusyTask DEF At, Decided, RegistrationState, View!Later, TypeOK, Row,
          Approval, Status
  <1>1. ASSUME NEW w \in Workers, ApproveClaim(w), ~UNCHANGED row
        PROVE  ViewStep(task[w].order) /\ task[w].order \in Orders
    BY <1>1 DEF ApproveClaim, DecisionOpen, Decide, ApprovedStatus, ViewStep
  <1>2. ASSUME NEW w \in Workers, RejectClaim(w), ~UNCHANGED row
        PROVE  ViewStep(task[w].order) /\ task[w].order \in Orders
    BY <1>2 DEF RejectClaim, DecisionOpen, Decide, ViewStep
  <1>3. ASSUME NEW w \in Workers, CancelClaim(w) \/ CanceledHookClaim(w),
               ~UNCHANGED row
        PROVE  ViewStep(task[w].order) /\ task[w].order \in Orders
    BY <1>3 DEF CancelClaim, CanceledHookClaim, NotCanceled, SetStatus,
                ViewStep
  <1>4. ASSUME NEW w \in Workers, PaidHookClaim(w), ~UNCHANGED row
        PROVE  ViewStep(task[w].order) /\ task[w].order \in Orders
    BY <1>4 DEF PaidHookClaim, AwaitsPayment, SetStatus, ViewStep
  <1>5. ASSUME NEW w \in Workers PROVE ~FinanceWrite(w)
    BY DEF NobodyRuns, FinanceWrite, At
  <1>. QED
    BY <1>1, <1>2, <1>3, <1>4, <1>5, WhoTouchesRow

\* What the attendee, the admin lists and the door are shown of a registration
\* moves forward only, as long as finance's unconditional update stays out.
THEOREM ViewRefinement ==
    ASSUME "finance" \notin Ops
    PROVE  Spec => RefinesView
  <1>1. Init => View!ViewInit
    <2> SUFFICES ASSUME Init PROVE View!ViewInit
      OBVIOUS
    <2>1. ASSUME NEW o \in Orders
          PROVE  RegistrationState(row[o]) \in
                     {"pending_approval", "pending_payment", "issued"}
      <3>1. FreshOrder(o)
        BY DEF Init
      <3>. QED
        BY <3>1 DEF FreshOrder, RegistrationState, Decided
    <2>. QED
      BY <2>1 DEF View!ViewInit
  <1>2. Init => NobodyRuns("finance")
    BY NothingRunsYet
  <1>3. TypeOK /\ NobodyRuns("finance") /\ [Next]_vars
            => NobodyRuns("finance")'
    BY UnusedStaysUnused
  <1>4. TypeOK /\ TypeOK' /\ NobodyRuns("finance") /\ [Next]_vars =>
            [View!ViewNext]_[o \in Orders |-> RegistrationState(row[o])]
    <2> SUFFICES ASSUME TypeOK, TypeOK', NobodyRuns("finance"), [Next]_vars,
                        ViewState' # ViewState
                 PROVE  View!ViewNext
      BY DEF ViewState
    <2>1. ~UNCHANGED row
      BY DEF ViewState
    <2>2. PICK o \in Orders : ViewStep(o)
      BY <2>1, ClaimsMoveForward
    <2>3. \A p \in Orders \ {o} :
              RegistrationState(row'[p]) = RegistrationState(row[p])
      BY <2>2 DEF ViewStep, TypeOK
    <2>4. RegistrationState(row'[o]) \in
              View!Later(RegistrationState(row[o]))
      BY <2>2, <2>3 DEF ViewStep, ViewState
    <2>5. ViewState' = [ViewState EXCEPT ![o] = RegistrationState(row'[o])]
      BY <2>3 DEF ViewState
    <2>. QED
      BY <2>4, <2>5 DEF View!ViewNext, View!Move, ViewState
  <1>. QED
    BY <1>1, <1>2, <1>3, <1>4, TypeCorrect, PTL
    DEF Spec, RefinesView, View!ViewSpec
=============================================================================
