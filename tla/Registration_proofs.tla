------------------------ MODULE Registration_proofs ------------------------
(***************************************************************************)
(* Proofs about Registration, for any number of requests, invites and      *)
(* seats, any submissions, and any pattern of faults and lost replies.     *)
(***************************************************************************)
EXTENDS Registration, StaffForms, TLAPS

-----------------------------------------------------------------------------
(* What the updates of the seat map do *)

\* From m to n, order r gains no seat and loses none it was sold.
Undisturbed(m, n, r) ==
    /\ Map!AssignedTo(n, r) \subseteq Map!AssignedTo(m, r)
    /\ Map!SoldTo(m, r) \subseteq Map!SoldTo(n, r)

USE DEF Map!SeatMaps, Map!Seat, Map!SeatState, Map!Unassigned, Map!Update,
        Map!AssignedTo, Map!SoldTo, Undisturbed

\* releaseExpiredHolds disturbs nobody's sold seats.
LEMMA SweepEffect ==
    ASSUME NEW m \in Map!SeatMaps
    PROVE  /\ Map!ReleaseExpiredHolds(m) \in Map!SeatMaps
           /\ \A r \in Requests : Undisturbed(m, Map!ReleaseExpiredHolds(m), r)
  BY NoneAssumption DEF Map!ReleaseExpiredHolds, Map!HoldExpired

\* The lapse of a hold neither.
LEMMA LapseEffect ==
    ASSUME NEW m \in Map!SeatMaps, NEW o \in Requests
    PROVE  /\ Map!Lapse(m, o) \in Map!SeatMaps
           /\ \A r \in Requests : Undisturbed(m, Map!Lapse(m, o), r)
  BY NoneAssumption DEF Map!Lapse, Map!HeldBy

\* holdSeats takes no seat of another order and only seats of the wish.
LEMMA HoldEffect ==
    ASSUME NEW m \in Map!SeatMaps, NEW o \in Requests, NEW wish \in SUBSET Seats
    PROVE  LET n == Map!HoldSeats(m, wish, o) IN
           /\ n \in Map!SeatMaps
           /\ \A r \in Requests \ {o} : Undisturbed(m, n, r)
           /\ Map!AssignedTo(n, o) \subseteq Map!AssignedTo(m, o) \cup wish
           /\ Map!SoldTo(m, o) \subseteq Map!SoldTo(n, o)
  BY NoneAssumption DEF Map!HoldSeats, Map!Holdable

\* The roll-back of a partial hold disturbs nobody's sold seats.
LEMMA RollBackEffect ==
    ASSUME NEW m \in Map!SeatMaps, NEW o \in Requests
    PROVE  /\ Map!RollBackHold(m, o) \in Map!SeatMaps
           /\ \A r \in Requests : Undisturbed(m, Map!RollBackHold(m, o), r)
  BY NoneAssumption DEF Map!RollBackHold, Map!HeldBy

\* confirmSeats sells the order's own held seats: all of the wish if the count
\* matches.
LEMMA ConfirmEffect ==
    ASSUME NEW m \in Map!SeatMaps, NEW o \in Requests, NEW wish \in SUBSET Seats
    PROVE  LET n == Map!ConfirmSeats(m, wish, o) IN
           /\ n \in Map!SeatMaps
           /\ \A r \in Requests : Undisturbed(m, n, r)
           /\ Map!Confirmable(m, wish, o) = wish => wish \subseteq Map!SoldTo(n, o)
  BY NoneAssumption DEF Map!ConfirmSeats, Map!Confirmable, Map!HeldBy

\* releaseSeats frees the order's own seats only.
LEMMA ReleaseEffect ==
    ASSUME NEW m \in Map!SeatMaps, NEW o \in Requests
    PROVE  LET n == Map!ReleaseSeats(m, o) IN
           /\ n \in Map!SeatMaps
           /\ \A r \in Requests \ {o} : Undisturbed(m, n, r)
           /\ Map!AssignedTo(n, o) = {}
  BY NoneAssumption DEF Map!ReleaseSeats

\* A seat the picker offers (canSelect) is one that holdSeats, which sweeps
\* first, can take, and the other way round.
THEOREM PickerAgreesWithHold ==
    ASSUME NEW m \in Map!SeatMaps, NEW s \in Seats
    PROVE  Map!CanSelect(m, s)
             <=> s \in Map!Holdable(Map!ReleaseExpiredHolds(m), Seats)
  BY DEF Map!CanSelect, Map!Holdable, Map!ReleaseExpiredHolds, Map!HoldExpired

HIDE DEF Map!SeatMaps, Map!Seat, Map!SeatState, Map!Unassigned, Map!Update,
         Map!AssignedTo, Map!SoldTo, Undisturbed

-----------------------------------------------------------------------------
(* Types *)

Invitation == [redeemed : BOOLEAN, order : Requests \cup {None}]

\* Claiming, releasing and finalizing keep an invite an invite.
LEMMA InviteTypes ==
    ASSUME NEW v \in Invitation, NEW b \in BOOLEAN, NEW r \in Requests
    PROVE  /\ [v EXCEPT !.redeemed = b] \in Invitation
           /\ [v EXCEPT !.order = r] \in Invitation
  BY DEF Invitation

\* A call that goes unanswered leaves pretix in one of its own states.
LEMMA OutcomeTypes ==
    ASSUME NEW s \in OrderStatus \cup {"none"}
    PROVE  /\ \A out \in MarkPaidOutcomes(s) :
                 out.status \in OrderStatus \cup {"none"}
           /\ \A out \in CancelOutcomes(s) :
                 out.status \in OrderStatus \cup {"none"}
  BY DEF MarkPaidOutcomes, CancelOutcomes, Moves, Refused, Unreachable,
         OrderStatus

LEMMA TypeInit == ASSUME Init PROVE TypeOK
  <1>1. ASSUME NEW state \in [Seats -> {"available", "accessible", "blocked"}]
        PROVE  [s \in Seats |-> Map!Unassigned(state[s])] \in Map!SeatMaps
    BY DEF Map!SeatMaps, Map!Seat, Map!SeatState, Map!Unassigned
  <1> QED
    BY <1>1, FaultsAssumption DEF Init, TypeOK, Steps, Free

LEMMA TypeStep == ASSUME TypeOK, Progress, [Next]_vars PROVE TypeOK'
  <1> SUFFICES ASSUME Next PROVE TypeOK'
    BY DEF TypeOK, vars
  <1> USE FormsAssumption
  <1>0. ASSUME NEW r \in Requests, Begun(r)
        PROVE  form[r].seats \in SUBSET Seats /\ form[r].invite \in Invites \cup {None}
    BY <1>0 DEF Progress, Form
  <1>1. ASSUME NEW r \in Requests, NEW f \in Forms, Submit(r, f) PROVE TypeOK'
    BY <1>1 DEF TypeOK, Submit, Goto, Steps
  <1>2. ASSUME NEW r \in Requests, ClaimInvite(r) PROVE TypeOK'
    <2> DEFINE i == form[r].invite
    <2>1. i \in Invites
      BY <1>2, <1>0 DEF ClaimInvite, Progress, Begun
    <2>2. invite \in [Invites -> Invitation]
      BY DEF TypeOK, Invitation
    <2>3. [invite[i] EXCEPT !.redeemed = TRUE] \in Invitation
      BY <2>1, <2>2, InviteTypes
    <2>4. invite' \in [Invites -> Invitation]
      BY <1>2, <2>1, <2>2, <2>3 DEF ClaimInvite
    <2> QED
      BY <1>2, <2>4 DEF TypeOK, ClaimInvite, Goto, Steps, Invitation
  <1>3. ASSUME NEW r \in Requests, Quote(r) PROVE TypeOK'
    BY <1>3 DEF TypeOK, Quote, Step, Goto, Steps
  <1>4. ASSUME NEW r \in Requests, CreateOrder(r) \/ CreateOrderFails(r)
        PROVE  TypeOK'
    BY <1>4
    DEF TypeOK, CreateOrder, CreateOrderFails, Created, AfterSeats, Goto, Steps,
        OrderStatus
  <1>5. ASSUME NEW r \in Requests, SweepHolds(r) PROVE TypeOK'
    BY <1>5, SweepEffect DEF TypeOK, SweepHolds, Step, Goto, Steps
  <1>6. ASSUME NEW r \in Requests, HoldSeats(r) PROVE TypeOK'
    BY <1>6, <1>0, HoldEffect DEF TypeOK, HoldSeats, Step, Goto, Steps, Begun
  <1>7. ASSUME NEW r \in Requests, RollBackHold(r) PROVE TypeOK'
    BY <1>7, RollBackEffect DEF TypeOK, RollBackHold, Step, Goto, Steps
  <1>8. ASSUME NEW r \in Requests, ConfirmSeats(r) PROVE TypeOK'
    BY <1>8, <1>0, ConfirmEffect
    DEF TypeOK, ConfirmSeats, Step, Goto, Steps, Begun, AfterSeats
  <1>9. ASSUME NEW r \in Requests, MarkPaid(r) PROVE TypeOK'
    <2>1. PICK out \in MarkPaidOutcomes(pretix[r]) :
             /\ pretix' = [pretix EXCEPT ![r] = out.status]
             /\ Goto(r, IF out.reply = "error" THEN "unpay" ELSE "insert")
      BY <1>9 DEF MarkPaid, Replies
    <2>2. out.status \in OrderStatus \cup {"none"}
      BY OutcomeTypes DEF TypeOK
    <2> QED
      BY <1>9, <2>1, <2>2 DEF TypeOK, MarkPaid, Goto, Steps
  <1>10. ASSUME NEW r \in Requests, InsertRow(r) PROVE TypeOK'
    BY <1>10 DEF TypeOK, InsertRow, Step, Goto, Steps
  <1>11. ASSUME NEW r \in Requests, FinalizeInvite(r) PROVE TypeOK'
    BY <1>11 DEF TypeOK, FinalizeInvite, Step, Goto, Steps
  <1>12. ASSUME NEW r \in Requests, ReleaseSeats(r) PROVE TypeOK'
    BY <1>12, ReleaseEffect DEF TypeOK, ReleaseSeats, Step, Goto, Steps
  <1>13. ASSUME NEW r \in Requests, CancelOrder(r) PROVE TypeOK'
    <2>1. PICK out \in CancelOutcomes(pretix[r]) :
             pretix' = [pretix EXCEPT ![r] = out.status]
      BY <1>13 DEF CancelOrder, Replies
    <2>2. out.status \in OrderStatus \cup {"none"}
      BY OutcomeTypes DEF TypeOK
    <2> QED
      BY <1>13, <2>1, <2>2 DEF TypeOK, CancelOrder, Step, Goto, Steps
  <1>14. ASSUME NEW r \in Requests, CancelUnpaid(r) PROVE TypeOK'
    <2>1. PICK out \in CancelOutcomes(pretix[r]) :
             /\ pretix' = [pretix EXCEPT ![r] = out.status]
             /\ Goto(r, AfterUnpay(out.reply))
      BY <1>14 DEF CancelUnpaid, Replies
    <2>2. out.status \in OrderStatus \cup {"none"}
      BY OutcomeTypes DEF TypeOK
    <2> QED
      BY <1>14, <2>1, <2>2
      DEF TypeOK, CancelUnpaid, AfterUnpay, Goto, Steps
  <1>15. ASSUME NEW r \in Requests, ReleaseInvite(r) PROVE TypeOK'
    <2> DEFINE i == form[r].invite
    <2>1. i \in Invites \cup {None}
      BY <1>15, <1>0 DEF ReleaseInvite, Step, Begun
    <2>2. invite \in [Invites -> Invitation]
      BY DEF TypeOK, Invitation
    <2>3. i # None => [invite[i] EXCEPT !.redeemed = FALSE] \in Invitation
      BY <2>1, <2>2, InviteTypes
    <2>4. invite' \in [Invites -> Invitation]
      BY <1>15, <2>1, <2>2, <2>3 DEF ReleaseInvite
    <2> QED
      BY <1>15, <2>4 DEF TypeOK, ReleaseInvite, Step, Goto, Steps, Invitation
  <1>16. ASSUME NEW r \in Requests, Fault(r) PROVE TypeOK'
    BY <1>16, FaultsAssumption DEF TypeOK, Fault, Step, Goto, Steps
  <1>17. ASSUME NEW r \in Requests, CancelLater(r) PROVE TypeOK'
    BY <1>17, ReleaseEffect DEF TypeOK, CancelLater, OrderStatus
  <1>18. ASSUME NEW r \in Requests, HoldLapses(r) PROVE TypeOK'
    BY <1>18, LapseEffect DEF TypeOK, HoldLapses
  <1>19. ASSUME ReadSeatMap PROVE TypeOK'
    BY <1>19, SweepEffect DEF TypeOK, ReadSeatMap
  <1> QED
    BY <1>1, <1>2, <1>3, <1>4, <1>5, <1>6, <1>7, <1>8, <1>9, <1>10, <1>11,
       <1>12, <1>13, <1>14, <1>15, <1>16, <1>17, <1>18, <1>19
    DEF Next, Advance

-----------------------------------------------------------------------------
(* The inductive invariant *)

\* A request moves one step at a time; only the row of a request past its
\* insert changes.
LEMMA ProgressStep ==
    ASSUME TypeOK, Progress, [Next]_vars PROVE Progress'
  <1> SUFFICES ASSUME Next PROVE Progress'
    BY DEF Progress, Begun, vars
  <1> USE FormsAssumption DEF Progress, Begun, TypeOK
  <1>1. ASSUME NEW r \in Requests, NEW f \in Forms, Submit(r, f)
        PROVE  Progress'
    BY <1>1 DEF Submit, Goto
  <1>2. ASSUME NEW r \in Requests,
               ClaimInvite(r) \/ Quote(r) \/ CreateOrder(r)
                 \/ CreateOrderFails(r)
        PROVE  Progress'
    BY <1>2
    DEF ClaimInvite, Quote, CreateOrder, CreateOrderFails, AfterSeats, Step, Goto
  <1>3. ASSUME NEW r \in Requests,
               SweepHolds(r) \/ HoldSeats(r) \/ RollBackHold(r) \/ ConfirmSeats(r)
        PROVE  Progress'
    BY <1>3
    DEF SweepHolds, HoldSeats, RollBackHold, ConfirmSeats, AfterSeats, Step, Goto
  <1>4. ASSUME NEW r \in Requests, MarkPaid(r) \/ CancelUnpaid(r)
        PROVE  Progress'
    BY <1>4 DEF MarkPaid, CancelUnpaid, AfterUnpay, Goto
  <1>5. ASSUME NEW r \in Requests, InsertRow(r) \/ FinalizeInvite(r)
        PROVE  Progress'
    BY <1>5 DEF InsertRow, FinalizeInvite, Step, Goto
  <1>6. ASSUME NEW r \in Requests,
               ReleaseSeats(r) \/ CancelOrder(r) \/ ReleaseInvite(r)
        PROVE  Progress'
    BY <1>6 DEF ReleaseSeats, CancelOrder, ReleaseInvite, Step, Goto
  <1>7. ASSUME NEW r \in Requests, Fault(r) PROVE Progress'
    BY <1>7 DEF Fault, InFlight, Step, Goto
  <1>8. ASSUME NEW r \in Requests, CancelLater(r) PROVE Progress'
    BY <1>8 DEF CancelLater
  <1>9. ASSUME ReadSeatMap \/ \E r \in Requests : HoldLapses(r) PROVE Progress'
    BY <1>9 DEF ReadSeatMap, HoldLapses
  <1> QED
    BY <1>1, <1>2, <1>3, <1>4, <1>5, <1>6, <1>7, <1>8, <1>9 DEF Next, Advance

\* A request that holds its invite reserved it in the table, alone.
LEMMA InviteStep ==
    ASSUME TypeOK, Progress, InviteReserved, [Next]_vars
    PROVE  InviteReserved'
  <1> SUFFICES ASSUME Next PROVE InviteReserved'
    BY DEF InviteReserved, WithInvite, Begun, Holding, SameInvite, vars
  <1> USE DEF InviteReserved, WithInvite, Begun, Holding, SameInvite
  <1>1. ASSUME NEW r \in Requests, NEW f \in Forms, Submit(r, f)
        PROVE  InviteReserved'
    BY <1>1 DEF Submit, Goto, TypeOK, Progress
  <1>2. ASSUME NEW r \in Requests, ClaimInvite(r) PROVE InviteReserved'
    <2> DEFINE i == form[r].invite
    <2>1. r \in WithInvite /\ at[r] = "claim" /\ row[r] = "none" /\ ~Holding(r)
      BY <1>2 DEF ClaimInvite, TypeOK, Progress
    <2>2. i \in Invites
      BY <2>1, FormsAssumption DEF Progress, Form
    <2>3. CASE invite[i].redeemed
      BY <1>2, <2>1, <2>3 DEF ClaimInvite, Claimable, Goto, TypeOK
    <2>4. CASE ~invite[i].redeemed
      <3>1. /\ at' = [at EXCEPT ![r] = "quote"]
            /\ invite' = [invite EXCEPT ![i] = [@ EXCEPT !.redeemed = TRUE]]
            /\ UNCHANGED <<form, row>>
        BY <1>2, <2>4 DEF ClaimInvite, Claimable, Goto
      <3>2. \A q \in WithInvite : form[q].invite = i => ~Holding(q)
        BY <2>4
      <3>3. WithInvite' = WithInvite
        BY <2>1, <3>1 DEF TypeOK
      <3>4. \A q \in Requests \ {r} : Holding(q)' = Holding(q)
        BY <3>1 DEF TypeOK
      <3>5. /\ \A j \in Invites : invite[j].redeemed => invite'[j].redeemed
            /\ invite'[i].redeemed
        BY <2>2, <3>1 DEF TypeOK
      <3>6. \A q \in WithInvite : form[q].invite \in Invites
        BY DEF Progress, Form
      <3> QED
        BY <3>1, <3>2, <3>3, <3>4, <3>5, <3>6
    <2> QED
      BY <2>3, <2>4
  <1>3. ASSUME NEW r \in Requests, ReleaseInvite(r) PROVE InviteReserved'
    <2> DEFINE i == form[r].invite
    <2>1. at[r] = "uninvite" /\ row[r] = "none" /\ Holding(r)
      BY <1>3 DEF ReleaseInvite, Step, Progress
    <2>2. /\ at' = [at EXCEPT ![r] = "failed"]
          /\ UNCHANGED <<form, row>>
          /\ \A j \in Invites \ {i} : invite'[j] = invite[j]
      BY <1>3 DEF ReleaseInvite, Step, Goto, TypeOK
    <2>3. WithInvite' = WithInvite
      BY <2>1, <2>2 DEF TypeOK
    <2>4. ~Holding(r)' /\ \A q \in Requests \ {r} : Holding(q)' = Holding(q)
      BY <2>1, <2>2 DEF TypeOK
    <2>5. \A q \in WithInvite \ {r} : form[q].invite = i => ~Holding(q)
      BY <2>1
    <2>6. \A q \in WithInvite : form[q].invite \in Invites
      BY DEF Progress, Form
    <2> QED
      BY <2>2, <2>3, <2>4, <2>5, <2>6
  <1>4. ASSUME NEW r \in Requests, FinalizeInvite(r) PROVE InviteReserved'
    BY <1>4 DEF FinalizeInvite, Step, Goto, TypeOK, Progress
  <1>5. ASSUME NEW r \in Requests,
               Quote(r) \/ CreateOrder(r) \/ CreateOrderFails(r)
        PROVE  InviteReserved'
    <2>1. /\ UNCHANGED <<form, row, invite>>
          /\ at[r] \in {"quote", "create"}
          /\ \E step \in Steps \ {"start", "claim", "done"} : Goto(r, step)
      BY <1>5
      DEF Quote, CreateOrder, CreateOrderFails, AfterSeats, Step, Goto, Steps
    <2> QED
      BY <2>1 DEF Goto, TypeOK
  <1>6. ASSUME NEW r \in Requests,
               SweepHolds(r) \/ HoldSeats(r) \/ RollBackHold(r) \/ ConfirmSeats(r)
        PROVE  InviteReserved'
    BY <1>6
    DEF SweepHolds, HoldSeats, RollBackHold, ConfirmSeats, AfterSeats, Step,
        Goto, TypeOK
  <1>7. ASSUME NEW r \in Requests,
               MarkPaid(r) \/ InsertRow(r) \/ ReleaseSeats(r) \/ CancelOrder(r)
                 \/ CancelUnpaid(r)
        PROVE  InviteReserved'
    BY <1>7
    DEF MarkPaid, InsertRow, ReleaseSeats, CancelOrder, CancelUnpaid,
        AfterUnpay, Step, Goto, TypeOK
  <1>8. ASSUME NEW r \in Requests, Fault(r) PROVE InviteReserved'
    BY <1>8 DEF Fault, InFlight, Step, Goto, TypeOK
  <1>9. ASSUME NEW r \in Requests, CancelLater(r) PROVE InviteReserved'
    BY <1>9 DEF CancelLater, TypeOK, Progress
  <1>10. ASSUME ReadSeatMap \/ \E r \in Requests : HoldLapses(r)
         PROVE  InviteReserved'
    BY <1>10 DEF ReadSeatMap, HoldLapses
  <1> QED
    BY <1>1, <1>2, <1>3, <1>4, <1>5, <1>6, <1>7, <1>8, <1>9, <1>10
    DEF Next, Advance

\* What SeatsAsWished says of one request.
SeatsOf(r) ==
    /\ Map!AssignedTo(seat, r) \subseteq IF Begun(r) THEN form[r].seats ELSE {}
    /\ at[r] \in {"pay", "insert"} \/ LiveRow(r)
          => form[r].seats \subseteq Map!SoldTo(seat, r)

\* Where a request stands still, its seats are what they were if the step left
\* them alone.
LEMMA BystanderSeats ==
    ASSUME NEW r \in Requests, SeatsOf(r), Undisturbed(seat, seat', r),
           at'[r] = at[r], form'[r] = form[r],
           row'[r] \in {row[r], "canceled"}
    PROVE  SeatsOf(r)'
  BY DEF SeatsOf, Undisturbed, Begun, LiveRow

\* The same where it moves on to a step that promises no more.
LEMMA MoverSeats ==
    ASSUME NEW r \in Requests, SeatsOf(r), Undisturbed(seat, seat', r),
           Begun(r), Begun(r)', form'[r] = form[r], row'[r] = row[r],
           at[r] \in {"pay", "insert"} \/ at'[r] \notin {"pay", "insert"}
    PROVE  SeatsOf(r)'
  BY DEF SeatsOf, Undisturbed, Begun, LiveRow

\* Steps that leave the seat map alone leave everybody undisturbed.
LEMMA SeatMapKept ==
    ASSUME UNCHANGED seat PROVE \A r \in Requests : Undisturbed(seat, seat', r)
  BY DEF Undisturbed, Map!AssignedTo, Map!SoldTo

\* Every registration keeps the seats it was sold, whoever else moves.
LEMMA SeatsStep ==
    ASSUME TypeOK, Progress, SeatsAsWished, [Next]_vars PROVE SeatsAsWished'
  <1> USE FormsAssumption
  <1>0. /\ seat \in Map!SeatMaps
        /\ \A r \in Requests : SeatsOf(r)
        /\ \A r \in Requests : Begun(r) => form[r].seats \in SUBSET Seats
    BY DEF TypeOK, SeatsAsWished, SeatsOf, Progress, Form
  <1> SUFFICES ASSUME Next, NEW q \in Requests PROVE SeatsOf(q)'
    <2>1. CASE UNCHANGED vars
      BY <2>1 DEF SeatsAsWished, Begun, LiveRow, vars, Map!AssignedTo, Map!SoldTo
    <2> QED
      BY <2>1 DEF SeatsAsWished, SeatsOf
  <1>1. ASSUME NEW r \in Requests, NEW f \in Forms, Submit(r, f)
        PROVE  SeatsOf(q)'
    <2>1. Undisturbed(seat, seat', q)
      BY <1>1, SeatMapKept DEF Submit
    <2>2. CASE q = r
      BY <1>0, <1>1, <2>1, <2>2
      DEF Submit, Goto, TypeOK, Progress, SeatsOf, Undisturbed, Begun, LiveRow
    <2>3. CASE q # r
      BY <1>0, <1>1, <2>1, <2>3, BystanderSeats DEF Submit, Goto, TypeOK
    <2> QED
      BY <2>2, <2>3
  <1>2. ASSUME NEW r \in Requests,
               ClaimInvite(r) \/ Quote(r) \/ FinalizeInvite(r) \/ CancelOrder(r)
                 \/ CancelUnpaid(r) \/ ReleaseInvite(r) \/ Fault(r)
        PROVE  SeatsOf(q)'
    <2>1. Undisturbed(seat, seat', q)
      BY <1>2, SeatMapKept
      DEF ClaimInvite, Quote, FinalizeInvite, CancelOrder, CancelUnpaid,
          ReleaseInvite, Fault
    <2>2. /\ form' = form /\ row' = row
          /\ at[r] # "start"
          /\ \E step \in Steps \ {"start", "pay", "insert"} : Goto(r, step)
      BY <1>2
      DEF ClaimInvite, Quote, FinalizeInvite, CancelOrder, CancelUnpaid,
          AfterUnpay, ReleaseInvite, Fault, InFlight, Step, Goto, Steps
    <2>3. CASE q = r
      BY <1>0, <2>1, <2>2, <2>3, MoverSeats DEF Goto, TypeOK, Begun
    <2>4. CASE q # r
      BY <1>0, <2>1, <2>2, <2>4, BystanderSeats DEF Goto, TypeOK
    <2> QED
      BY <2>3, <2>4
  <1>3. ASSUME NEW r \in Requests, CreateOrder(r) \/ CreateOrderFails(r)
        PROVE  SeatsOf(q)'
    <2>1. Undisturbed(seat, seat', q)
      BY <1>3, SeatMapKept DEF CreateOrder, CreateOrderFails
    <2>2. /\ form' = form /\ row' = row /\ at[r] = "create"
          /\ \E step \in Steps \ {"start"} :
                /\ Goto(r, step)
                /\ step \in {"pay", "insert"} => form[r].seats = {}
      BY <1>3 DEF CreateOrder, CreateOrderFails, AfterSeats, Goto, Steps
    <2>3. CASE q = r
      BY <1>0, <2>1, <2>2, <2>3
      DEF Goto, TypeOK, SeatsOf, Undisturbed, Begun, LiveRow, Progress
    <2>4. CASE q # r
      BY <1>0, <2>1, <2>2, <2>4, BystanderSeats DEF Goto, TypeOK
    <2> QED
      BY <2>3, <2>4
  <1>4. ASSUME NEW r \in Requests, SweepHolds(r) \/ RollBackHold(r)
        PROVE  SeatsOf(q)'
    <2>1. Undisturbed(seat, seat', q)
      BY <1>0, <1>4, SweepEffect, RollBackEffect DEF SweepHolds, RollBackHold
    <2>2. /\ form' = form /\ row' = row /\ at[r] # "start"
          /\ \E step \in {"hold", "unseat"} : Goto(r, step)
      BY <1>4 DEF SweepHolds, RollBackHold, Step
    <2>3. CASE q = r
      BY <1>0, <2>1, <2>2, <2>3, MoverSeats DEF Goto, TypeOK, Begun
    <2>4. CASE q # r
      BY <1>0, <2>1, <2>2, <2>4, BystanderSeats DEF Goto, TypeOK
    <2> QED
      BY <2>3, <2>4
  <1>5. ASSUME NEW r \in Requests, HoldSeats(r) PROVE SeatsOf(q)'
    <2>1. /\ form' = form /\ row' = row /\ at[r] = "hold"
          /\ \E step \in {"confirm", "rollback"} : Goto(r, step)
          /\ form[r].seats \in SUBSET Seats
          /\ seat' = Map!HoldSeats(seat, form[r].seats, r)
      BY <1>0, <1>5 DEF HoldSeats, Step, Begun
    <2>2. CASE q = r
      <3>1. /\ Map!AssignedTo(seat', r)
                  \subseteq Map!AssignedTo(seat, r) \cup form[r].seats
            /\ Map!SoldTo(seat, r) \subseteq Map!SoldTo(seat', r)
        BY <1>0, <2>1, HoldEffect
      <3> QED
        BY <1>0, <2>1, <2>2, <3>1 DEF Goto, TypeOK, SeatsOf, Begun, LiveRow
    <2>3. CASE q # r
      <3>1. Undisturbed(seat, seat', q)
        BY <1>0, <2>1, <2>3, HoldEffect
      <3> QED
        BY <1>0, <2>1, <2>3, <3>1, BystanderSeats DEF Goto, TypeOK
    <2> QED
      BY <2>2, <2>3
  <1>6. ASSUME NEW r \in Requests, ConfirmSeats(r) PROVE SeatsOf(q)'
    <2>1. /\ form' = form /\ row' = row /\ at[r] = "confirm"
          /\ \E step \in {"pay", "insert", "unseat"} :
                /\ Goto(r, step)
                /\ step # "unseat" =>
                      Map!Confirmable(seat, form[r].seats, r) = form[r].seats
          /\ form[r].seats \in SUBSET Seats
          /\ seat' = Map!ConfirmSeats(seat, form[r].seats, r)
      BY <1>0, <1>6 DEF ConfirmSeats, AfterSeats, Step, Begun
    <2>2. /\ Undisturbed(seat, seat', q)
          /\ Map!Confirmable(seat, form[r].seats, r) = form[r].seats
                => form[r].seats \subseteq Map!SoldTo(seat', r)
      BY <1>0, <2>1, ConfirmEffect
    <2>3. CASE q = r
      BY <1>0, <2>1, <2>2, <2>3
      DEF Goto, TypeOK, SeatsOf, Undisturbed, Begun, LiveRow
    <2>4. CASE q # r
      BY <1>0, <2>1, <2>2, <2>4, BystanderSeats DEF Goto, TypeOK
    <2> QED
      BY <2>3, <2>4
  <1>7. ASSUME NEW r \in Requests, MarkPaid(r) \/ InsertRow(r)
        PROVE  SeatsOf(q)'
    <2>1. Undisturbed(seat, seat', q)
      BY <1>7, SeatMapKept DEF MarkPaid, InsertRow
    <2>2. /\ form' = form
          /\ at[r] \in {"pay", "insert"}
          /\ \E step \in Steps \ {"start"} : Goto(r, step)
          /\ \A o \in Requests \ {r} : row'[o] = row[o]
      BY <1>7 DEF MarkPaid, InsertRow, Step, Goto, Steps, TypeOK
    <2>3. CASE q = r
      BY <1>0, <2>1, <2>2, <2>3
      DEF Goto, TypeOK, SeatsOf, Undisturbed, Begun, LiveRow
    <2>4. CASE q # r
      BY <1>0, <2>1, <2>2, <2>4, BystanderSeats DEF Goto, TypeOK
    <2> QED
      BY <2>3, <2>4
  <1>8. ASSUME NEW r \in Requests, ReleaseSeats(r) PROVE SeatsOf(q)'
    <2>1. /\ form' = form /\ row' = row /\ at[r] = "unseat"
          /\ Goto(r, "unorder")
          /\ seat' = Map!ReleaseSeats(seat, r)
      BY <1>8 DEF ReleaseSeats, Step
    <2>2. CASE q = r
      BY <1>0, <2>1, <2>2, ReleaseEffect
      DEF Goto, TypeOK, Progress, SeatsOf, Begun, LiveRow
    <2>3. CASE q # r
      BY <1>0, <2>1, <2>3, ReleaseEffect, BystanderSeats DEF Goto, TypeOK
    <2> QED
      BY <2>2, <2>3
  <1>9. ASSUME NEW r \in Requests, CancelLater(r) PROVE SeatsOf(q)'
    <2>1. /\ form' = form /\ at' = at /\ seat' = Map!ReleaseSeats(seat, r)
          /\ row[r] \in {"pending", "paid"}
          /\ row' = [row EXCEPT ![r] = "canceled"]
      BY <1>9 DEF CancelLater
    <2>2. CASE q = r
      BY <1>0, <2>1, <2>2, ReleaseEffect
      DEF TypeOK, Progress, SeatsOf, Begun, LiveRow
    <2>3. CASE q # r
      BY <1>0, <2>1, <2>3, ReleaseEffect, BystanderSeats DEF TypeOK
    <2> QED
      BY <2>2, <2>3
  <1>10. ASSUME ReadSeatMap \/ \E r \in Requests : HoldLapses(r)
         PROVE  SeatsOf(q)'
    <2>1. Undisturbed(seat, seat', q)
      BY <1>0, <1>10, SweepEffect, LapseEffect DEF ReadSeatMap, HoldLapses
    <2> QED
      BY <1>0, <1>10, <2>1, BystanderSeats DEF ReadSeatMap, HoldLapses, TypeOK
  <1> QED
    BY <1>1, <1>2, <1>3, <1>4, <1>5, <1>6, <1>7, <1>8, <1>9, <1>10
    DEF Next, Advance

-----------------------------------------------------------------------------
(* The theorems *)

LEMMA RegistrationInit == ASSUME Init PROVE RegistrationInv
  <1>1. Progress
    BY DEF Init, Progress, Begun
  <1>2. InviteReserved
    BY DEF Init, InviteReserved, WithInvite, Begun
  <1>3. SeatsAsWished
    BY NoneAssumption
    DEF Init, SeatsAsWished, LiveRow, Begun, Map!AssignedTo, Map!Unassigned
  <1> QED
    BY <1>1, <1>2, <1>3, TypeInit DEF RegistrationInv

\* The inductive invariant holds: every request is where its submission can
\* have brought it, every invite in use is reserved by one request, and every
\* order has no seat but those it asked for.
THEOREM RegistrationCorrect == Spec => []RegistrationInv
  <1>1. RegistrationInv /\ [Next]_vars => RegistrationInv'
    BY TypeStep, ProgressStep, InviteStep, SeatsStep DEF RegistrationInv
  <1> QED
    BY RegistrationInit, <1>1, PTL DEF Spec

\* Every variable keeps its type.
THEOREM RegistrationTypes == Spec => []TypeOK
  <1>1. RegistrationInv => TypeOK
    BY DEF RegistrationInv
  <1> QED
    BY RegistrationCorrect, <1>1, PTL

\* However many requests compete for an invite, and whichever of them fail,
\* die or go unanswered, at most one registration comes of it.
THEOREM InviteIsSingleUse == Spec => []InviteUsedOnce
  <1>1. RegistrationInv => InviteUsedOnce
    BY DEF RegistrationInv, InviteReserved, InviteUsedOnce, Holding, SameInvite
  <1> QED
    BY RegistrationCorrect, <1>1, PTL

\* However many requests compete for its seats, and however long they take, a
\* live registration has exactly the seats it asked for.
THEOREM LiveRegistrationsKeepSeats == Spec => []RowKeepsSeats
  <1>1. RegistrationInv => RowKeepsSeats
    BY DEF RegistrationInv, SeatsAsWished, RowKeepsSeats, LiveRow, Progress,
           Begun, Map!SoldTo
  <1> QED
    BY RegistrationCorrect, <1>1, PTL

-----------------------------------------------------------------------------
(* One live order per invite *)

\* A step of one request, time apart, or time: a hold lapses, a reader sweeps.
StepOf(r) == (\E f \in Forms : Submit(r, f)) \/ Advance(r) \/ Fault(r) \/ CancelLater(r)
TimeOnly == UNCHANGED <<at, form, pretix, learnt, row, invite>>

LEMMA StepOrTime == ASSUME [Next]_vars PROVE TimeOnly \/ \E r \in Requests : StepOf(r)
  BY DEF Next, StepOf, TimeOnly, ReadSeatMap, HoldLapses, vars

\* A step of one request leaves the others where they are.
LEMMA OthersStand ==
    ASSUME TypeOK, NEW r \in Requests, StepOf(r), NEW q \in Requests, q # r
    PROVE  /\ at'[q] = at[q] /\ form'[q] = form[q] /\ learnt'[q] = learnt[q]
           /\ pretix'[q] = pretix[q] /\ row'[q] = row[q]
  <1> USE DEF TypeOK
  <1>1. CASE \E f \in Forms : Submit(r, f)
    BY <1>1 DEF Submit, Goto
  <1>2. CASE ClaimInvite(r) \/ Quote(r) \/ CreateOrder(r) \/ CreateOrderFails(r)
    BY <1>2 DEF ClaimInvite, Quote, CreateOrder, CreateOrderFails, Step, Goto
  <1>3. CASE SweepHolds(r) \/ HoldSeats(r) \/ RollBackHold(r) \/ ConfirmSeats(r)
    BY <1>3 DEF SweepHolds, HoldSeats, RollBackHold, ConfirmSeats, Step, Goto
  <1>4. CASE MarkPaid(r) \/ InsertRow(r) \/ FinalizeInvite(r)
    BY <1>4 DEF MarkPaid, InsertRow, FinalizeInvite, Step, Goto
  <1>5. CASE ReleaseSeats(r) \/ CancelOrder(r) \/ CancelUnpaid(r) \/ ReleaseInvite(r)
    BY <1>5 DEF ReleaseSeats, CancelOrder, CancelUnpaid, ReleaseInvite, Step, Goto
  <1>6. CASE Fault(r) \/ CancelLater(r)
    BY <1>6 DEF Fault, CancelLater, Step, Goto
  <1> QED
    BY <1>1, <1>2, <1>3, <1>4, <1>5, <1>6 DEF StepOf, Advance

\* What a request knows of its order, by where it stands: nothing before the
\* reply of createOrder, and on the way back from a seat failure that it had
\* seats; it gives an invite back only for an order that is gone.
OrderKnown(r) ==
    /\ at[r] \in {"start", "claim", "quote", "create"} => learnt[r] = "none"
    /\ at[r] \in {"sweep", "hold", "rollback", "confirm", "unseat", "unorder"}
          => form[r].seats # {}
    /\ at[r] = "uninvite" => ~KnownLiveOrder(r)

OrdersKnown == \A r \in Requests : OrderKnown(r)

LEMMA OrdersKnownStep ==
    ASSUME TypeOK, OrdersKnown, [Next]_vars PROVE OrdersKnown'
  <1>1. ASSUME NEW r \in Requests, StepOf(r) PROVE OrdersKnown'
    <2>1. ASSUME NEW q \in Requests, q # r PROVE OrderKnown(q)'
      BY <1>1, <2>1, OthersStand DEF OrdersKnown, OrderKnown, KnownLiveOrder, LiveOrder
    <2>2. OrderKnown(r)'
      <3> USE DEF OrdersKnown, OrderKnown, KnownLiveOrder, LiveOrder, TypeOK
      <3>1. CASE \E f \in Forms : Submit(r, f)
        BY <3>1 DEF Submit, Goto
      <3>2. CASE ClaimInvite(r) \/ Quote(r)
        BY <3>2 DEF ClaimInvite, Quote, Step, Goto
      <3>3. CASE CreateOrder(r)
        BY <3>3 DEF CreateOrder, AfterSeats, Goto
      <3>4. CASE CreateOrderFails(r)
        BY <3>4 DEF CreateOrderFails, Goto
      <3>5. CASE SweepHolds(r) \/ HoldSeats(r) \/ RollBackHold(r) \/ ConfirmSeats(r)
        BY <3>5 DEF SweepHolds, HoldSeats, RollBackHold, ConfirmSeats, AfterSeats, Step, Goto
      <3>6. CASE MarkPaid(r) \/ InsertRow(r) \/ FinalizeInvite(r)
        BY <3>6 DEF MarkPaid, InsertRow, FinalizeInvite, Step, Goto
      <3>7. CASE ReleaseSeats(r) \/ CancelOrder(r) \/ ReleaseInvite(r)
        BY <3>7 DEF ReleaseSeats, CancelOrder, ReleaseInvite, Step, Goto
      <3>8. CASE CancelUnpaid(r)
        BY <3>8 DEF CancelUnpaid, AfterUnpay, Replies, CancelOutcomes, Moves, Refused,
                    Unreachable, Goto
      <3>9. CASE Fault(r)
        BY <3>9 DEF Fault, InFlight, Step, Goto
      <3>10. CASE CancelLater(r)
        BY <3>10 DEF CancelLater
      <3> QED
        BY <1>1, <3>1, <3>2, <3>3, <3>4, <3>5, <3>6, <3>7, <3>8, <3>9, <3>10
        DEF StepOf, Advance
    <2> QED
      BY <2>1, <2>2 DEF OrdersKnown
  <1>2. ASSUME TimeOnly PROVE OrdersKnown'
    BY <1>2 DEF TimeOnly, OrdersKnown, OrderKnown, KnownLiveOrder, LiveOrder
  <1> QED
    BY <1>1, <1>2, StepOrTime

\* An invite is taken by the request that holds it, and by a live order of it
\* for as long as that order lives.
Backs(r) == Holding(r) \/ KnownLiveOrder(r)

BackersAlone ==
    \A r \in WithInvite :
        Backs(r) => /\ invite[form[r].invite].redeemed
                    /\ \A q \in WithInvite : SameInvite(r, q) => ~Backs(q)

\* A request comes to back an invite by its claim only, and stops by giving it
\* back, or without giving it back.
LEMMA BackersMove ==
    ASSUME TypeOK, Progress, OrdersKnown, NEW r \in Requests, StepOf(r)
    PROVE  \/ /\ Begun(r) /\ form' = form /\ (Backs(r)' => Backs(r))
              /\ \A i \in Invites : invite[i].redeemed => invite'[i].redeemed
           \/ /\ Begun(r)' /\ (form'[r].invite = None \/ ~Backs(r)') /\ invite' = invite
           \/ /\ Begun(r) /\ form' = form /\ form[r].invite \in Invites
              /\ ~invite[form[r].invite].redeemed
              /\ invite' = [invite EXCEPT ![form[r].invite] = [@ EXCEPT !.redeemed = TRUE]]
           \/ /\ Begun(r) /\ form' = form /\ Backs(r) /\ ~Backs(r)'
              /\ \A i \in Invites : i # form[r].invite => invite'[i] = invite[i]
  <1> USE DEF TypeOK, Begun
  <1>1. CASE \E f \in Forms : Submit(r, f)
    <2>1. PICK f \in Forms : Submit(r, f)
      BY <1>1
    <2>2. learnt[r] = "none" /\ row[r] = "none"
      BY <2>1 DEF Submit, OrdersKnown, OrderKnown, Progress
    <2>3. /\ at'[r] = IF f.invite = None THEN "quote" ELSE "claim"
          /\ form'[r] = f /\ invite' = invite /\ learnt' = learnt /\ row' = row
      BY <2>1 DEF Submit, Goto
    <2>4. f.invite # None => ~Backs(r)'
      BY <2>2, <2>3 DEF Backs, Holding, KnownLiveOrder
    <2> QED
      BY <2>3, <2>4
  <1>2. CASE ClaimInvite(r)
    <2>1. /\ at[r] = "claim" /\ form[r].invite \in Invites /\ form' = form
      BY <1>2, FormsAssumption DEF ClaimInvite, Progress, Form
    <2>2. CASE Claimable(form[r].invite)
      BY <1>2, <2>1, <2>2 DEF ClaimInvite, Claimable
    <2>3. CASE ~Claimable(form[r].invite)
      <3>1. learnt[r] = "none" /\ row[r] = "none"
        BY <2>1 DEF OrdersKnown, OrderKnown, Progress
      <3>2. /\ at'[r] = "failed" /\ invite' = invite /\ learnt' = learnt /\ row' = row
        BY <1>2, <2>3 DEF ClaimInvite, Goto
      <3>3. ~Backs(r)'
        BY <3>1, <3>2 DEF Backs, Holding, KnownLiveOrder
      <3> QED
        BY <2>1, <3>2, <3>3
    <2> QED
      BY <2>2, <2>3
  <1>3. CASE ReleaseInvite(r)
    <2>1. /\ at[r] = "uninvite" /\ at'[r] = "failed" /\ row[r] = "none" /\ ~KnownLiveOrder(r)
          /\ UNCHANGED <<form, pretix, learnt, row>>
      BY <1>3 DEF ReleaseInvite, Step, Goto, Progress, OrdersKnown, OrderKnown
    <2>2. Backs(r) /\ ~Backs(r)'
      BY <2>1 DEF Backs, Holding, KnownLiveOrder, LiveOrder
    <2>3. \A i \in Invites : i # form[r].invite => invite'[i] = invite[i]
      BY <1>3 DEF ReleaseInvite
    <2> QED
      BY <2>1, <2>2, <2>3
  <1>4. CASE Quote(r) \/ CreateOrder(r) \/ CreateOrderFails(r)
             \/ SweepHolds(r) \/ HoldSeats(r) \/ RollBackHold(r) \/ ConfirmSeats(r)
             \/ MarkPaid(r) \/ InsertRow(r) \/ ReleaseSeats(r) \/ CancelOrder(r)
             \/ CancelUnpaid(r)
    <2>1. at[r] \notin {"start", "claim", "done", "failed"} /\ form' = form /\ invite' = invite
      BY <1>4 DEF Quote, CreateOrder, CreateOrderFails, SweepHolds, HoldSeats, RollBackHold,
         ConfirmSeats, MarkPaid, InsertRow, ReleaseSeats, CancelOrder, CancelUnpaid, Step
    <2> QED
      BY <2>1 DEF Backs, Holding
  <1>5. CASE FinalizeInvite(r)
    <2>1. /\ at[r] = "finalize" /\ form' = form
          /\ invite' = [invite EXCEPT ![form[r].invite] = [@ EXCEPT !.order = r]]
      BY <1>5 DEF FinalizeInvite, Step
    <2>2. \A i \in Invites : invite[i].redeemed => invite'[i].redeemed
      BY <2>1
    <2> QED
      BY <2>1, <2>2 DEF Backs, Holding
  <1>6. CASE Fault(r)
    <2>1. /\ at[r] \notin {"start", "done", "failed"}
          /\ UNCHANGED <<form, pretix, learnt, row, invite>>
          /\ at'[r] \in {"unseat", "unorder", "done", "failed"}
          /\ at[r] = "claim" => at'[r] = "failed"
      BY <1>6 DEF Fault, InFlight, Step, Goto
    <2>2. Backs(r)' => Backs(r)
      BY <2>1 DEF Backs, Holding, KnownLiveOrder, LiveOrder
    <2> QED
      BY <2>1, <2>2
  <1>7. CASE CancelLater(r)
    <2>1. /\ row[r] # "none" /\ row[r] \in {"pending", "paid"}
          /\ UNCHANGED <<form, invite>> /\ at[r] # "start"
      BY <1>7 DEF CancelLater, Progress
    <2> QED
      BY <2>1 DEF Backs, Holding
  <1> QED
    BY <1>1, <1>2, <1>3, <1>4, <1>5, <1>6, <1>7 DEF StepOf, Advance

LEMMA BackersStep ==
    ASSUME TypeOK, Progress, OrdersKnown, BackersAlone, [Next]_vars
    PROVE  BackersAlone'
  <1>1. CASE TimeOnly
    BY <1>1 DEF TimeOnly, BackersAlone, Backs, WithInvite, Begun, Holding, SameInvite,
                KnownLiveOrder, LiveOrder
  <1>2. ASSUME NEW r \in Requests, StepOf(r) PROVE BackersAlone'
    <2>1. \A q \in Requests : q # r =>
             /\ Backs(q)' = Backs(q) /\ Begun(q)' = Begun(q) /\ form'[q] = form[q]
      BY <1>2, OthersStand DEF Backs, Holding, KnownLiveOrder, LiveOrder, Begun
    <2>2. \A q \in WithInvite : form[q].invite \in Invites
      BY FormsAssumption DEF Progress, WithInvite, Form
    <2> SUFFICES ASSUME NEW p \in WithInvite', Backs(p)'
                 PROVE  /\ invite'[form'[p].invite].redeemed
                        /\ \A q \in WithInvite' : SameInvite(p, q)' => ~Backs(q)'
      BY DEF BackersAlone
    <2> USE DEF BackersAlone, WithInvite, SameInvite
    <2>3. CASE /\ Begun(r) /\ form' = form /\ (Backs(r)' => Backs(r))
               /\ \A i \in Invites : invite[i].redeemed => invite'[i].redeemed
      <3>1. \A q \in WithInvite' : q \in WithInvite /\ (Backs(q)' => Backs(q))
        BY <2>1, <2>3
      <3> QED
        BY <2>2, <2>3, <3>1
    <2>4. CASE /\ Begun(r)' /\ (form'[r].invite = None \/ ~Backs(r)') /\ invite' = invite
      <3>1. p # r /\ p \in WithInvite /\ Backs(p) /\ form'[p] = form[p]
        BY <2>1, <2>4
      <3>2. \A q \in WithInvite' :
               q = r \/ (q \in WithInvite /\ form'[q] = form[q] /\ (Backs(q)' => Backs(q)))
        BY <2>1
      <3> QED
        BY <2>4, <3>1, <3>2
    <2>5. CASE /\ Begun(r) /\ form' = form /\ form[r].invite \in Invites
               /\ ~invite[form[r].invite].redeemed
               /\ invite' = [invite EXCEPT ![form[r].invite] = [@ EXCEPT !.redeemed = TRUE]]
      <3>1. WithInvite' \subseteq WithInvite /\ r \in WithInvite
        BY <2>1, <2>5, NoneAssumption
      <3>2. \A q \in WithInvite : form[q].invite = form[r].invite => ~Backs(q)
        BY <2>5
      <3>3. CASE p = r
        BY <2>1, <2>5, <3>1, <3>2, <3>3 DEF TypeOK
      <3>4. CASE p # r
        BY <2>1, <2>2, <2>5, <3>1, <3>2, <3>4 DEF TypeOK
      <3> QED
        BY <3>3, <3>4
    <2>6. CASE /\ Begun(r) /\ form' = form /\ Backs(r) /\ ~Backs(r)'
               /\ \A i \in Invites : i # form[r].invite => invite'[i] = invite[i]
      <3>1. p # r /\ p \in WithInvite /\ Backs(p) /\ form'[p] = form[p]
        BY <2>1, <2>6
      <3>2. form[p].invite # form[r].invite
        BY <2>6, <3>1
      <3> QED
        BY <2>1, <2>2, <2>6, <3>1, <3>2
    <2> QED
      BY <1>2, <2>3, <2>4, <2>5, <2>6, BackersMove
  <1> QED
    BY <1>1, <1>2, StepOrTime

\* Among the orders whose creation was answered, no invite ever backs two live
\* ones, whichever requests compete for it, fail, die or go unanswered later.
THEOREM OneOrderPerInvite == Spec => []OneLiveOrderPerInvite
  <1>1. Init => OrdersKnown /\ BackersAlone
    BY DEF Init, OrdersKnown, OrderKnown, BackersAlone, WithInvite, Begun
  <1>2. RegistrationInv /\ OrdersKnown /\ BackersAlone /\ [Next]_vars
          => OrdersKnown' /\ BackersAlone'
    BY OrdersKnownStep, BackersStep DEF RegistrationInv
  <1>3. OrdersKnown /\ BackersAlone => OneLiveOrderPerInvite
    BY DEF BackersAlone, Backs, OneLiveOrderPerInvite
  <1> QED
    BY RegistrationCorrect, <1>1, <1>2, <1>3, PTL DEF Spec

-----------------------------------------------------------------------------
(* Seats return *)

\* No step gives a seat to anybody but the request whose step it is.
LEMMA NobodyElseGains ==
    ASSUME TypeOK, Progress, NEW q \in Requests,
           \/ \E r \in Requests \ {q} : StepOf(r)
           \/ ReadSeatMap
           \/ \E r \in Requests : HoldLapses(r)
    PROVE  Map!AssignedTo(seat', q) \subseteq Map!AssignedTo(seat, q)
  <1>1. seat \in Map!SeatMaps
    BY DEF TypeOK
  <1> SUFFICES Undisturbed(seat, seat', q)
    BY DEF Undisturbed
  <1>2. CASE ReadSeatMap
    BY <1>1, <1>2, SweepEffect DEF ReadSeatMap
  <1>3. ASSUME NEW r \in Requests, HoldLapses(r) PROVE Undisturbed(seat, seat', q)
    BY <1>1, <1>3, LapseEffect DEF HoldLapses
  <1>4. ASSUME NEW r \in Requests \ {q}, StepOf(r) PROVE Undisturbed(seat, seat', q)
    <2>1. CASE (\E f \in Forms : Submit(r, f)) \/ ClaimInvite(r) \/ Quote(r) \/ CreateOrder(r)
               \/ CreateOrderFails(r) \/ MarkPaid(r) \/ InsertRow(r) \/ FinalizeInvite(r)
               \/ CancelOrder(r) \/ CancelUnpaid(r) \/ ReleaseInvite(r) \/ Fault(r)
      <3>1. UNCHANGED seat
        BY <2>1 DEF Submit, ClaimInvite, Quote, CreateOrder, CreateOrderFails, MarkPaid,
           InsertRow, FinalizeInvite, CancelOrder, CancelUnpaid, ReleaseInvite, Fault
      <3> QED
        BY <3>1, SeatMapKept
    <2>2. CASE SweepHolds(r)
      BY <1>1, <2>2, SweepEffect DEF SweepHolds
    <2>3. CASE HoldSeats(r)
      <3>1. form[r].seats \in SUBSET Seats
        BY <2>3, FormsAssumption DEF HoldSeats, Step, Progress, Begun, Form
      <3> QED
        BY <1>1, <1>4, <2>3, <3>1, HoldEffect DEF HoldSeats
    <2>4. CASE RollBackHold(r)
      BY <1>1, <2>4, RollBackEffect DEF RollBackHold
    <2>5. CASE ConfirmSeats(r)
      <3>1. form[r].seats \in SUBSET Seats
        BY <2>5, FormsAssumption DEF ConfirmSeats, Step, Progress, Begun, Form
      <3> QED
        BY <1>1, <2>5, <3>1, ConfirmEffect DEF ConfirmSeats
    <2>6. CASE ReleaseSeats(r) \/ CancelLater(r)
      BY <1>1, <1>4, <2>6, ReleaseEffect DEF ReleaseSeats, CancelLater
    <2> QED
      BY <1>4, <2>1, <2>2, <2>3, <2>4, <2>5, <2>6 DEF StepOf, Advance
  <1> QED
    BY <1>2, <1>3, <1>4

\* Where a request must have no seats, unless it is of the kind whose failed
\* mark-paid keeps them; only that kind comes to pay here at all.
Seatless(r) == Map!AssignedTo(seat, r) = {} \/ (Begun(r) /\ SettledHere(r))

AccountOf(r) ==
    /\ at[r] \in {"start", "claim", "quote", "create", "unorder", "uninvite", "failed"}
          => Seatless(r)
    /\ row[r] = "canceled" => Seatless(r)
    /\ at[r] \in {"pay", "unpay"} => SettledHere(r)
    /\ at[r] \in {"finalize", "done"} => row[r] # "none"
    /\ at[r] = "failed" => row[r] = "none"

SeatsAccounted == faults = 0 => \A r \in Requests : AccountOf(r)

\* A request that stands still is accounted for as before.
LEMMA AccountKept ==
    ASSUME NEW r \in Requests, AccountOf(r),
           at'[r] = at[r], form'[r] = form[r], row'[r] = row[r],
           Map!AssignedTo(seat', r) \subseteq Map!AssignedTo(seat, r)
    PROVE  AccountOf(r)'
  BY DEF AccountOf, Seatless, SettledHere, Begun

LEMMA AccountStep ==
    ASSUME RegistrationInv, SeatsAccounted, [Next]_vars PROVE SeatsAccounted'
  <1> USE DEF RegistrationInv
  <1>1. CASE UNCHANGED vars
    BY <1>1 DEF SeatsAccounted, AccountOf, Seatless, SettledHere, Begun, vars, Map!AssignedTo
  <1>2. CASE ReadSeatMap \/ \E r \in Requests : HoldLapses(r)
    <2>1. UNCHANGED <<at, form, row, faults>>
      BY <1>2 DEF ReadSeatMap, HoldLapses
    <2> QED
      BY <1>2, <2>1, NobodyElseGains, AccountKept DEF SeatsAccounted
  <1>3. ASSUME NEW r \in Requests, StepOf(r) PROVE SeatsAccounted'
    <2> SUFFICES ASSUME faults' = 0 PROVE \A q \in Requests : AccountOf(q)'
      BY DEF SeatsAccounted
    <2>1. faults = 0 /\ ~Fault(r)
      <3>1. faults \in Nat
        BY FaultsAssumption DEF TypeOK
      <3>2. ~Fault(r)
        BY <3>1 DEF Fault
      <3>3. UNCHANGED faults
        BY <1>3, <3>2 DEF StepOf, Advance, Submit, ClaimInvite, Quote, CreateOrder,
           CreateOrderFails, SweepHolds, HoldSeats, RollBackHold, ConfirmSeats, MarkPaid,
           InsertRow, FinalizeInvite, ReleaseSeats, CancelOrder, CancelUnpaid, ReleaseInvite,
           CancelLater
      <3> QED
        BY <3>2, <3>3
    <2>2. ASSUME NEW q \in Requests, q # r PROVE AccountOf(q)'
      BY <1>3, <2>1, <2>2, OthersStand, NobodyElseGains, AccountKept DEF SeatsAccounted
    <2>3. AccountOf(r)'
      <3>1. AccountOf(r) /\ seat \in Map!SeatMaps
        BY <2>1 DEF SeatsAccounted, TypeOK
      <3>2. UNCHANGED seat => Map!AssignedTo(seat', r) = Map!AssignedTo(seat, r)
        BY DEF Map!AssignedTo
      <3> USE DEF AccountOf, Seatless, Begun
      <3>3. CASE \E f \in Forms : Submit(r, f)
        <4>1. /\ at[r] = "start" /\ at'[r] \in {"claim", "quote"}
              /\ UNCHANGED <<row, seat>>
          BY <3>3 DEF Submit, Goto, TypeOK
        <4>2. Map!AssignedTo(seat, r) = {}
          BY <4>1 DEF SeatsAsWished
        <4>3. row[r] = "none"
          BY <4>1 DEF Progress
        <4> QED
          BY <3>2, <4>1, <4>2, <4>3
      <3>4. CASE ClaimInvite(r) \/ Quote(r)
        <4>1. /\ at[r] \in {"claim", "quote"} /\ at'[r] \in {"quote", "create", "failed"}
              /\ UNCHANGED <<row, seat, form>>
          BY <3>4 DEF ClaimInvite, Quote, Step, Goto, TypeOK
        <4>2. row[r] = "none"
          BY <4>1 DEF Progress
        <4> QED
          BY <3>1, <3>2, <4>1, <4>2 DEF SettledHere
      <3>5. CASE CreateOrder(r) \/ CreateOrderFails(r)
        <4>1. /\ at[r] = "create" /\ UNCHANGED <<row, seat, form>>
              /\ at'[r] \in {"sweep", "pay", "insert", "uninvite"}
              /\ at'[r] = "pay" => SettledHere(r)
          BY <3>5 DEF CreateOrder, CreateOrderFails, AfterSeats, Goto, TypeOK
        <4> QED
          BY <3>1, <3>2, <4>1 DEF SettledHere, Progress
      <3>6. CASE SweepHolds(r) \/ HoldSeats(r) \/ RollBackHold(r) \/ ConfirmSeats(r)
        <4>1. /\ at[r] \in {"sweep", "hold", "rollback", "confirm"} /\ UNCHANGED <<row, form>>
              /\ at'[r] \in {"hold", "rollback", "confirm", "pay", "insert", "unseat"}
              /\ at'[r] = "pay" => SettledHere(r)
          BY <3>6 DEF SweepHolds, HoldSeats, RollBackHold, ConfirmSeats, AfterSeats, Step,
             Goto, TypeOK
        <4>2. row[r] = "none"
          BY <4>1 DEF Progress
        <4> QED
          BY <4>1, <4>2 DEF SettledHere
      <3>7. CASE MarkPaid(r)
        <4>1. /\ at[r] = "pay" /\ UNCHANGED <<row, form>> /\ at'[r] \in {"unpay", "insert"}
          BY <3>7 DEF MarkPaid, Goto, TypeOK
        <4>2. row[r] = "none"
          BY <4>1 DEF Progress
        <4> QED
          BY <3>1, <4>1, <4>2 DEF SettledHere
      <3>8. CASE InsertRow(r)
        <4>1. at'[r] \in {"done", "finalize"} /\ row'[r] \in {"paid", "pending"}
          BY <3>8 DEF InsertRow, Step, Goto, TypeOK
        <4> QED
          BY <4>1
      <3>9. CASE FinalizeInvite(r)
        <4>1. /\ at[r] = "finalize" /\ at'[r] = "done" /\ UNCHANGED <<form, row, seat>>
          BY <3>9 DEF FinalizeInvite, Step, Goto, TypeOK
        <4>2. row[r] # "none"
          BY <3>1, <4>1 DEF SeatsAccounted
        <4> QED
          BY <3>1, <3>2, <4>1, <4>2 DEF SettledHere
      <3>10. CASE ReleaseSeats(r)
        <4>1. /\ at[r] = "unseat" /\ at'[r] = "unorder" /\ UNCHANGED <<form, row>>
              /\ seat' = Map!ReleaseSeats(seat, r)
          BY <3>10 DEF ReleaseSeats, Step, Goto, TypeOK
        <4>2. Map!AssignedTo(seat', r) = {}
          BY <3>1, <4>1, ReleaseEffect
        <4> QED
          BY <4>1, <4>2
      <3>11. CASE CancelOrder(r)
        <4>1. /\ at[r] = "unorder" /\ at'[r] = "uninvite" /\ UNCHANGED <<form, row, seat>>
          BY <3>11 DEF CancelOrder, Step, Goto, TypeOK
        <4> QED
          BY <3>1, <3>2, <4>1 DEF SettledHere
      <3>12. CASE CancelUnpaid(r)
        <4>1. /\ at[r] = "unpay" /\ at'[r] \in {"uninvite", "failed"}
              /\ UNCHANGED <<form, row, seat>>
          BY <3>12 DEF CancelUnpaid, AfterUnpay, Goto, TypeOK
        <4>2. row[r] = "none"
          BY <4>1 DEF Progress
        <4> QED
          BY <3>1, <4>1, <4>2 DEF SettledHere
      <3>13. CASE ReleaseInvite(r)
        <4>1. /\ at[r] = "uninvite" /\ at'[r] = "failed" /\ UNCHANGED <<form, row, seat>>
          BY <3>13 DEF ReleaseInvite, Step, Goto, TypeOK
        <4>2. row[r] = "none"
          BY <4>1 DEF Progress
        <4> QED
          BY <3>1, <3>2, <4>1, <4>2 DEF SettledHere
      <3>14. CASE CancelLater(r)
        <4>1. /\ UNCHANGED <<at, form>> /\ row[r] # "none"
              /\ seat' = Map!ReleaseSeats(seat, r) /\ row'[r] = "canceled"
          BY <3>14 DEF CancelLater, TypeOK
        <4>2. Map!AssignedTo(seat', r) = {}
          BY <3>1, <4>1, ReleaseEffect
        <4>3. at[r] \in {"finalize", "done"}
          BY <3>1, <4>1 DEF Progress
        <4> QED
          BY <4>1, <4>2, <4>3
      <3> QED
        BY <1>3, <2>1, <3>3, <3>4, <3>5, <3>6, <3>7, <3>8, <3>9, <3>10, <3>11, <3>12,
           <3>13, <3>14 DEF StepOf, Advance
    <2> QED
      BY <2>2, <2>3
  <1> QED
    BY <1>1, <1>2, <1>3 DEF Next, StepOf

\* Unless something crashed, seats are never left with a registration that
\* failed or was canceled, except by a mark-paid that failed on the spot.
THEOREM FailedGiveSeatsBack == Spec => []SeatsReturn
  <1>1. Init => SeatsAccounted
    BY NoneAssumption DEF Init, SeatsAccounted, AccountOf, Seatless, Map!AssignedTo,
       Map!Unassigned
  <1>2. RegistrationInv /\ SeatsAccounted => SeatsReturn
    BY DEF RegistrationInv, TypeOK, SeatsAccounted, AccountOf, Seatless, SeatsReturn,
       StrandedSeats, InFlight, LiveRow
  <1>3. RegistrationInv /\ SeatsAccounted /\ [Next]_vars => SeatsAccounted'
    BY AccountStep
  <1> QED
    BY RegistrationCorrect, <1>1, <1>2, <1>3, PTL DEF Spec

-----------------------------------------------------------------------------
(* The staff forms *)

USE StaffFormsAssumption, StoredBeforeAssumption

Fields == {"company", "jobTitle", "jobTitleOther", "roleTag", "roleOther"}
Untyped == EMPTY_WALK_IN_ATTENDEE.details

\* What no one chose is as it was when the form came up; what was sent is what
\* was shown, for somebody not yet registered.
FormOK ==
    /\ desk \in BOOLEAN /\ serving \in Guests
    /\ stage \in {"closed", "filling", "sent", "done", "stuck"}
    /\ fields \in WalkInAttendee /\ shown \in StaffRow \cup {NoRow}
    /\ chosen \subseteq {"name"} \cup Fields
    /\ \A f \in Fields \ chosen : fields.details[f] = Untyped[f]
    /\ stage = "sent" => /\ rows[serving] = NoRow /\ shown = OnScreen(fields.details)
                         /\ resolveDetails(fields.details) # NoRow

Fixes == [who : Guests, stage : {"open", "saving"}, read : StaffRow, details : Details,
          edited : SUBSET Fields]

\* An unedited field of the dialog is as it was read, and what is saved may be.
AsOpened(x) ==
    /\ "company" \notin x.edited => x.details.company = x.read.company
    /\ "jobTitle" \notin x.edited => /\ x.details.jobTitle = Reopened(x.read).selection
                                     /\ x.details.jobTitleOther = Reopened(x.read).text
    /\ "roleTag" \notin x.edited => /\ x.details.roleTag = x.read.tag
                                    /\ x.details.roleOther = x.read.label
    /\ x.stage = "saving" => Saveable(x.details)

FixOK == \/ fix = NoFix
         \/ fix \in Fixes /\ rows[fix.who] # NoRow /\ AsOpened(fix)

RowsOK == rows \in [Guests -> StaffRow \cup {NoRow}]

StaffStrong == RowsOK /\ FormOK /\ FixOK

LEMMA BlankIsNoTitle ==
    /\ Blank # JOB_TITLE_OTHER /\ Blank \notin Typed /\ Blank \notin Presets /\ Blank \notin TooLong
    /\ Blank \notin RoleTexts
  BY DEF Blank, JOB_TITLE_OTHER

LEMMA UntypedDetails ==
    /\ Untyped \in Details /\ EMPTY_WALK_IN_ATTENDEE \in WalkInAttendee
    /\ EMPTY_WALK_IN_ATTENDEE.details = Untyped /\ DOMAIN Untyped = Fields
    /\ Untyped.company = Blank /\ Untyped.jobTitle = Blank /\ Untyped.jobTitleOther = Blank
    /\ Untyped.roleTag = Visitor /\ Untyped.roleOther = Blank
  BY DEF Untyped, EMPTY_WALK_IN_ATTENDEE, Details, WalkInAttendee, Fields

LEMMA DetailsFields ==
    ASSUME NEW d \in Details
    PROVE  /\ d.company \in Companies \cup {Blank}
           /\ d.jobTitle \in Presets \cup {Blank, JOB_TITLE_OTHER}
           /\ d.jobTitleOther \in Typed \cup {Blank}
           /\ d.roleTag \in FixedRoles \cup {ROLE_OTHER} /\ d.roleOther \in RoleTexts \cup {Blank}
           /\ DOMAIN d = Fields
  BY DEF Details, Fields

\* What a saved dialog stores, and what a submitted walk-in does: what was seen.
LEMMA CorrectedRow ==
    ASSUME NEW d \in Details, Saveable(d)
    PROVE  /\ Corrected(d) \in StaffRow
           /\ Corrected(d).company = d.company /\ Corrected(d).tag = d.roleTag
           /\ Corrected(d).title = (IF d.jobTitle = JOB_TITLE_OTHER THEN d.jobTitleOther ELSE d.jobTitle)
           /\ Corrected(d).title # JOB_TITLE_OTHER
           /\ Corrected(d).label = (IF d.roleTag = ROLE_OTHER THEN d.roleOther ELSE Blank)
           /\ Corrected(d).label # Blank <=> Corrected(d).tag = ROLE_OTHER
  <1>1. /\ resolveJobTitleSelection(d.jobTitle, d.jobTitleOther).value
              = (IF d.jobTitle = JOB_TITLE_OTHER THEN d.jobTitleOther ELSE d.jobTitle)
        /\ d.jobTitle = JOB_TITLE_OTHER => d.jobTitleOther \in Typed
    BY DetailsFields, BlankIsNoTitle DEF Saveable, resolveJobTitleSelection, Resolved, Unresolved
  <1>2. /\ resolveRoleLabel(d.roleTag, d.roleOther).value
              = (IF d.roleTag = ROLE_OTHER THEN d.roleOther ELSE Blank)
        /\ d.roleTag = ROLE_OTHER => d.roleOther # Blank
    BY DEF Saveable, resolveRoleLabel, Resolved, Unresolved
  <1>3. /\ Corrected(d).company = d.company /\ Corrected(d).tag = d.roleTag
        /\ Corrected(d).title = (IF d.jobTitle = JOB_TITLE_OTHER THEN d.jobTitleOther ELSE d.jobTitle)
        /\ Corrected(d).label = (IF d.roleTag = ROLE_OTHER THEN d.roleOther ELSE Blank)
    BY <1>1, <1>2 DEF Corrected
  <1>4. Corrected(d) \in StaffRow
    BY <1>1, <1>2, <1>3, DetailsFields DEF Corrected, StaffRow
  <1>. QED
    BY <1>1, <1>2, <1>3, <1>4, DetailsFields, BlankIsNoTitle

LEMMA SentIsSeen ==
    ASSUME NEW d \in Details, resolveDetails(d) # NoRow
    PROVE  LET sent == resolveDetails(d) IN
           /\ sent = OnScreen(d) /\ sent \in StaffRow
           /\ sent.label # Blank <=> sent.tag = ROLE_OTHER
           /\ StoredRow(sent) = sent
  <1> DEFINE title == resolveVisibleJobTitle(d.company # Blank, d.jobTitle, d.jobTitleOther)
             role == resolveRoleLabel(d.roleTag, d.roleOther)
             sent == resolveDetails(d)
  <1>1. title.ok /\ role.ok
        /\ sent = [company |-> d.company, title |-> title.value,
                   tag |-> d.roleTag, label |-> role.value]
    BY DEF resolveDetails
  <1>2. /\ title.value = (IF d.company = Blank THEN Blank
                          ELSE IF d.jobTitle = JOB_TITLE_OTHER THEN d.jobTitleOther ELSE d.jobTitle)
        /\ title.value \in Typed \cup Presets \cup {Blank}
    BY <1>1, DetailsFields, BlankIsNoTitle
    DEF resolveVisibleJobTitle, resolveJobTitleSelection, Resolved, Unresolved
  <1>3. /\ role.value = (IF d.roleTag = ROLE_OTHER THEN d.roleOther ELSE Blank)
        /\ d.roleTag = ROLE_OTHER => d.roleOther # Blank
    BY <1>1 DEF resolveRoleLabel, Resolved, Unresolved
  <1> HIDE DEF title, role
  <1>4. /\ sent.company = d.company /\ sent.title = title.value
        /\ sent.tag = d.roleTag /\ sent.label = role.value
    BY <1>1
  <1>5. sent = OnScreen(d)
    BY <1>1, <1>2, <1>3 DEF OnScreen
  <1>6. sent \in StaffRow
    BY <1>1, <1>2, <1>3, DetailsFields DEF StaffRow
  <1>7. sent.label # Blank <=> sent.tag = ROLE_OTHER
    BY <1>3, <1>4
  <1> HIDE DEF sent
  <1>8. StoredRow(sent) = [company |-> sent.company, title |-> sent.title,
                           tag |-> sent.tag, label |-> sent.label]
    BY <1>2, <1>3, <1>4 DEF StoredRow, resolveRoleLabel, Resolved, Unresolved
  <1>9. StoredRow(sent) = sent
    BY <1>1, <1>4, <1>8
  <1>. QED
    BY <1>5, <1>6, <1>7, <1>9 DEF sent

\* One field of the form is filled in, and said to be.
LEMMA FilledIn ==
    ASSUME FormOK, stage = "filling", NEW x \in WalkInAttendee, fields' = x,
           chosen' \subseteq {"name"} \cup Fields,
           UNCHANGED <<rows, desk, stage, serving, shown>>,
           \A f \in Fields \ chosen' : x.details[f] = Untyped[f]
    PROVE  FormOK'
  BY DEF FormOK

LEMMA FillStep ==
    ASSUME FormOK, FillIn
    PROVE  FormOK'
  <1> DEFINE d == fields.details
  <1>1. /\ fields \in WalkInAttendee /\ d \in Details /\ fields.name \in {"none", "first", "both"}
        /\ chosen \subseteq {"name"} \cup Fields
        /\ \A f \in Fields \ chosen : d[f] = Untyped[f]
    BY DEF FormOK, WalkInAttendee
  <1>2. ASSUME NEW name \in {"none", "first", "both"}, NEW e \in Details,
               NEW g \in {"name"} \cup Fields, Fill(name, e, g),
               \A f \in Fields \ {g} : e[f] = d[f] \/ e[f] = Untyped[f]
        PROVE  FormOK'
    <2> DEFINE x == [name |-> name, details |-> e]
    <2>1. x \in WalkInAttendee /\ x.details = e /\ fields' = x
      BY <1>2 DEF Fill, WalkInAttendee
    <2>2. /\ stage = "filling" /\ chosen' = chosen \cup {g}
          /\ UNCHANGED <<rows, desk, stage, serving, shown>>
      BY <1>2 DEF Fill
    <2>3. \A f \in Fields \ chosen' : e[f] = Untyped[f]
      BY <1>1, <1>2, <2>2
    <2> HIDE DEF x
    <2>. QED
      BY <1>1, <2>1, <2>2, <2>3, FilledIn
  <1>3. CASE TypeName
    BY <1>1, <1>2, <1>3 DEF TypeName
  <1>4. ASSUME NEW c \in Companies \cup {Blank}, TypeCompany(c)
        PROVE  FormOK'
    <2> DEFINE e == jobTitleForCompanyChange(c, d)
               x == [fields EXCEPT !.details = e]
    <2>1. /\ e \in Details /\ e.company = c
          /\ \A f \in {"roleTag", "roleOther"} : e[f] = d[f]
          /\ c = Blank => e.jobTitle = Blank /\ e.jobTitleOther = Blank
          /\ c # Blank => e.jobTitle = d.jobTitle /\ e.jobTitleOther = d.jobTitleOther
      BY <1>1 DEF jobTitleForCompanyChange, Details
    <2> HIDE DEF e
    <2>2. x \in WalkInAttendee /\ x.details = e
      BY <1>1, <2>1 DEF WalkInAttendee
    <2>3. /\ stage = "filling" /\ c # d.company /\ fields' = x
          /\ chosen' = IF c = Blank THEN chosen \ {"jobTitle", "jobTitleOther"}
                       ELSE chosen \cup {"company"}
          /\ UNCHANGED <<rows, desk, stage, serving, shown>>
      BY <1>4 DEF TypeCompany, e
    <2>4. ASSUME NEW f \in Fields \ chosen' PROVE e[f] = Untyped[f]
      <3>1. f \in {"company", "jobTitle", "jobTitleOther", "roleTag", "roleOther"}
        BY DEF Fields
      <3>2. CASE c = Blank
        BY <1>1, <2>1, <2>3, <3>1, <3>2, UntypedDetails DEF Fields
      <3>3. CASE c # Blank
        BY <1>1, <2>1, <2>3, <3>1, <3>3, UntypedDetails DEF Fields
      <3>. QED
        BY <3>2, <3>3
    <2>5. chosen' \subseteq {"name"} \cup Fields
      BY <1>1, <2>3 DEF Fields
    <2> HIDE DEF x
    <2>. QED
      BY <2>2, <2>3, <2>4, <2>5, FilledIn
  <1>5. ASSUME NEW t \in Presets \cup {Blank, JOB_TITLE_OTHER}, PickTitle(t)
        PROVE  FormOK'
    <2> DEFINE e == SelectTitle(t, d)
    <2>1. /\ e \in Details /\ \A f \in {"company", "roleTag", "roleOther"} : e[f] = d[f]
          /\ e.jobTitleOther \in {Blank, d.jobTitleOther}
      BY <1>1 DEF SelectTitle, Details
    <2>2. Fill(fields.name, e, "jobTitle")
      BY <1>5 DEF PickTitle
    <2> HIDE DEF e
    <2>3. ASSUME NEW f \in Fields \ {"jobTitle"} PROVE e[f] = d[f] \/ e[f] = Untyped[f]
      BY <2>1, UntypedDetails DEF Fields
    <2>4. "jobTitle" \in {"name"} \cup Fields
      BY DEF Fields
    <2>. QED
      BY <1>1, <1>2, <2>1, <2>2, <2>3, <2>4
  <1>6. ASSUME NEW t \in Typed \cup {Blank}, TypeTitle(t)
        PROVE  FormOK'
    <2> DEFINE e == [d EXCEPT !.jobTitleOther = t]
    <2>1. e \in Details /\ \A f \in Fields \ {"jobTitleOther"} : e[f] = d[f]
      BY <1>1 DEF Details, Fields
    <2>2. Fill(fields.name, e, "jobTitleOther") /\ "jobTitleOther" \in {"name"} \cup Fields
      BY <1>6 DEF TypeTitle, Fields
    <2> HIDE DEF e
    <2>. QED
      BY <1>1, <1>2, <2>1, <2>2
  <1>7. ASSUME NEW t \in FixedRoles \cup {ROLE_OTHER}, PickRole(t)
        PROVE  FormOK'
    <2> DEFINE e == [d EXCEPT !.roleTag = t]
    <2>1. e \in Details /\ \A f \in Fields \ {"roleTag"} : e[f] = d[f]
      BY <1>1 DEF Details, Fields
    <2>2. Fill(fields.name, e, "roleTag") /\ "roleTag" \in {"name"} \cup Fields
      BY <1>7 DEF PickRole, Fields
    <2> HIDE DEF e
    <2>. QED
      BY <1>1, <1>2, <2>1, <2>2
  <1>8. ASSUME NEW t \in RoleTexts \cup {Blank}, TypeRole(t)
        PROVE  FormOK'
    <2> DEFINE e == [d EXCEPT !.roleOther = t]
    <2>1. e \in Details /\ \A f \in Fields \ {"roleOther"} : e[f] = d[f]
      BY <1>1 DEF Details, Fields
    <2>2. Fill(fields.name, e, "roleOther") /\ "roleOther" \in {"name"} \cup Fields
      BY <1>8 DEF TypeRole, Fields
    <2> HIDE DEF e
    <2>. QED
      BY <1>1, <1>2, <2>1, <2>2
  <1>. QED
    BY <1>3, <1>4, <1>5, <1>6, <1>7, <1>8 DEF FillIn

LEMMA WalkInStep ==
    ASSUME RowsOK, FormOK, WalkIn
    PROVE  FormOK' /\ RowsOK' /\ (\A g \in Guests : rows[g] # NoRow => rows'[g] # NoRow)
  <1> USE DEF FormOK, RowsOK
  <1>1. ASSUME NEW g \in Guests, RegisterAnother(g)
        PROVE  FormOK' /\ UNCHANGED rows
    BY <1>1 DEF RegisterAnother
  <1>2. ASSUME NEW g \in Guests, NEW n \in {"none", "first", "both"}, OpenDoorForm(g, n)
        PROVE  FormOK' /\ UNCHANGED rows
    <2> DEFINE x == [EMPTY_WALK_IN_ATTENDEE EXCEPT !.name = n]
    <2>1. x \in WalkInAttendee /\ x.details = Untyped
      BY UntypedDetails DEF WalkInAttendee
    <2>2. /\ fields' = x /\ stage' = "filling" /\ serving' = g /\ UNCHANGED <<rows, desk, shown>>
          /\ chosen' \subseteq {"name"} \cup Fields
      BY <1>2 DEF OpenDoorForm
    <2> HIDE DEF x
    <2>. QED
      BY <2>1, <2>2
  <1>3. CASE CancelDoorForm
    BY <1>3, UntypedDetails DEF CancelDoorForm
  <1>4. CASE SendWalkIn
    <2>1. /\ rows[serving] = NoRow /\ resolveDetails(fields.details) # NoRow
          /\ stage' = "sent" /\ shown' = OnScreen(fields.details)
          /\ UNCHANGED <<rows, desk, serving, fields, chosen>>
      BY <1>4 DEF SendWalkIn
    <2>2. fields.details \in Details
      BY DEF WalkInAttendee
    <2>3. OnScreen(fields.details) \in StaffRow
      BY <2>1, <2>2, SentIsSeen
    <2>. QED
      BY <2>1, <2>3
  <1>5. CASE Registered
    <2> DEFINE r == StoredRow(resolveDetails(fields.details))
    <2>1. /\ stage = "sent" /\ rows' = [rows EXCEPT ![serving] = r]
          /\ stage' \in {"done", "closed"}
          /\ fields' = EMPTY_WALK_IN_ATTENDEE /\ shown' = NoRow /\ chosen' = {}
          /\ UNCHANGED <<desk, serving>>
      BY <1>5 DEF Registered
    <2>2. r \in StaffRow
      BY <2>1, SentIsSeen DEF WalkInAttendee
    <2> HIDE DEF r
    <2>. QED
      BY <2>1, <2>2, UntypedDetails
  <1>6. CASE NotRegistered \/ CallRejected
    BY <1>6 DEF NotRegistered, CallRejected
  <1>. QED
    BY <1>1, <1>2, <1>3, <1>4, <1>5, <1>6 DEF WalkIn

LEMMA FixingStep ==
    ASSUME RowsOK, FixOK, Fixing
    PROVE  FixOK' /\ RowsOK' /\ (\A g \in Guests : rows[g] # NoRow => rows'[g] # NoRow)
  <1>0. rows' = rows => RowsOK' /\ (\A g \in Guests : rows[g] # NoRow => rows'[g] # NoRow)
    BY DEF RowsOK
  <1>1. NoFix.stage = "closed"
    BY DEF NoFix
  <1>2. fix.stage # "closed" => fix \in Fixes /\ rows[fix.who] # NoRow /\ AsOpened(fix)
    BY <1>1 DEF FixOK
  <1>3. ASSUME NEW g \in Guests, OpenFix(g)
        PROVE  FixOK' /\ UNCHANGED rows
    <2> DEFINE r == rows[g]
               x == [who |-> g, stage |-> "open", read |-> r, edited |-> {},
                     details |-> [company |-> r.company,
                                  jobTitle |-> Reopened(r).selection,
                                  jobTitleOther |-> Reopened(r).text,
                                  roleTag |-> r.tag, roleOther |-> r.label]]
    <2>1. fix' = x /\ UNCHANGED rows /\ r # NoRow /\ r \in StaffRow
      BY <1>3 DEF OpenFix, RowsOK
    <2>2. /\ Reopened(r).selection \in Presets \cup {Blank, JOB_TITLE_OTHER}
          /\ Reopened(r).text \in Typed \cup {Blank}
      BY <2>1 DEF Reopened, StaffRow, Legacy
    <2>3. x.details \in Details
      BY <2>1, <2>2 DEF StaffRow, Details
    <2>4. x \in Fixes
      BY <2>1, <2>3 DEF Fixes
    <2>5. AsOpened(x)
      BY DEF AsOpened
    <2>. QED
      BY <2>1, <2>4, <2>5 DEF FixOK
  <1>4. ASSUME NEW e \in Details, NEW f \in Fields, EditFix(e, f),
               f # "company" => e.company = fix.details.company,
               f # "jobTitle" => /\ e.jobTitle = fix.details.jobTitle
                                 /\ e.jobTitleOther = fix.details.jobTitleOther,
               f # "roleTag" => /\ e.roleTag = fix.details.roleTag
                                /\ e.roleOther = fix.details.roleOther
        PROVE  FixOK' /\ UNCHANGED rows
    <2> DEFINE x == [fix EXCEPT !.details = e, !.edited = @ \cup {f}]
    <2>1. /\ fix' = x /\ UNCHANGED rows /\ fix \in Fixes /\ rows[fix.who] # NoRow
          /\ AsOpened(fix) /\ fix.stage = "open"
      BY <1>2, <1>4 DEF EditFix
    <2>2. /\ x \in Fixes /\ x.details = e /\ x.edited = fix.edited \cup {f} /\ x.read = fix.read
          /\ x.who = fix.who /\ x.stage = "open"
      BY <2>1 DEF Fixes
    <2> HIDE DEF x
    <2>3. AsOpened(x)
      BY <1>4, <2>1, <2>2 DEF AsOpened
    <2>. QED
      BY <2>1, <2>2, <2>3 DEF FixOK
  <1>5. fix.stage = "open" => fix.details \in Details
    BY <1>2 DEF Fixes
  <1>6. {"company", "jobTitle", "roleTag"} \subseteq Fields
    BY DEF Fields
  <1>7. ASSUME NEW c \in Companies \cup {Blank}, FixCompany(c)
        PROVE  FixOK' /\ UNCHANGED rows
    <2> DEFINE e == [fix.details EXCEPT !.company = c]
    <2>1. EditFix(e, "company") /\ fix.details \in Details
      BY <1>5, <1>7 DEF FixCompany, EditFix
    <2>2. /\ e \in Details /\ e.jobTitle = fix.details.jobTitle
          /\ e.jobTitleOther = fix.details.jobTitleOther
          /\ e.roleTag = fix.details.roleTag /\ e.roleOther = fix.details.roleOther
      BY <2>1 DEF Details
    <2> HIDE DEF e
    <2>. QED
      BY <1>4, <1>6, <2>1, <2>2
  <1>8. ASSUME NEW t \in Presets \cup {Blank, JOB_TITLE_OTHER}, FixTitle(t)
        PROVE  FixOK' /\ UNCHANGED rows
    <2> DEFINE e == SelectTitle(t, fix.details)
    <2>1. EditFix(e, "jobTitle") /\ fix.details \in Details
      BY <1>5, <1>8 DEF FixTitle, EditFix
    <2>2. /\ e \in Details /\ e.company = fix.details.company
          /\ e.roleTag = fix.details.roleTag /\ e.roleOther = fix.details.roleOther
      BY <2>1 DEF Details, SelectTitle
    <2> HIDE DEF e
    <2>. QED
      BY <1>4, <1>6, <2>1, <2>2
  <1>9. ASSUME NEW t \in Typed \cup {Blank}, FixTitleText(t)
        PROVE  FixOK' /\ UNCHANGED rows
    <2> DEFINE e == [fix.details EXCEPT !.jobTitleOther = t]
    <2>1. EditFix(e, "jobTitle") /\ fix.details \in Details
      BY <1>5, <1>9 DEF FixTitleText, EditFix
    <2>2. /\ e \in Details /\ e.company = fix.details.company
          /\ e.roleTag = fix.details.roleTag /\ e.roleOther = fix.details.roleOther
      BY <2>1 DEF Details
    <2> HIDE DEF e
    <2>. QED
      BY <1>4, <1>6, <2>1, <2>2
  <1>10. ASSUME NEW t \in FixedRoles \cup {ROLE_OTHER}, FixRole(t)
         PROVE  FixOK' /\ UNCHANGED rows
    <2> DEFINE e == [fix.details EXCEPT !.roleTag = t]
    <2>1. EditFix(e, "roleTag") /\ fix.details \in Details
      BY <1>5, <1>10 DEF FixRole, EditFix
    <2>2. /\ e \in Details /\ e.company = fix.details.company
          /\ e.jobTitle = fix.details.jobTitle /\ e.jobTitleOther = fix.details.jobTitleOther
      BY <2>1 DEF Details
    <2> HIDE DEF e
    <2>. QED
      BY <1>4, <1>6, <2>1, <2>2
  <1>11. ASSUME NEW t \in RoleTexts \cup {Blank}, FixRoleText(t)
         PROVE  FixOK' /\ UNCHANGED rows
    <2> DEFINE e == [fix.details EXCEPT !.roleOther = t]
    <2>1. EditFix(e, "roleTag") /\ fix.details \in Details
      BY <1>5, <1>11 DEF FixRoleText, EditFix
    <2>2. /\ e \in Details /\ e.company = fix.details.company
          /\ e.jobTitle = fix.details.jobTitle /\ e.jobTitleOther = fix.details.jobTitleOther
      BY <2>1 DEF Details
    <2> HIDE DEF e
    <2>. QED
      BY <1>4, <1>6, <2>1, <2>2
  <1>12. CASE SaveFix \/ FixNotSaved
    <2>1. PICK to \in {"open", "saving"} :
              /\ fix' = [fix EXCEPT !.stage = to] /\ UNCHANGED rows /\ fix.stage # "closed"
              /\ to = "saving" => Saveable(fix.details)
      BY <1>12 DEF SaveFix, FixNotSaved
    <2>2. fix \in Fixes /\ rows[fix.who] # NoRow /\ AsOpened(fix)
      BY <1>2, <2>1
    <2>3. /\ fix' \in Fixes /\ fix'.details = fix.details /\ fix'.edited = fix.edited
          /\ fix'.read = fix.read /\ fix'.who = fix.who /\ fix'.stage = to
      BY <2>1, <2>2 DEF Fixes
    <2>4. AsOpened(fix')
      BY <2>1, <2>2, <2>3 DEF AsOpened
    <2>5. FixOK'
      BY <2>1, <2>2, <2>3, <2>4 DEF FixOK
    <2>. QED
      BY <1>0, <2>1, <2>5
  <1>13. CASE FixSaved
    <2>1. /\ fix.stage = "saving" /\ fix' = NoFix
          /\ rows' = [rows EXCEPT ![fix.who] = Corrected(fix.details)]
      BY <1>13 DEF FixSaved
    <2>2. fix.who \in Guests /\ Corrected(fix.details) \in StaffRow
      <3>1. fix \in Fixes /\ AsOpened(fix)
        BY <1>2, <2>1
      <3>2. fix.who \in Guests /\ fix.details \in Details /\ Saveable(fix.details)
        BY <2>1, <3>1 DEF Fixes, AsOpened
      <3>. QED
        BY <3>2, CorrectedRow
    <2>3. RowsOK' /\ (\A g \in Guests : rows[g] # NoRow => rows'[g] # NoRow)
      BY <2>1, <2>2 DEF RowsOK
    <2>. QED
      BY <2>1, <2>3 DEF FixOK
  <1>14. CASE CloseFix
    <2>1. FixOK' /\ rows' = rows
      BY <1>14 DEF CloseFix, FixOK
    <2>. QED
      BY <1>0, <2>1
  <1>. QED
    BY <1>3, <1>7, <1>8, <1>9, <1>10, <1>11, <1>12, <1>13, <1>14, <1>0
    DEF Fixing, SaveFix, FixNotSaved, CloseFix

LEMMA StaffStep ==
    ASSUME StaffStrong, [StaffNext]_staffVars
    PROVE  StaffStrong'
  <1>1. CASE UNCHANGED staffVars
    BY <1>1 DEF staffVars, StaffStrong, RowsOK, FormOK, FixOK, AsOpened
  <1>2. ASSUME UNCHANGED fix, RowsOK', \A g \in Guests : rows[g] # NoRow => rows'[g] # NoRow
        PROVE  FixOK'
    <2>1. CASE fix = NoFix
      BY <1>2, <2>1 DEF FixOK
    <2>2. CASE fix \in Fixes /\ rows[fix.who] # NoRow /\ AsOpened(fix)
      <3>1. fix.who \in Guests
        BY <2>2 DEF Fixes
      <3>. QED
        BY <1>2, <2>2, <3>1 DEF FixOK
    <2>. QED
      BY <2>1, <2>2 DEF StaffStrong, FixOK
  <1>3. CASE FillIn
    <2>1. UNCHANGED <<rows, fix>>
      BY <1>3 DEF FillIn, TypeName, TypeCompany, PickTitle, TypeTitle, PickRole, TypeRole, Fill
    <2>. QED
      BY <1>2, <1>3, <2>1, FillStep DEF StaffStrong, RowsOK
  <1>4. CASE WalkIn
    <2>1. UNCHANGED fix
      BY <1>4 DEF WalkIn, RegisterAnother, OpenDoorForm, CancelDoorForm, SendWalkIn, Registered,
             NotRegistered, CallRejected
    <2>. QED
      BY <1>2, <1>4, <2>1, WalkInStep DEF StaffStrong
  <1>5. CASE Fixing
    <2>1. UNCHANGED <<desk, stage, serving, fields, shown, chosen>>
      BY <1>5 DEF Fixing, OpenFix, FixCompany, FixTitle, FixTitleText, FixRole, FixRoleText, EditFix,
             SaveFix, FixSaved, FixNotSaved, CloseFix
    <2>2. FixOK' /\ RowsOK'
      BY <1>5, FixingStep DEF StaffStrong
    <2>3. rows[serving] = NoRow => rows'[serving] = NoRow
      <3>1. CASE UNCHANGED rows
        BY <3>1
      <3>2. CASE FixSaved
        <4>1. fix \in Fixes /\ rows[fix.who] # NoRow
          BY <3>2 DEF FixSaved, StaffStrong, FixOK, NoFix
        <4>. QED
          BY <3>2, <4>1 DEF FixSaved, StaffStrong, RowsOK, FormOK
      <3>. QED
        BY <1>5, <3>1, <3>2
        DEF Fixing, OpenFix, FixCompany, FixTitle, FixTitleText, FixRole, FixRoleText, EditFix,
            SaveFix, FixNotSaved, CloseFix
    <2>4. FormOK'
      BY <2>1, <2>3 DEF StaffStrong, FormOK
    <2>. QED
      BY <2>2, <2>4 DEF StaffStrong
  <1>. QED
    BY <1>1, <1>3, <1>4, <1>5 DEF StaffNext

LEMMA StaffStart ==
    ASSUME StaffInit
    PROVE  StaffStrong
  <1>1. RowsOK /\ FixOK
    BY DEF StaffInit, RowsOK, FixOK
  <1>2. FormOK
    BY UntypedDetails DEF StaffInit, FormOK
  <1>. QED
    BY <1>1, <1>2 DEF StaffStrong

\* What was opened and left alone can be saved.
LEMMA OpenedIsSaveable ==
    ASSUME NEW r \in StaffRow
    PROVE  /\ resolveJobTitleSelection(Reopened(r).selection, Reopened(r).text).ok
           /\ (IF Reopened(r).selection = JOB_TITLE_OTHER THEN Reopened(r).text
               ELSE Reopened(r).selection) = IF Legacy(r.title) THEN Blank ELSE r.title
  <1>1. r.title \in Presets \cup Typed \cup TooLong \cup {Blank, JOB_TITLE_OTHER}
    BY DEF StaffRow
  <1>2. CASE r.title \in Presets \cup {Blank} \/ Legacy(r.title)
    BY <1>1, <1>2, BlankIsNoTitle
    DEF Reopened, Legacy, resolveJobTitleSelection, Resolved, Unresolved
  <1>3. CASE ~ (r.title \in Presets \cup {Blank} \/ Legacy(r.title))
    BY <1>1, <1>3, BlankIsNoTitle
    DEF Reopened, Legacy, resolveJobTitleSelection, Resolved, Unresolved
  <1>. QED
    BY <1>2, <1>3

LEMMA StaffIsSafe ==
    ASSUME StaffStrong
    PROVE  StaffFormsInv
  <1>1. DOMAIN EMPTY_WALK_IN_ATTENDEE.details = Fields
    BY UntypedDetails
  <1>2. StaffTypeOK
    BY <1>1 DEF StaffStrong, RowsOK, FormOK, FixOK, StaffTypeOK, Fixes
  <1>3. NothingCarriesOver
    <2>1. DOMAIN fields.details = Fields
      BY DetailsFields DEF StaffStrong, FormOK, WalkInAttendee
    <2>. QED
      BY <2>1, UntypedDetails DEF StaffStrong, FormOK, NothingCarriesOver
  <1>4. UntouchedFixSaves
    <2> SUFFICES ASSUME fix.stage = "open", fix.edited = {}
                 PROVE  Saveable(fix.details) \/ (fix.read.tag = ROLE_OTHER /\ fix.read.label = Blank)
      BY DEF UntouchedFixSaves
    <2>1. fix \in Fixes /\ AsOpened(fix)
      BY DEF StaffStrong, FixOK, NoFix
    <2>2. fix.read \in StaffRow
      BY <2>1 DEF Fixes
    <2>3. /\ fix.details.jobTitle = Reopened(fix.read).selection
          /\ fix.details.jobTitleOther = Reopened(fix.read).text
          /\ fix.details.roleTag = fix.read.tag /\ fix.details.roleOther = fix.read.label
      BY <2>1 DEF AsOpened
    <2>4. resolveJobTitleSelection(fix.details.jobTitle, fix.details.jobTitleOther).ok
      BY <2>2, <2>3, OpenedIsSaveable
    <2>5. CASE fix.read.tag = ROLE_OTHER /\ fix.read.label = Blank
      BY <2>5
    <2>6. CASE ~ (fix.read.tag = ROLE_OTHER /\ fix.read.label = Blank)
      <3>1. resolveRoleLabel(fix.details.roleTag, fix.details.roleOther).ok
        BY <2>3, <2>6 DEF resolveRoleLabel, Resolved
      <3>. QED
        BY <2>4, <3>1 DEF Saveable
    <2>. QED
      BY <2>5, <2>6
  <1>. QED
    BY <1>2, <1>3, <1>4 DEF StaffFormsInv

\* No walk-in takes over the last one's answers, and a Fix that changes nothing
\* is accepted whatever the row's age (attendee-fields.tsx, attendee-edit.tsx).
THEOREM FormsAreClean == StaffSpec => []StaffFormsInv
  <1>. QED
    BY StaffStart, StaffStep, StaffIsSafe, PTL DEF StaffSpec

\* A row changes when a walk-in is registered or a Fix is saved, to what was seen.
LEMMA StoredAsSeen ==
    ASSUME StaffStrong, [StaffNext]_staffVars, NEW g \in Guests, rows'[g] # rows[g]
    PROVE  /\ rows'[g].title # JOB_TITLE_OTHER
           /\ rows'[g].label # Blank <=> rows'[g].tag = ROLE_OTHER
           /\ IF rows[g] = NoRow THEN rows'[g] = shown
              ELSE fix.who = g /\ AsRead(rows'[g], fix.edited)
  <1>1. CASE Registered
    <2> DEFINE sent == resolveDetails(fields.details)
    <2>1. /\ rows[serving] = NoRow /\ shown = OnScreen(fields.details)
          /\ sent # NoRow /\ fields.details \in Details /\ serving \in Guests
      BY <1>1 DEF Registered, StaffStrong, FormOK, WalkInAttendee
    <2>2. /\ Registrable(sent)
          /\ rows' = [rows EXCEPT ![serving] = StoredRow(sent)]
      BY <1>1 DEF Registered
    <2>3. /\ sent = OnScreen(fields.details) /\ StoredRow(sent) = sent
          /\ sent.label # Blank <=> sent.tag = ROLE_OTHER
      BY <2>1, SentIsSeen
    <2> HIDE DEF sent
    <2>4. g = serving /\ rows'[g] = sent
      BY <2>1, <2>2, <2>3 DEF StaffStrong, RowsOK
    <2>5. sent.title # JOB_TITLE_OTHER
      BY <2>2 DEF Registrable
    <2>. QED
      BY <2>1, <2>3, <2>4, <2>5
  <1>2. CASE FixSaved
    <2>1. fix \in Fixes /\ rows[fix.who] # NoRow /\ AsOpened(fix) /\ fix.stage = "saving"
      BY <1>2 DEF FixSaved, StaffStrong, FixOK, NoFix
    <2>2. /\ fix.who \in Guests /\ fix.details \in Details /\ Saveable(fix.details)
          /\ fix.read \in StaffRow
      BY <2>1 DEF Fixes, AsOpened
    <2> DEFINE r == Corrected(fix.details)
    <2>3. g = fix.who /\ rows'[g] = r
      BY <1>2, <2>2 DEF FixSaved, StaffStrong, RowsOK
    <2>4. /\ r.company = fix.details.company /\ r.tag = fix.details.roleTag
          /\ r.title = (IF fix.details.jobTitle = JOB_TITLE_OTHER THEN fix.details.jobTitleOther
                          ELSE fix.details.jobTitle)
          /\ r.title # JOB_TITLE_OTHER
          /\ r.label = (IF fix.details.roleTag = ROLE_OTHER THEN fix.details.roleOther ELSE Blank)
          /\ r.label # Blank <=> r.tag = ROLE_OTHER
      BY <2>2, CorrectedRow
    <2> HIDE DEF r
    <2>5. AsRead(r, fix.edited)
      <3>1. "jobTitle" \notin fix.edited =>
                r.title = IF Legacy(fix.read.title) THEN Blank ELSE fix.read.title
        BY <2>1, <2>2, <2>4, OpenedIsSaveable DEF AsOpened
      <3>2. "company" \notin fix.edited => r.company = fix.read.company
        BY <2>1, <2>4 DEF AsOpened
      <3>3. "roleTag" \notin fix.edited =>
                r.tag = fix.read.tag
                /\ r.label = IF fix.read.tag = ROLE_OTHER THEN fix.read.label ELSE Blank
        BY <2>1, <2>4 DEF AsOpened
      <3>. QED
        BY <3>1, <3>2, <3>3 DEF AsRead
    <2>. QED
      BY <2>1, <2>3, <2>4, <2>5
  <1>3. CASE ~Registered /\ ~FixSaved
    BY <1>3
    DEF StaffNext, staffVars, FillIn, TypeName, TypeCompany, PickTitle, TypeTitle, PickRole, TypeRole,
        Fill, WalkIn, RegisterAnother, OpenDoorForm, CancelDoorForm, SendWalkIn, NotRegistered,
        CallRejected, Fixing, OpenFix, FixCompany, FixTitle, FixTitleText, FixRole, FixRoleText,
        EditFix, SaveFix, FixNotSaved, CloseFix
  <1>. QED
    BY <1>1, <1>2, <1>3

\* What is stored is what the operator saw: a new row the screen as submitted, a
\* Fix no field but those edited (register, updateAttendeeDetails).
THEOREM StaffSaysWhatItSaw == StaffSpec => SeenIsStored
  <1>1. StaffStrong /\ [StaffNext]_staffVars =>
            [\A g \in Guests : rows'[g] # rows[g] =>
                /\ rows'[g].title # JOB_TITLE_OTHER
                /\ rows'[g].label # Blank <=> rows'[g].tag = ROLE_OTHER
                /\ IF rows[g] = NoRow THEN rows'[g] = shown
                   ELSE fix.who = g /\ AsRead(rows'[g], fix.edited)]_staffVars
    BY StoredAsSeen
  <1>. QED
    BY <1>1, StaffStart, StaffStep, PTL DEF StaffSpec, SeenIsStored
=============================================================================
