------------------------------ MODULE SeatMap ------------------------------
(***************************************************************************)
(* The seat assignments of one event as lib/seats/service.ts updates them: *)
(* every operator is one SQL UPDATE, from a seat map to a seat map.  Ten   *)
(* minutes after it was taken a hold has lapsed; it stays in the table     *)
(* until some reader sweeps it.                                            *)
(***************************************************************************)
CONSTANTS Seats, Orders, NoOrder

SeatState == {"available", "accessible", "blocked", "temporarily_held",
              "sold_or_reserved"}

Seat == [state : SeatState, ref : Orders \cup {NoOrder}, lapsed : BOOLEAN]

SeatMaps == [Seats -> Seat]

Unassigned(state) == [state |-> state, ref |-> NoOrder, lapsed |-> FALSE]

\* UPDATE seat_assignments SET ... WHERE s in which
Update(seat, which, to) ==
    [s \in Seats |-> IF s \in which THEN to ELSE seat[s]]

\* isHoldExpired
HoldExpired(seat, s) == seat[s].state = "temporarily_held" /\ seat[s].lapsed

HeldBy(seat, o) ==
    {s \in Seats : seat[s].state = "temporarily_held" /\ seat[s].ref = o}

AssignedTo(seat, o) == {s \in Seats : seat[s].ref = o}

SoldTo(seat, o) ==
    {s \in AssignedTo(seat, o) : seat[s].state = "sold_or_reserved"}

\* Ten minutes after holdSeats: all the seats of one hold lapse together.
Lapse(seat, o) ==
    [s \in Seats |-> IF s \in HeldBy(seat, o)
                     THEN [seat[s] EXCEPT !.lapsed = TRUE] ELSE seat[s]]

\* Fault: nobody sweeps.
SweepNothing(seat) == seat

ReleaseExpiredHolds(seat) ==
    Update(seat, {s \in Seats : HoldExpired(seat, s)}, Unassigned("available"))

\* holdSeats: whatever part of the wish is free, the caller compares the count.
Holdable(seat, wish) ==
    {s \in wish : seat[s].state \in {"available", "accessible"}}

HoldSeats(seat, wish, o) ==
    Update(seat, Holdable(seat, wish),
           [state |-> "temporarily_held", ref |-> o, lapsed |-> FALSE])

RollBackHold(seat, o) == Update(seat, HeldBy(seat, o), Unassigned("available"))

\* Fault: any hold will do.
AnybodysHold(seat, wish, o) ==
    {s \in wish : seat[s].state = "temporarily_held"}

\* confirmSeats: holder-scoped; a lapsed hold nobody swept still counts.
Confirmable(seat, wish, o) == wish \cap HeldBy(seat, o)

ConfirmSeats(seat, wish, o) ==
    [s \in Seats |-> IF s \in Confirmable(seat, wish, o)
                     THEN [seat[s] EXCEPT !.state = "sold_or_reserved",
                                          !.lapsed = FALSE]
                     ELSE seat[s]]

\* Fault: a sold seat stays sold.
ReleaseHeldOnly(seat, o) ==
    Update(seat, HeldBy(seat, o), Unassigned("available"))

ReleaseSeats(seat, o) ==
    Update(seat, AssignedTo(seat, o), Unassigned("available"))

\* canSelect: what the seat picker offers.
CanSelect(seat, s) ==
    seat[s].state \in {"available", "accessible"} \/ HoldExpired(seat, s)
=============================================================================
