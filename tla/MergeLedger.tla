----------------------------- MODULE MergeLedger -----------------------------
(***************************************************************************)
(* lib/merge: which account a registration belongs to, and the ledger of   *)
(* how it came there.  Claims from a ticket link, the sweep after an       *)
(* address is verified, the link a new registration gets and the screens   *)
(* of the operators all end in linkOrdersToUser or reverseMergeEvent: one  *)
(* PostgreSQL transaction each, at READ COMMITTED, that takes its row      *)
(* locks one by one.  What a transaction wrote is seen when it commits.    *)
(*                                                                         *)
(* Orders are numbered in the order of their ids.                          *)
(***************************************************************************)
EXTENDS Naturals, Sequences, FiniteSets

CONSTANTS
    Orders,        \* ids of rows of attendee_orders
    Accounts,      \* accounts of attendees
    Suspended,     \* the accounts with status suspended
    Promotable,    \* the accounts that may become members of an organization
    Nobody,        \* null, as an owner, as an address, as a holder of a lock
    Addresses,     \* the ways the addresses on the orders are spread
    Legacy,        \* the owners orders may have without an event
    Requests,      \* requests served at the same time
    GrantsRace,    \* whether a membership may be granted beside a request
    MaxEvents      \* bound on the length of the ledger

ASSUME OrdersAssumption == Orders \subseteq Nat
ASSUME AccountsAssumption ==
    Suspended \subseteq Accounts /\ Promotable \subseteq Accounts /\ Nobody \notin Accounts
ASSUME AddressesAssumption == Addresses \subseteq [Orders -> Accounts \cup {Nobody}]
ASSUME LegacyAssumption == Legacy \subseteq [Orders -> Accounts \cup {Nobody}]
ASSUME RequestsAssumption == Nobody \notin Requests
ASSUME BoundsAssumption == GrantsRace \in BOOLEAN /\ MaxEvents \in Nat

Owner == Accounts \cup {Nobody}

VARIABLES
    mail,       \* the account whose address is on the order; Nobody: no address
    owner,      \* attendee_orders.userId
    fresh,      \* orders whose register() has yet to apply its forward link
    verified,   \* accounts with a verified address
    staff,      \* accounts with an organization membership
    ledger,     \* account_merge_events with their entities, oldest first
    expired,    \* how many of them are past their reversal deadline
    lock,       \* holder of the lock of each row
    at,         \* what every request does next
    job,        \* what it was asked for
    todo,       \* the rows it has yet to lock or to update
    seen        \* the owners it read under the lock

vars == <<mail, owner, fresh, verified, staff, ledger, expired, lock, at, job, todo, seen>>
world == <<mail, fresh, verified, staff, expired>>

-----------------------------------------------------------------------------
Actors == {"self_claim", "staff_override", "system"}

Event == [user : Accounts, actor : Actors, orders : SUBSET Orders,
          from : [Orders -> Owner], reversed : BOOLEAN]

\* kind is the actor of a link, or an operator's "reverse" or "detach".
Job == [kind : Actors \cup {"reverse", "detach", "none"}, user : Owner,
        orders : SUBSET Orders, event : Nat]

NoJob == [kind |-> "none", user |-> Nobody, orders |-> {}, event |-> 0]
Unread == [o \in Orders |-> Nobody]

TypeOK ==
    /\ mail \in [Orders -> Owner]
    /\ owner \in [Orders -> Owner]
    /\ fresh \subseteq Orders
    /\ verified \subseteq Accounts
    /\ staff \subseteq Accounts
    /\ ledger \in Seq(Event)
    /\ expired \in 0..Len(ledger)
    /\ lock \in [Orders -> Requests \cup {Nobody}]
    /\ at \in [Requests -> {"idle", "target", "lock", "event", "update"}]
    /\ job \in [Requests -> Job]
    /\ todo \in [Requests -> SUBSET Orders]
    /\ seen \in [Requests -> [Orders -> Owner]]

\* Orders linked before the ledger, or registered by a signed-in account, have an
\* owner and no event.
Init ==
    /\ mail \in Addresses
    /\ owner \in Legacy
    /\ fresh \in SUBSET {o \in Orders : owner[o] = Nobody}
    /\ verified = {} /\ staff = {}
    /\ ledger = <<>> /\ expired = 0
    /\ lock = [o \in Orders |-> Nobody]
    /\ at = [r \in Requests |-> "idle"]
    /\ job = [r \in Requests |-> NoJob]
    /\ todo = [r \in Requests |-> {}]
    /\ seen = [r \in Requests |-> Unread]

-----------------------------------------------------------------------------
Idle(r) == at[r] = "idle"

\* The event a request may still write counts against the bound.
Room == Len(ledger) + Cardinality({r \in Requests : at[r] \in {"target", "lock"}})
            < MaxEvents

Begin(r, step, j) ==
    /\ Idle(r)
    /\ at' = [at EXCEPT ![r] = step]
    /\ job' = [job EXCEPT ![r] = j]
    /\ todo' = [todo EXCEPT ![r] = j.orders]
    /\ UNCHANGED <<owner, ledger, lock, seen>>

\* Commit, refusal or rollback: the locks go, the next request may come.
Finish(r) ==
    /\ at' = [at EXCEPT ![r] = "idle"]
    /\ job' = [job EXCEPT ![r] = NoJob]
    /\ todo' = [todo EXCEPT ![r] = {}]
    /\ seen' = [seen EXCEPT ![r] = Unread]
    /\ lock' = [o \in Orders |-> IF lock[o] = r THEN Nobody ELSE lock[o]]
    /\ UNCHANGED world

Refuse(r) == Finish(r) /\ UNCHANGED <<owner, ledger>>

LinkJob(actor, u, os) == [kind |-> actor, user |-> u, orders |-> os, event |-> 0]

-----------------------------------------------------------------------------
(* What asks for a link *)

\* orderLinkHistory has an event that an operator reversed.
OperatorDetached(o) == \E i \in DOMAIN ledger : o \in ledger[i].orders /\ ledger[i].reversed

\* claimOrderFromToken: whoever holds the ticket link claims the order.  Its
\* reads of the order and of its history count as one.
ClaimOrderFromToken(r, u, o) ==
    /\ Room
    /\ owner[o] = Nobody
    /\ ~OperatorDetached(o)
    /\ Begin(r, "target", LinkJob("self_claim", u, {o}))
    /\ UNCHANGED world

\* claimOrdersForVerifiedEmail, after a correct code; an address can have
\* several live codes, one per flow.
Unclaimed(u) == {o \in Orders : mail[o] = u /\ owner[o] = Nobody}

ClaimOrdersForVerifiedEmail(r, u) ==
    /\ Room
    /\ verified' = verified \cup {u}
    /\ IF Unclaimed(u) = {}
       THEN Idle(r) /\ UNCHANGED <<owner, ledger, lock, at, job, todo, seen>>
       ELSE Begin(r, "target", LinkJob("self_claim", u, Unclaimed(u)))
    /\ UNCHANGED <<mail, fresh, staff, expired>>

\* resolveForwardLink and applyForwardLink, at the end of register().
ApplyForwardLink(r, o) ==
    /\ Room
    /\ o \in fresh
    /\ mail[o] \in verified \ (staff \cup Suspended)
    /\ fresh' = fresh \ {o}
    /\ Begin(r, "target", LinkJob("system", mail[o], {o}))
    /\ UNCHANGED <<mail, verified, staff, expired>>

\* linkOrderByEmail, an operator's: the only one that may re-own an order.
LinkOrderByEmail(r, u, o) ==
    /\ Room
    /\ Begin(r, "target", LinkJob("staff_override", u, {o}))
    /\ UNCHANGED world

-----------------------------------------------------------------------------
(* linkOrdersToUser *)

LinkCheckTarget(r) ==
    /\ at[r] = "target"
    /\ \/ /\ job[r].user \in staff \cup Suspended
          /\ Refuse(r)
       \/ /\ job[r].user \notin staff \cup Suspended
          /\ at' = [at EXCEPT ![r] = "lock"]
          /\ UNCHANGED <<world, owner, ledger, lock, job, todo, seen>>

\* ORDER BY id
NextToLock(rows, o) == o \in rows /\ \A p \in rows : o <= p

\* Fault: a plain SELECT.
NoForUpdate(o) == TRUE

\* SELECT ... FOR UPDATE and UPDATE wait for the holder of the row.
Lockable(o) == lock[o] = Nobody

\* The read is of what the last holder committed.
LockRow(r, o) ==
    /\ at[r] = "lock"
    /\ NextToLock(todo[r], o)
    /\ Lockable(o)
    /\ lock' = [lock EXCEPT ![o] = r]
    /\ todo' = [todo EXCEPT ![r] = @ \ {o}]
    /\ seen' = [seen EXCEPT ![r] = [@ EXCEPT ![o] = owner[o]]]
    /\ UNCHANGED <<world, owner, ledger, at, job>>

Movable(r) == {o \in job[r].orders : seen[r][o] # job[r].user}

\* Fault: only the caller's own read protects an owned order.
CallerHasChecked(r) == {}

OwnedElsewhere(r) == {o \in Movable(r) : seen[r][o] # Nobody}

\* The compare-and-set finds another owner than the read did: ConcurrentChange.
Conflict(r) == \E o \in Movable(r) : owner[o] # seen[r][o]

LinkRefused(r) ==
    \/ /\ job[r].kind = "self_claim"
       /\ OwnedElsewhere(r) # {} \/ \E o \in job[r].orders : mail[o] = Nobody
    \/ Movable(r) = {}
    \/ Conflict(r)

Link(r) ==
    LET moved == Movable(r) IN
    /\ owner' = [o \in Orders |-> IF o \in moved THEN job[r].user ELSE owner[o]]
    /\ ledger' = Append(ledger,
          [user |-> job[r].user, actor |-> job[r].kind, orders |-> moved,
           from |-> [o \in Orders |-> IF o \in moved THEN seen[r][o] ELSE Nobody],
           reversed |-> FALSE])
    /\ Finish(r)

LinkOrdersToUser(r) ==
    /\ at[r] = "lock" /\ todo[r] = {} /\ job[r].kind \in Actors
    /\ (LinkRefused(r) /\ Refuse(r)) \/ (~LinkRefused(r) /\ Link(r))

-----------------------------------------------------------------------------
(* What takes a link back *)

OpenLinks(o) ==
    {i \in DOMAIN ledger : /\ o \in ledger[i].orders
                           /\ ~ledger[i].reversed
                           /\ ledger[i].user = owner[o]}

ReverseJob(i) == [kind |-> "reverse", user |-> Nobody,
                  orders |-> ledger[i].orders, event |-> i]

\* unlinkOrder reverses the newest open event, all of it, ...
UnlinkByReversal(r, o) ==
    /\ \E i \in OpenLinks(o) :
          /\ \A j \in OpenLinks(o) : j <= i
          /\ Begin(r, "event", ReverseJob(i))
    /\ UNCHANGED world

\* ... and detaches an order without one, as an event of its own.
UnlinkByDetach(r, o) ==
    /\ Room
    /\ owner[o] # Nobody
    /\ OpenLinks(o) = {}
    /\ Begin(r, "lock", [kind |-> "detach", user |-> owner[o], orders |-> {o}, event |-> 0])
    /\ UNCHANGED world

\* reverseFromLedger: any event the operator picks on the ledger screen.
ReverseFromLedger(r, i) ==
    /\ i \in DOMAIN ledger
    /\ Begin(r, "event", ReverseJob(i))
    /\ UNCHANGED world

Detach(r) ==
    /\ at[r] = "lock" /\ todo[r] = {} /\ job[r].kind = "detach"
    /\ \E o \in job[r].orders :
          \/ seen[r][o] # job[r].user /\ Refuse(r)
          \/ /\ seen[r][o] = job[r].user
             /\ owner' = [owner EXCEPT ![o] = Nobody]
             /\ ledger' = Append(ledger,
                   [user |-> job[r].user, actor |-> "staff_override", orders |-> {o},
                    from |-> [Unread EXCEPT ![o] = job[r].user], reversed |-> TRUE])
             /\ Finish(r)

-----------------------------------------------------------------------------
(* reverseMergeEvent *)

RestoresToStaff(e) == \E o \in e.orders : e.from[o] \in staff

\* The event is read without a lock.
ReverseReadEvent(r) ==
    LET e == ledger[job[r].event] IN
    /\ at[r] = "event"
    /\ \/ /\ e.reversed \/ job[r].event <= expired \/ RestoresToStaff(e)
          /\ Refuse(r)
       \/ /\ ~e.reversed /\ job[r].event > expired /\ ~RestoresToStaff(e)
          /\ at' = [at EXCEPT ![r] = "update"]
          /\ UNCHANGED <<world, owner, ledger, lock, job, todo, seen>>

\* Fault: rows are updated the other way round.
LastEntity(rows, o) == o \in rows /\ \A p \in rows : p <= o

\* The entities were created in the order of the ids of their orders.
NextEntity(rows, o) == o \in rows /\ \A p \in rows : o <= p

\* Fault: wherever the order has gone since, it is put back.
WhereverItIs(r, o) == TRUE

\* The where-clause that scopes the update to the account of the event.
StillPlaced(r, o) == owner[o] = ledger[job[r].event].user

\* A row that no longer matches is left alone, and not locked.
ReverseUpdateRow(r, o) ==
    /\ at[r] = "update"
    /\ NextEntity(todo[r], o)
    /\ Lockable(o)
    /\ lock' = IF StillPlaced(r, o) THEN [lock EXCEPT ![o] = r] ELSE lock
    /\ todo' = [todo EXCEPT ![r] = @ \ {o}]
    /\ UNCHANGED <<world, owner, ledger, at, job, seen>>

Restored(r) == {o \in Orders : lock[o] = r}

NothingRestored(r) == Restored(r) = {}

ReverseMergeEvent(r) ==
    LET i == job[r].event IN
    /\ at[r] = "update" /\ todo[r] = {}
    /\ \/ NothingRestored(r) /\ Refuse(r)
       \/ /\ ~NothingRestored(r)
          /\ owner' = [o \in Orders |->
                IF lock[o] = r THEN ledger[i].from[o] ELSE owner[o]]
          /\ ledger' = [ledger EXCEPT ![i] = [@ EXCEPT !.reversed = TRUE]]
          /\ Finish(r)

-----------------------------------------------------------------------------
(* The surroundings *)

\* The process dies or the database fails: the transaction is rolled back.
Abort(r) == ~Idle(r) /\ Refuse(r)

\* An account becomes a member of an organization.
GrantMembership(u) ==
    /\ GrantsRace \/ \A r \in Requests : Idle(r)
    /\ staff' = staff \cup {u}
    /\ UNCHANGED <<mail, fresh, verified, expired, owner, ledger, lock, at, job, todo, seen>>

\* Thirty days pass since the oldest event that was still reversible.
DeadlinePasses ==
    /\ expired < Len(ledger)
    /\ expired' = expired + 1
    /\ UNCHANGED <<mail, fresh, verified, staff, owner, ledger, lock, at, job, todo, seen>>

Ask(r) ==
    \/ \E u \in Accounts, o \in Orders : ClaimOrderFromToken(r, u, o) \/ LinkOrderByEmail(r, u, o)
    \/ \E u \in {mail[o] : o \in Orders} \ {Nobody} : ClaimOrdersForVerifiedEmail(r, u)
    \/ \E o \in Orders : ApplyForwardLink(r, o) \/ UnlinkByReversal(r, o) \/ UnlinkByDetach(r, o)
    \/ \E i \in DOMAIN ledger : ReverseFromLedger(r, i)

Serve(r) ==
    \/ LinkCheckTarget(r) \/ LinkOrdersToUser(r) \/ Detach(r)
    \/ ReverseReadEvent(r) \/ ReverseMergeEvent(r)
    \/ \E o \in Orders : LockRow(r, o) \/ ReverseUpdateRow(r, o)

Next ==
    \/ \E r \in Requests : Ask(r) \/ Serve(r) \/ Abort(r)
    \/ \E u \in Promotable : GrantMembership(u)
    \/ DeadlinePasses

Spec == Init /\ [][Next]_vars

-----------------------------------------------------------------------------
(* What holds of every state *)

\* The owner a link read is the owner until the link commits, for the rows it
\* has locked; only its own rows, and those it is done with.
LocksHold ==
    \A o \in Orders, r \in Requests : lock[o] = r =>
        /\ at[r] \in {"lock", "update"}
        /\ o \in job[r].orders \ todo[r]
        /\ at[r] = "lock" => seen[r][o] = owner[o]
        /\ at[r] = "update" => StillPlaced(r, o)

\* Rows are locked in the order of their ids.
LocksAscend ==
    \A o, p \in Orders, r \in Requests : lock[o] = r /\ p \in todo[r] => o < p

\* What a request carries belongs to what it is doing.
JobsMakeSense ==
    \A r \in Requests :
        /\ todo[r] \subseteq job[r].orders
        /\ at[r] = "idle" => todo[r] = {}
        /\ at[r] \in {"target", "event"} => todo[r] = job[r].orders
        /\ at[r] = "target" => job[r].kind \in Actors /\ job[r].user \in Accounts
        /\ at[r] = "lock" =>
              /\ job[r].kind \in Actors \cup {"detach"} /\ job[r].user \in Accounts
              /\ \A o \in job[r].orders \ todo[r] : lock[o] = r
        /\ at[r] \in {"event", "update"} =>
              /\ job[r].kind = "reverse" /\ job[r].event \in DOMAIN ledger
              /\ job[r].orders = ledger[job[r].event].orders

\* An event names where its orders came from; only a detach, which is written
\* down as reversed, names the account they were taken from.
EventsMakeSense ==
    \A i \in DOMAIN ledger : \A o \in ledger[i].orders :
        ~ledger[i].reversed => ledger[i].from[o] # ledger[i].user

\* Without a membership granted meanwhile, what was checked stays true.
ChecksStand ==
    ~GrantsRace => \A r \in Requests :
        /\ at[r] = "lock" /\ job[r].kind \in Actors => job[r].user \notin staff
        /\ at[r] = "update" => ~RestoresToStaff(ledger[job[r].event])

LedgerInv ==
    TypeOK /\ LocksHold /\ LocksAscend /\ JobsMakeSense /\ EventsMakeSense /\ ChecksStand

-----------------------------------------------------------------------------
(* Properties *)

Wants(r, o) ==
    \/ at[r] = "lock" /\ NextToLock(todo[r], o)
    \/ at[r] = "update" /\ NextEntity(todo[r], o)

Waits(r, s) == \E o \in Orders : Wants(r, o) /\ lock[o] = s

\* Two transactions never wait for each other's rows: linkOrdersToUser locks in
\* the order of the ids because reverseMergeEvent updates one row at a time.
NoLockCycle == \A r, s \in Requests : Waits(r, s) => ~Waits(s, r)

MoveRecorded(o) ==
    \/ \E i \in DOMAIN ledger' \ DOMAIN ledger :
          LET e == ledger'[i] IN
          /\ o \in e.orders
          /\ e.from[o] = owner[o]
          /\ owner'[o] = IF e.reversed THEN Nobody ELSE e.user
    \/ \E i \in DOMAIN ledger :
          LET e == ledger[i] IN
          /\ ledger'[i].reversed
          /\ o \in e.orders
          /\ e.user = owner[o] /\ e.from[o] = owner'[o]

\* No order changes hands without a true record of it: a new event that names
\* the owner it really had, or a reversed one that had put it there.  (Reversed
\* before, perhaps: the event is read without a lock, see ReverseReadEvent.)
MovesAreRecorded == [][\A o \in Orders : owner'[o] # owner[o] => MoveRecorded(o)]_vars

\* The ledger never tells of a move that did not happen: all the orders of a new
\* event move, and a reversal moves at least one.
RecordsAreMoves ==
    [][/\ \A i \in DOMAIN ledger' \ DOMAIN ledger :
             \A o \in ledger'[i].orders : owner'[o] # owner[o]
       /\ \A i \in DOMAIN ledger :
             ~ledger[i].reversed /\ ledger'[i].reversed =>
                 \E o \in ledger[i].orders : owner'[o] # owner[o]]_vars

\* The ledger and the owners tell one story.
LedgerTellsMoves == MovesAreRecorded /\ RecordsAreMoves

SelfClaimed(o) ==
    \E i \in DOMAIN ledger' \ DOMAIN ledger :
        ledger'[i].actor = "self_claim" /\ o \in ledger'[i].orders

\* Whatever the claimant read before its transaction, a claim without an
\* operator only takes what nobody owns and what has an address.
SelfClaimSparesOwned ==
    [][\A o \in Orders : SelfClaimed(o) => owner[o] = Nobody /\ mail[o] # Nobody]_vars

\* No order moves to an account that is a member of an organization, neither by
\* a link nor on the way back.  (Memberships are granted between requests.)
StaffReceiveNothing ==
    [][\A o \in Orders : owner'[o] # owner[o] => owner'[o] \notin staff]_vars

\* claim.ts: "An operator's decision must not be undoable by the party it
\* removed": a self-claim never takes what an operator has detached.
DetachIsFinal ==
    [][\A o \in Orders : SelfClaimed(o) => ~OperatorDetached(o)]_vars
=============================================================================
