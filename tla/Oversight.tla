----------------------------- MODULE Oversight -----------------------------
(***************************************************************************)
(* What the office reads: the registrations a viewer's memberships list and *)
(* open (lib/auth/org-scope.ts, lib/admin/registrations.ts), the rosters    *)
(* swept from pretix and the numbers of the data pages (lib/admin/data.ts,  *)
(* dashboard.ts), while roles change and pretix moves on.  Which sessions   *)
(* an order books is known to pretix alone; who may look, to the app alone. *)
(***************************************************************************)
EXTENDS FiniteSetsExt, SequencesExt

CONSTANTS Orgs, Events, OrgOf,   \* organizations, events and whose they are
          Subs, EventOf,         \* sessions (and their pretix items), their event
          NoSub, MaxOrders, MaxSeats

ASSUME OversightAssumption == /\ OrgOf \in [Events -> Orgs] /\ EventOf \in [Subs -> Events]
                              /\ NoSub \notin Subs /\ MaxOrders \in Nat /\ MaxSeats \in Nat

VARIABLES members,  \* the viewer's organization_members
          session,  \* sub_events: "linked" to a pretix item, "unlinked" or "gone"
          booked,   \* pretix: its orders as they were placed
          appRows,  \* attendee_orders, of some of those codes
          mailed,   \* codes with a delivered ticket_issued mail
          sweep     \* the roster page being built
oversightVars == <<members, session, booked, appRows, mailed, sweep>>

Roles == {"super_admin", "organizer_admin", "finance", "checkin_staff", "workshop_organiser"}
NoMember == [role |-> "none", events |-> {}, subs |-> {}]
Codes == DOMAIN booked
\* The places of o that hold a seat of s.
Live(o, s) == {k \in DOMAIN o.seats : o.seats[k].item = s /\ ~o.seats[k].canceled}

(* Who the viewer is ******************************************************)
IsSuperAdmin == \E g \in Orgs : members[g].role = "super_admin"
Narrowed(m) == m.role \in {"checkin_staff", "workshop_organiser"}

EventScope == {e \in Events : \/ IsSuperAdmin
                              \/ LET m == members[OrgOf[e]] IN
                                 \/ Narrowed(m) /\ e \in m.events
                                 \/ m.role \in {"organizer_admin", "finance"}}
CanAccessEvent(e) == \/ IsSuperAdmin
                     \/ LET m == members[OrgOf[e]] IN
                        m.role # "none" /\ (Narrowed(m) => e \in m.events)

Workshops == {g \in Orgs : members[g].role = "workshop_organiser"}
Broad == {g \in Orgs : members[g].role \in {"super_admin", "organizer_admin", "finance"}}
\* subEventScope is null exactly for the viewers who are not restricted.
Restricted == ~IsSuperAdmin /\ ~(Workshops \subseteq Broad)
SubEventScope == UNION {members[g].subs : g \in Workshops}

MayList == \E g \in Orgs : members[g].role \in Roles \ {"checkin_staff"}

(* The list, and one registration *****************************************)
Existing(ss) == {s \in ss : session[s] # "gone"}
CodesRefused(ss) == \E s \in Existing(ss) : ~CanAccessEvent(EventOf[s])

\* A plausible bug: canceled positions count too.
AnyPosition(ss, up) ==
    {c \in Codes : \E s \in Existing(ss) :
        /\ session[s] = "linked" /\ EventOf[s] = booked[c].event
        /\ OrgOf[EventOf[s]] \in up
        /\ booked[c].status # "c" /\ \E k \in DOMAIN booked[c].seats : booked[c].seats[k].item = s}

\* One sweep per event whose organizer's pretix answers (up); otherwise nothing.
OrderCodesForSubEvents(ss, up) ==
    {c \in Codes : \E s \in Existing(ss) :
        /\ session[s] = "linked" /\ EventOf[s] = booked[c].event
        /\ OrgOf[EventOf[s]] \in up
        /\ booked[c].status # "c" /\ Live(booked[c], s) # {}}

ListRefused(s) ==
    /\ Restricted => SubEventScope # {}
    /\ \/ s # NoSub /\ (CodesRefused({s}) \/ (Restricted /\ s \notin SubEventScope))
       \/ s = NoSub /\ Restricted /\ CodesRefused(SubEventScope)

ListRegistrations(s, up) ==
    {c \in DOMAIN appRows :
        /\ booked[c].event \in EventScope
        /\ Restricted /\ s = NoSub => c \in OrderCodesForSubEvents(SubEventScope, up)
        /\ s # NoSub => c \in OrderCodesForSubEvents({s}, up)}

\* The page falls back to the viewer's whole list when the filter is refused.
PageRows(s, up) == ListRegistrations(IF ListRefused(s) THEN NoSub ELSE s, up)

OrderHoldsAnySubEvent(c, ss, up) ==
    \E s \in Existing(ss) : /\ EventOf[s] = booked[c].event /\ session[s] = "linked"
                         /\ OrgOf[EventOf[s]] \in up /\ Live(booked[c], s) # {}

Opens(c, up) == /\ CanAccessEvent(booked[c].event)
                /\ Restricted => OrderHoldsAnySubEvent(c, SubEventScope, up)

(* The numbers of the office **********************************************)
\* A plausible bug: whatever the approval.
PaidIsIssued(r) == r.status = "paid"

\* The where clause ISSUED of the lists, the dashboard and the door's risk.
Issued(r) == r.status = "paid" /\ r.approval \in {"not_required", "approved"}

RegistrationState(r) ==
    CASE r.approval = "pending"  -> "pending_approval"
      [] r.approval = "rejected" -> "rejected"
      [] OTHER -> CASE r.status = "canceled" -> "canceled"
                    [] r.status = "paid"     -> "issued"
                    [] OTHER                 -> "pending_payment"

QrShown(c) == RegistrationState(appRows[c]) = "issued"
Blocked == {c \in DOMAIN appRows : Issued(appRows[c]) /\ ~appRows[c].secret}
NoTicket == {c \in DOMAIN appRows : Issued(appRows[c]) /\ c \notin Blocked /\ c \notin mailed}
IssuedTickets == Cardinality({c \in DOMAIN appRows : /\ booked[c].event \in EventScope
                                                  /\ Issued(appRows[c])})

(* A roster ***************************************************************)
Idle == [at |-> "idle", seen |-> <<>>, start |-> <<>>]

\* authorizeEvent needs organizer_admin in the event's own organization.
BeginSweep ==
    /\ sweep = Idle
    /\ IsSuperAdmin \/ \E g \in Orgs : members[g].role = "organizer_admin"
    /\ sweep' = [at |-> "reading", seen |-> <<>>, start |-> booked]
    /\ UNCHANGED <<members, session, booked, appRows, mailed>>

\* pretix lists orders as they were placed; a page is one order here.
ReadPage ==
    /\ sweep.at = "reading"
    /\ sweep' = IF Len(sweep.seen) < Len(booked)
                THEN [sweep EXCEPT !.seen = Append(@, booked[Len(@) + 1])]
                ELSE [sweep EXCEPT !.at = "read"]
    /\ UNCHANGED <<members, session, booked, appRows, mailed>>

LeavePage == /\ sweep.at = "read" /\ sweep' = Idle
             /\ UNCHANGED <<members, session, booked, appRows, mailed>>

Valid(o) == o.status \in {"p", "n"}
\* A plausible bug: orders are counted, not seats.
OnePerOrder(o, s) == IF Valid(o) /\ Live(o, s) # {} THEN {1} ELSE {}

\* One entry per order and item, with the seats it holds; headcount adds them up.
EntrySeats(o, s) == IF Valid(o) THEN Live(o, s) ELSE {}
Headcount(s) == Cardinality(UNION {{c} \X EntrySeats(sweep.seen[c], s) : c \in DOMAIN sweep.seen})

(* Roles ******************************************************************)
\* inviteUser takes new addresses only, and never a workshop organiser.
InviteUser == \E g \in Orgs, r \in Roles \ {"workshop_organiser"} :
    /\ \A h \in Orgs : members[h] = NoMember
    /\ members' = [members EXCEPT ![g] = [NoMember EXCEPT !.role = r]]
    /\ UNCHANGED <<session, booked, appRows, mailed, sweep>>

Grant(g, m) == /\ members' = [members EXCEPT ![g] = m]
               /\ UNCHANGED <<session, booked, appRows, mailed, sweep>>

GrantBroad == \E g \in Orgs, r \in {"super_admin", "organizer_admin", "finance"} :
    Grant(g, [NoMember EXCEPT !.role = r])

\* Staff need events, all of this organization.
GrantStaff == \E g \in Orgs : \E es \in SUBSET {e \in Events : OrgOf[e] = g} \ {{}} :
    Grant(g, [NoMember EXCEPT !.role = "checkin_staff", !.events = es])

\* An organiser needs sessions that exist, of this organization, and no broad
\* role in another one; the events of the membership come from the sessions.
SessionsGrantable(g, ss) ==
    /\ ss # {} /\ \A s \in ss : session[s] # "gone" /\ OrgOf[EventOf[s]] = g
    /\ \A h \in Orgs \ {g} : members[h].role \notin {"super_admin", "organizer_admin", "finance"}

GrantWorkshop == \E g \in Orgs, ss \in SUBSET Subs :
    /\ SessionsGrantable(g, ss)
    /\ Grant(g, [role |-> "workshop_organiser", events |-> {EventOf[s] : s \in ss}, subs |-> ss])

\* A deleted session stays in the memberships that name it.
DropSession(s) == /\ session[s] # "gone" /\ session' = [session EXCEPT ![s] = "gone"]
                  /\ UNCHANGED <<members, booked, appRows, mailed, sweep>>

(* pretix, and the rows that follow it ************************************)
OrdersOf(e) == {[event |-> e, status |-> "n",
                 seats |-> [k \in DOMAIN q |-> [item |-> q[k], canceled |-> FALSE]]] :
                q \in BoundedSeq({s \in Subs : EventOf[s] = e}, MaxSeats)}

PretixPlace == /\ Len(booked) < MaxOrders
               /\ \E e \in Events : \E o \in OrdersOf(e) : booked' = Append(booked, o)
               /\ UNCHANGED <<members, session, appRows, mailed, sweep>>

PretixMoves(c) ==
    /\ \/ \E to \in {"p", "c", "e"} :
          /\ booked[c].status \in (IF to = "c" THEN {"n", "p", "e"} ELSE {"n"})
          /\ booked' = [booked EXCEPT ![c].status = to]
       \/ \E k \in DOMAIN booked[c].seats :
          /\ ~booked[c].seats[k].canceled
          /\ booked' = [booked EXCEPT ![c].seats[k].canceled = TRUE]
    /\ UNCHANGED <<members, session, appRows, mailed, sweep>>

Row == [status: {"pending", "paid", "canceled"}, secret: BOOLEAN,
        approval: {"not_required", "pending", "approved", "rejected"}]

\* register() and the order's handlers (Registration, OrderLifecycle): a row
\* lags behind pretix, and never shows what pretix has not done.
RowMoves(c) == \E r \in Row :
    /\ r.status = "paid" => booked[c].status \in {"p", "c"}
    /\ r.status = "canceled" => booked[c].status = "c"
    /\ appRows' = [x \in DOMAIN appRows \cup {c} |-> IF x = c THEN r ELSE appRows[x]]
    /\ UNCHANGED <<members, session, booked, mailed, sweep>>

MailDelivered(c) == /\ c \in DOMAIN appRows /\ mailed' = mailed \cup {c}
                    /\ UNCHANGED <<members, session, booked, appRows, sweep>>

(* The specification ******************************************************)
OversightInit ==
    /\ members = [g \in Orgs |-> NoMember]
    /\ session \in [Subs -> {"linked", "unlinked"}]
    /\ booked = <<>> /\ appRows = <<>> /\ mailed = {} /\ sweep = Idle

OversightNext ==
    \/ InviteUser \/ GrantBroad \/ GrantStaff \/ GrantWorkshop
    \/ \E s \in Subs : DropSession(s)
    \/ BeginSweep \/ ReadPage \/ LeavePage
    \/ PretixPlace \/ \E c \in Codes : PretixMoves(c) \/ RowMoves(c) \/ MailDelivered(c)

OversightSpec == OversightInit /\ [][OversightNext]_oversightVars

(* What must hold *********************************************************)
OversightTypeOK ==
    /\ members \in [Orgs -> [role: Roles \cup {"none"}, events: SUBSET Events, subs: SUBSET Subs]]
    /\ session \in [Subs -> {"linked", "unlinked", "gone"}]
    /\ DOMAIN appRows \subseteq Codes /\ \A c \in DOMAIN appRows : appRows[c] \in Row
    /\ mailed \subseteq DOMAIN appRows /\ Len(sweep.seen) <= Len(booked)

\* An organiser's own list is never refused to them: the events of their
\* membership are derived from its sessions (users/actions.ts:80-94), and lists
\* refuse a session whose event the viewer may not open (registrations.ts:147).
OwnListAnswers == MayList => ~ListRefused(NoSub)
OversightInv == OversightTypeOK /\ OwnListAnswers

\* One membership that shows order c on its own.
Justifies(m, g, c) ==
    LET e == booked[c].event IN
    \/ m.role = "super_admin"
    \/ OrgOf[e] = g /\ CASE m.role \in {"organizer_admin", "finance"} -> TRUE
                         [] m.role = "checkin_staff" -> e \in m.events
                         [] m.role = "workshop_organiser" ->
                              \E s \in m.subs : session[s] = "linked" /\ Live(booked[c], s) # {}
                         [] OTHER -> FALSE

\* The list, which sweeps pretix, and the detail page, which asks it for one
\* order, decide separately who may see a registration (registrations.ts:239-290,
\* 424-456).  What a list shows opens, with any filter and whichever organizers'
\* pretix answers; and some one membership of the viewer justifies it: several
\* memberships together never show what none of them does.
ListedOpens ==
    MayList => \A s \in Subs \cup {NoSub}, up \in SUBSET Orgs : \A c \in PageRows(s, up) :
        /\ Opens(c, up)
        /\ \E g \in Orgs : Justifies(members[g], g, c)

\* The seats of s in o; those in the orders a sweep began with; those sold since.
HeldSeats(o, s) == {k \in DOMAIN o.seats : /\ o.status \in {"p", "n"}
                                           /\ o.seats[k].item = s /\ ~o.seats[k].canceled}
KeptSeats(os, s) == UNION {{c} \X HeldSeats(os[c], s) : c \in DOMAIN sweep.start}
LaterSeats == UNION {{c} \X DOMAIN booked[c].seats : c \in Codes \ DOMAIN sweep.start}

\* A finished roster counts every seat that was live from the first page to the
\* last, none that was gone before, each once (data.ts:490-533).
RosterIsWhole ==
    sweep.at = "read" => \A s \in Subs :
        /\ Cardinality(KeptSeats(booked, s)) <= Headcount(s)
        /\ Headcount(s) <= Cardinality(KeptSeats(sweep.start, s)) + Cardinality(LaterSeats)

\* Lists, dashboard, door risk and the page that shows the QR each decide what
\* an issued ticket is (registrations.ts:41-44, dashboard.ts:6-9, data.ts:168-172,
\* state.ts:16-27).  They agree, and the door's risk puts every issued ticket
\* without a QR or without a delivered mail under exactly one heading; the
\* dashboard counts what the list shows.
OneNotionOfIssued ==
    /\ \A c \in DOMAIN appRows : QrShown(c) <=> Issued(appRows[c])
    /\ Blocked \cap NoTicket = {}
    /\ \A c \in DOMAIN appRows : QrShown(c) =>
           (c \in Blocked \cup NoTicket <=> ~(appRows[c].secret /\ c \in mailed))
    /\ MayList /\ ~Restricted =>
           IssuedTickets = Cardinality({c \in ListRegistrations(NoSub, Orgs) : QrShown(c)})
=============================================================================
