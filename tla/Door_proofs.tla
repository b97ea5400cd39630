----------------------------- MODULE Door_proofs -----------------------------
(***************************************************************************)
(* Proofs about the door.  Door, for any number of orders, lists, stations   *)
(* and codes and any bound on requests and losses: the invariant DoorInv,    *)
(* and with it that a badge keeps its owner, a visit has one first row and a *)
(* fixed role no text.  The station: its camera (Scanner), printer (Printer) *)
(* and screen (DoorPanel), each for any constants, and the three together.   *)
(* The labels (Badge): where their ink goes and what is printed whole.       *)
(***************************************************************************)
EXTENDS Door, MCDoorPanel, TLAPS, FiniteSetTheorems, WellFoundedInduction

-----------------------------------------------------------------------------
(* The invariant by what it is about.                                      *)

LogInv == FirstPrintOnce /\ \A s \in Stations : DueOnce(s) /\ OwnRow(s)
CodeInv == OneBadgeCode /\ \A s \in Stations : FirmCode(s)
RoleInv == LabelOnlyForOther /\ \A s \in Stations : WholeRole(s)

LEMMA Parts == DoorInv <=> TypeOK /\ LogInv /\ CodeInv /\ RoleInv
  BY DEF DoorInv, LogInv, CodeInv, RoleInv

LEMMA InitHolds == DoorInit => DoorInv
  <1> SUFFICES ASSUME DoorInit PROVE DoorInv
    OBVIOUS
  <1>1. TypeOK
    BY DoorBounds DEF DoorInit, TypeOK, Attendee, Role, Idle, Blank
  <1>2. LogInv
    BY DEF DoorInit, LogInv, FirstPrintOnce, DueOnce, OwnRow, Idle
  <1>3. CodeInv
    BY DEF DoorInit, CodeInv, OneBadgeCode, FirmCode, Idle
  <1>4. RoleInv
    BY DEF DoorInit, RoleInv, LabelOnlyForOther, WholeRole, Idle
  <1>5. QED
    BY <1>1, <1>2, <1>3, <1>4, Parts

-----------------------------------------------------------------------------
(* What a request becomes.                                                 *)

Put(s, r) == request' = [request EXCEPT ![s] = r]

\* It owes the log nothing and owns no row of it.
Harmless(r) ==
    r.at \notin {"mint", "reread"} /\ ~(r.at = "log" /\ r.op \in {"checkin", "api"})

LEMMA IdleIsHarmless == Harmless(Idle) /\ Idle.op = "none" /\ Idle.at = "none"
  BY DEF Harmless, Idle

LEMMA Busy ==
    ASSUME TypeOK, NEW s \in Stations, request[s].op # "none" \/ request[s].at # "none"
    PROVE  /\ request[s] \in Request /\ request[s].visit \in Visit /\ Order(s) \in Orders
           /\ request[s] # Idle
  BY DEF TypeOK, Idle, Request, Order, Visit

\* A request starts: it has read its row and has written nothing.
Begins(s) ==
    \E r \in Request :
       /\ Put(s, r) /\ Harmless(r) /\ r.tries = 0
       /\ r.seen = attendee[r.visit[1]]
       /\ r.op = "correct" => (r.role.label => r.role.tag = "other")
       /\ UNCHANGED <<attendee, redeemed, log>> /\ hooks' \subseteq hooks
       /\ screen' \in [Stations -> Screen \cup {Blank}]
       /\ begun' \in 0..MaxRequests /\ lost' \in 0..MaxLost

LEMMA StartIs ==
    ASSUME TypeOK, NEW s \in Stations, NEW v \in Visit, NEW role \in Role,
           NEW op \in {"checkin", "reprint", "api", "hook", "correct"},
           NEW at \in {"redeem", "log", "update"}, NEW prior \in BOOLEAN,
           Start(s, op, at, v, prior, role),
           at = "log" => op \notin {"checkin", "api"},
           op = "correct" => (role.label => role.tag = "other"),
           UNCHANGED <<attendee, redeemed, log>>, hooks' \subseteq hooks,
           screen' \in [Stations -> Screen \cup {Blank}],
           begun' \in 0..MaxRequests, lost' \in 0..MaxLost
    PROVE  Begins(s)
  <1> DEFINE r == [op |-> op, at |-> at, visit |-> v, seen |-> attendee[v[1]],
                   tries |-> 0, id |-> 0, prior |-> prior, role |-> role]
  <1>1. attendee[v[1]] \in Attendee
    BY DEF TypeOK, Visit
  <1>2. /\ r \in Request /\ r.op = op /\ r.at = at /\ r.visit = v
        /\ r.seen = attendee[v[1]] /\ r.role = role /\ r.tries = 0
    BY <1>1 DEF Request
  <1>3. Put(s, r)
    BY DEF Start, Put
  <1> HIDE DEF r
  <1>4. Harmless(r)
    BY <1>2 DEF Harmless
  <1>5. QED
    BY <1>2, <1>3, <1>4 DEF Begins
LEMMA BeginStep ==
    ASSUME DoorInv, NEW s \in Stations, Begins(s)
    PROVE  DoorInv'
  <1>1. PICK r \in Request :
           /\ Put(s, r) /\ Harmless(r) /\ r.tries = 0
           /\ r.seen = attendee[r.visit[1]]
           /\ r.op = "correct" => (r.role.label => r.role.tag = "other")
           /\ UNCHANGED <<attendee, redeemed, log>> /\ hooks' \subseteq hooks
           /\ screen' \in [Stations -> Screen \cup {Blank}]
           /\ begun' \in 0..MaxRequests /\ lost' \in 0..MaxLost
    BY DEF Begins
  <1>2. TypeOK'
    BY <1>1 DEF DoorInv, TypeOK, Put
  <1>3. LogInv'
    BY <1>1, Parts DEF LogInv, FirstPrintOnce, DueOnce, OwnRow, TypeOK, Put, Harmless
  <1>4. CodeInv'
    BY <1>1, Parts DEF CodeInv, OneBadgeCode, FirmCode, TypeOK, Put, Order
  <1>5. RoleInv'
    BY <1>1, Parts DEF RoleInv, LabelOnlyForOther, WholeRole, TypeOK, Put
  <1>6. QED
    BY <1>2, <1>3, <1>4, <1>5, Parts DEF DoorInv, LogInv, CodeInv, RoleInv

\* Everything that only starts a request.
LEMMA Starts ==
    ASSUME TypeOK, NEW s \in Stations,
           \/ Retry(s) \/ ConfirmReprint(s)
           \/ \E v \in Visit : CheckInByCode(s, v) \/ ApiCheckIn(s, v)
                               \/ ReprintRecent(s, v) \/ HookRead(s, v)
           \/ \E i \in DOMAIN log, l \in Lists : CheckInByBadge(s, i, l)
           \/ \E o \in Orders, p \in Patches : Correct(s, o, p)
    PROVE  Begins(s)
  <1>1. /\ screen \in [Stations -> Screen \cup {Blank}] /\ begun \in 0..MaxRequests
        /\ lost \in 0..MaxLost
    BY DEF TypeOK
  <1>2. Fresh(s) => begun' \in 0..MaxRequests
    BY <1>1, DoorBounds DEF Fresh
  <1>3. \A v \in Visit : attendee[v[1]].role \in Role
    BY DEF TypeOK, Visit, Attendee
  <1>4. screen[s] # Blank => screen[s].visit \in Visit
    BY <1>1 DEF Screen
  <1>5. ASSUME NEW v \in Visit, CheckIn(s, v), begun' \in 0..MaxRequests,
               screen' \in [Stations -> Screen \cup {Blank}]
        PROVE  Begins(s)
    BY <1>1, <1>3, <1>5, StartIs DEF CheckIn, Read
  <1>6. ASSUME NEW v \in Visit, Reprint(s, v), begun' \in 0..MaxRequests,
               screen' \in [Stations -> Screen \cup {Blank}]
        PROVE  Begins(s)
    BY <1>1, <1>3, <1>6, StartIs DEF Reprint, Read
  <1>7. ASSUME NEW v \in Visit, CheckInByCode(s, v)
        PROVE  Begins(s)
    BY <1>1, <1>2, <1>5, <1>7 DEF CheckInByCode
  <1>8. ASSUME NEW v \in Visit, ApiCheckIn(s, v)
        PROVE  Begins(s)
    BY <1>1, <1>2, <1>3, <1>8, StartIs DEF ApiCheckIn, Read
  <1>9. ASSUME NEW v \in Visit, ReprintRecent(s, v)
        PROVE  Begins(s)
    BY <1>1, <1>2, <1>6, <1>9 DEF ReprintRecent
  <1>10. ASSUME NEW v \in Visit, HookRead(s, v)
         PROVE  Begins(s)
    <2> DEFINE prior == \E i \in DOMAIN log : log[i].visit[1] = v[1]
    <2>1. prior \in BOOLEAN
      OBVIOUS
    <2>2. /\ Start(s, "hook", "log", v, prior, attendee[v[1]].role)
          /\ hooks' \subseteq hooks
          /\ UNCHANGED <<attendee, redeemed, log, screen, begun, lost>>
      BY <1>10 DEF HookRead
    <2> HIDE DEF prior
    <2>3. QED
      BY <1>1, <1>3, <2>1, <2>2, StartIs
  <1>11. ASSUME NEW i \in DOMAIN log, NEW l \in Lists, CheckInByBadge(s, i, l)
         PROVE  Begins(s)
    BY <1>7, <1>11 DEF CheckInByBadge, Visit
  <1>12. ASSUME NEW o \in Orders, NEW p \in Patches, Correct(s, o, p)
         PROVE  Begins(s)
    <2> DEFINE half(k) == IF k \in DOMAIN p THEN p[k] ELSE attendee[o].role[k]
               role == [tag |-> half("tag"), label |-> half("label")]
               day == CHOOSE l \in Lists : TRUE
    <2>1. /\ role.tag = "other" => role.label
          /\ Start(s, "correct", "update", <<o, day>>, FALSE, ResolveRole(role))
          /\ Fresh(s)
          /\ UNCHANGED <<attendee, redeemed, hooks, log, screen, lost>>
      BY <1>12 DEF Correct
    <2>2. half("tag") \in {"fixed", "other"} /\ half("label") \in BOOLEAN
      BY PatchAssumption DEF TypeOK, Attendee, Role
    <2>3. role \in Role
      BY <2>2 DEF Role
    <2> HIDE DEF role
    <2>4. /\ ResolveRole(role) \in Role
          /\ ResolveRole(role).label => ResolveRole(role).tag = "other"
      BY <2>3 DEF ResolveRole, Role
    <2>5. <<o, day>> \in Visit
      BY ListsAssumption DEF Visit
    <2>6. QED
      BY <1>1, <1>2, <2>1, <2>4, <2>5, StartIs
  <1>13. CASE Retry(s)
    BY <1>1, <1>4, <1>5, <1>13 DEF Retry
  <1>14. CASE ConfirmReprint(s)
    BY <1>1, <1>4, <1>6, <1>14 DEF ConfirmReprint
  <1>15. QED
    BY <1>7, <1>8, <1>9, <1>10, <1>11, <1>12, <1>13, <1>14
-----------------------------------------------------------------------------
(* The log: what appending a row, and handing a badge over, leave true.    *)

\* The rows stay, and no request gains a debt to them.
LEMMA LogsKept ==
    ASSUME TypeOK, LogInv, UNCHANGED log, redeemed \subseteq redeemed', NEW s \in Stations,
           NEW r \in Request \cup {Idle}, Put(s, r),
           \/ Harmless(r)
           \/ /\ r.at \in {"mint", "reread"} /\ request[s].at \in {"mint", "reread"}
              /\ r.visit = request[s].visit /\ r.id = request[s].id
    PROVE  LogInv'
  BY DEF LogInv, FirstPrintOnce, DueOnce, OwnRow, TypeOK, Put, Harmless

\* pretix grants a visit nobody had: its first row is now due.
LEMMA LogsGranted ==
    ASSUME TypeOK, LogInv, UNCHANGED log, NEW s \in Stations, NEW r \in Request,
           request[s].visit \notin redeemed, r.at = "log", r.visit = request[s].visit,
           redeemed' = redeemed \cup {request[s].visit}, Put(s, r)
    PROVE  LogInv'
  BY DEF LogInv, FirstPrintOnce, DueOnce, OwnRow, TypeOK, Put

\* One more row at the end, handed to nobody yet.
Appends(row) == log' = Append(log, row) /\ ~row.handed /\ row.code = NoCode

LEMMA RowIs ==
    ASSUME TypeOK, NEW row \in Log, Appends(row)
    PROVE  /\ log' \in Seq(Log) /\ DOMAIN log' = 1..(Len(log) + 1) /\ Len(log) \in Nat
           /\ DOMAIN log = 1..Len(log)
           /\ log'[Len(log) + 1] = row /\ \A i \in DOMAIN log : log'[i] = log[i]
  BY DEF TypeOK, Appends

LEMMA LogsAppended ==
    ASSUME TypeOK, LogInv, NEW row \in Log, Appends(row), UNCHANGED redeemed,
           NEW s \in Stations, NEW r \in Request \cup {Idle}, Put(s, r),
           row.visit = request[s].visit, request[s].at = "log",
           row.by = "hook" \/ row.reprint \/ request[s].op \in {"checkin", "api"},
           \/ Harmless(r)
           \/ r.at = "mint" /\ r.visit = row.visit /\ r.id = Len(log) + 1
    PROVE  LogInv'
  <1> DEFINE n == Len(log) + 1
  <1>1. /\ DOMAIN log' = DOMAIN log \cup {n} /\ n \notin DOMAIN log /\ n \in DOMAIN log'
        /\ log'[n] = row /\ \A i \in DOMAIN log : log'[i] = log[i]
    <2>1. /\ DOMAIN log' = 1..n /\ DOMAIN log = 1..(n - 1) /\ n \in Nat /\ n # 0
          /\ log'[n] = row /\ \A i \in DOMAIN log : log'[i] = log[i]
      BY RowIs
    <2>2. 1..n = (1..(n - 1)) \cup {n} /\ n \notin 1..(n - 1)
      BY <2>1
    <2>3. QED
      BY <2>1, <2>2
  <1>2. \A t \in Stations : t # s => request'[t] = request[t]
    BY DEF Put, TypeOK
  <1>3. request'[s] = r
    BY DEF Put, TypeOK
  <1> HIDE DEF n
  <1>4. FirstPrintOnce'
    BY <1>1 DEF LogInv, FirstPrintOnce, DueOnce
  <1>5. ASSUME NEW t \in Stations
        PROVE  DueOnce(t)'
    BY <1>1, <1>2, <1>3 DEF LogInv, DueOnce, Harmless
  <1>6. ASSUME NEW t \in Stations
        PROVE  OwnRow(t)'
    <2>1. r.at \in {"mint", "reread"} => r.at = "mint" /\ r.visit = row.visit /\ r.id = n
      BY DEF Harmless, n
    <2>2. CASE t = s
      BY <1>1, <1>2, <1>3, <2>1, <2>2 DEF LogInv, OwnRow, Appends
    <2>3. CASE t # s
      BY <1>1, <1>2, <1>3, <2>1, <2>3 DEF LogInv, OwnRow
    <2>4. QED
      BY <2>2, <2>3
  <1>7. QED
    BY <1>4, <1>5, <1>6 DEF LogInv

LEMMA HandIs ==
    ASSUME TypeOK, LogInv, NEW s \in Stations, NEW c \in Codes \cup {NoCode},
           request[s].at \in {"mint", "reread"}, Hand(s, c)
    PROVE  /\ log' \in Seq(Log) /\ DOMAIN log' = DOMAIN log /\ Put(s, Idle)
           /\ request[s].id \in DOMAIN log
           /\ \A i \in DOMAIN log :
                 /\ log'[i].visit = log[i].visit /\ log'[i].by = log[i].by
                 /\ log'[i].reprint = log[i].reprint
                 /\ i # request[s].id => log'[i] = log[i]
           /\ log'[request[s].id].code = c
           /\ log[request[s].id].visit = request[s].visit
  <1> DEFINE id  == request[s].id
             row == [log[id] EXCEPT !.handed = TRUE, !.code = c]
  <1>1. id \in DOMAIN log /\ log[id].visit = request[s].visit
    BY DEF LogInv, OwnRow
  <1>2. log[id] \in Log /\ log \in Seq(Log)
    BY <1>1 DEF TypeOK
  <1>3. /\ row \in Log /\ row.visit = log[id].visit /\ row.by = log[id].by
        /\ row.reprint = log[id].reprint /\ row.code = c
    BY <1>2 DEF Log
  <1>4. log' = [log EXCEPT ![id] = row]
    BY DEF Hand
  <1> HIDE DEF id, row
  <1>5. log' \in Seq(Log) /\ DOMAIN log' = DOMAIN log
    BY <1>1, <1>2, <1>3, <1>4
  <1>6. log'[id] = row /\ \A i \in DOMAIN log : i # id => log'[i] = log[i]
    BY <1>1, <1>2, <1>4
  <1>7. Put(s, Idle)
    BY DEF Hand, Return, Put
  <1>8. QED
    BY <1>1, <1>3, <1>5, <1>6, <1>7 DEF id

LEMMA LogsHanded ==
    ASSUME TypeOK, LogInv, NEW s \in Stations, NEW c \in Codes \cup {NoCode},
           request[s].at \in {"mint", "reread"}, Hand(s, c), UNCHANGED redeemed
    PROVE  LogInv'
  <1>1. /\ \A t \in Stations : t # s => request'[t] = request[t]
        /\ request'[s].at = "none" /\ request'[s].op = "none"
    BY HandIs, IdleIsHarmless DEF Put, TypeOK
  <1>2. FirstPrintOnce'
    BY HandIs DEF LogInv, FirstPrintOnce
  <1>3. ASSUME NEW t \in Stations
        PROVE  DueOnce(t)' /\ OwnRow(t)'
    BY <1>1, HandIs DEF LogInv, DueOnce, OwnRow
  <1>4. QED
    BY <1>2, <1>3 DEF LogInv
-----------------------------------------------------------------------------
(* The codes and the roles.                                                *)

LEMMA RowsOfOrders ==
    ASSUME TypeOK
    PROVE  \A i \in DOMAIN log : log[i].visit[1] \in Orders
  <1>1. \A i \in DOMAIN log : log[i] \in Log
    BY DEF TypeOK
  <1>2. QED
    BY <1>1 DEF Log, Visit

LEMMA CodesKept ==
    ASSUME TypeOK, CodeInv, \A o \in Orders : attendee'[o].code = attendee[o].code,
           NEW s \in Stations, NEW r \in Request \cup {Idle}, Put(s, r),
           r.op # "none" => /\ request[s].op # "none" /\ r.visit = request[s].visit
                            /\ r.seen = request[s].seen,
           UNCHANGED log \/ \E row \in Log : Appends(row)
    PROVE  CodeInv'
  <1>1. OneBadgeCode'
    <2>1. CASE UNCHANGED log
      BY <2>1, RowsOfOrders DEF CodeInv, OneBadgeCode
    <2>2. ASSUME NEW row \in Log, Appends(row)
          PROVE  OneBadgeCode'
      <3>1. /\ DOMAIN log' = 1..(Len(log) + 1) /\ DOMAIN log = 1..Len(log)
            /\ Len(log) \in Nat /\ log'[Len(log) + 1].code = NoCode
            /\ \A i \in DOMAIN log : log'[i] = log[i]
        BY <2>2, RowIs DEF Appends
      <3>2. \A i \in DOMAIN log' : i = Len(log) + 1 \/ i \in DOMAIN log
        BY <3>1
      <3>3. QED
        BY <3>1, <3>2, RowsOfOrders DEF CodeInv, OneBadgeCode
    <2>3. QED
      BY <2>1, <2>2
  <1>2. ASSUME NEW t \in Stations
        PROVE  FirmCode(t)'
    <2>1. CASE t = s
      <3>1. request'[s] = r
        BY DEF Put, TypeOK
      <3>2. request[s].op # "none" => Order(s) \in Orders
        BY Busy
      <3>3. QED
        BY <2>1, <3>1, <3>2 DEF CodeInv, FirmCode, Order
    <2>2. CASE t # s
      <3>1. request'[t] = request[t]
        BY <2>2 DEF Put, TypeOK
      <3>2. request[t].op # "none" => Order(t) \in Orders
        BY Busy
      <3>3. QED
        BY <3>1, <3>2 DEF CodeInv, FirmCode, Order
    <2>3. QED
      BY <2>1, <2>2
  <1>3. QED
    BY <1>1, <1>2 DEF CodeInv

LEMMA CodesHanded ==
    ASSUME TypeOK, LogInv, CodeInv, UNCHANGED attendee, NEW s \in Stations,
           NEW c \in Codes \cup {NoCode}, request[s].at \in {"mint", "reread"}, Hand(s, c),
           c # NoCode => attendee[Order(s)].code = c
    PROVE  CodeInv'
  <1>1. OneBadgeCode'
    BY HandIs DEF CodeInv, OneBadgeCode, Order
  <1>2. ASSUME NEW t \in Stations
        PROVE  FirmCode(t)'
    <2>1. request'[t] = request[t] \/ request'[t].op = "none"
      BY HandIs, IdleIsHarmless DEF Put, TypeOK
    <2>2. QED
      BY <2>1 DEF CodeInv, FirmCode, Order
  <1>3. QED
    BY <1>1, <1>2 DEF CodeInv

LEMMA CodeMinted ==
    ASSUME TypeOK, LogInv, CodeInv, NEW s \in Stations, NEW c \in Codes,
           request[s].at \in {"mint", "reread"}, Hand(s, c), Codeless(Order(s)), ~Taken(c),
           \A o \in Orders : attendee'[o].code = IF o = Order(s) THEN c ELSE attendee[o].code
    PROVE  CodeInv'
  <1>1. Order(s) \in Orders /\ c # NoCode /\ \A i \in DOMAIN log : log[i].visit[1] \in Orders
    BY Busy, CodeAssumption, RowsOfOrders
  <1>2. OneBadgeCode'
    BY <1>1, HandIs DEF CodeInv, OneBadgeCode, Order, Codeless, Taken
  <1>3. ASSUME NEW t \in Stations
        PROVE  FirmCode(t)'
    <2>1. request'[t] = request[t] \/ request'[t].op = "none"
      BY HandIs, IdleIsHarmless DEF Put, TypeOK
    <2>2. request[t].op # "none" => Order(t) \in Orders
      BY Busy
    <2>3. QED
      BY <1>1, <2>1, <2>2 DEF CodeInv, FirmCode, Order, Codeless
  <1>4. QED
    BY <1>2, <1>3 DEF CodeInv

LEMMA RolesKept ==
    ASSUME TypeOK, RoleInv, NEW s \in Stations, NEW r \in Request \cup {Idle}, Put(s, r),
           r.op = "correct" => request[s].op = "correct" /\ r.role = request[s].role,
           \A o \in Orders :
              \/ attendee'[o].role = attendee[o].role
              \/ request[s].op = "correct" /\ attendee'[o].role = request[s].role
    PROVE  RoleInv'
  BY DEF RoleInv, LabelOnlyForOther, WholeRole, TypeOK, Put

\* A request that goes on keeps what it is and what it has read.
LEMMA Advanced ==
    ASSUME TypeOK, NEW s \in Stations, request[s].op # "none",
           NEW at \in {"redeem", "log", "mint", "reread", "update"}, NEW id \in Nat,
           NEW tries \in 0..3
    PROVE  LET r == [request[s] EXCEPT !.at = at, !.id = id, !.tries = tries]
           IN  /\ r \in Request
               /\ r.at = at /\ r.id = id /\ r.op = request[s].op
               /\ r.visit = request[s].visit /\ r.seen = request[s].seen
               /\ r.role = request[s].role
  BY Busy DEF Request
-----------------------------------------------------------------------------
(* The actions.                                                            *)

\* A request ends and has changed neither log, codes nor roles.
LEMMA ReturnStep ==
    ASSUME DoorInv, NEW s \in Stations, Return(s), UNCHANGED <<attendee, log>>,
           redeemed \subseteq redeemed', redeemed' \subseteq Visit, hooks' \subseteq Visit,
           screen' \in [Stations -> Screen \cup {Blank}],
           begun' \in 0..MaxRequests, lost' \in 0..MaxLost
    PROVE  DoorInv'
  <1>1. Put(s, Idle) /\ TypeOK /\ LogInv /\ CodeInv /\ RoleInv
    BY Parts DEF Return, Put
  <1>2. TypeOK'
    BY <1>1 DEF TypeOK, Put
  <1>3. LogInv'
    BY <1>1, LogsKept, IdleIsHarmless
  <1>4. CodeInv'
    BY <1>1, CodesKept, IdleIsHarmless
  <1>5. RoleInv'
    BY <1>1, RolesKept, IdleIsHarmless
  <1>6. QED
    BY <1>2, <1>3, <1>4, <1>5 DEF DoorInv, LogInv, CodeInv, RoleInv

LEMMA ShownScreens ==
    ASSUME TypeOK, NEW s \in Stations, request[s].visit \in Visit,
           NEW kind \in {"lost", "already"}, UNCHANGED screen \/ Show(s, kind)
    PROVE  screen' \in [Stations -> Screen \cup {Blank}]
  BY DEF TypeOK, Show, Screen

LEMMA RedeemStep ==
    ASSUME DoorInv, NEW s \in Stations, Redeem(s)
    PROVE  DoorInv'
  <1> DEFINE v == request[s].visit
  <1>1. /\ TypeOK /\ LogInv /\ CodeInv /\ RoleInv /\ request[s] \in Request /\ v \in Visit
        /\ request[s].op \in {"checkin", "api"}
    BY Parts, Busy DEF Redeem
  <1>2. UNCHANGED <<attendee, log, begun>> /\ begun \in 0..MaxRequests
        /\ redeemed \subseteq Visit /\ hooks \subseteq Visit /\ lost \in 0..MaxLost
    BY <1>1 DEF Redeem, TypeOK
  <1>3. screen' \in [Stations -> Screen \cup {Blank}]
    BY <1>1, ShownScreens DEF Redeem, Name
  <1>4. ASSUME Accepts(v), Accept(v), request' = [request EXCEPT ![s].at = "log"],
               UNCHANGED lost
        PROVE  DoorInv'
    <2> DEFINE r == [request[s] EXCEPT !.at = "log"]
    <2>1. /\ r \in Request /\ r.at = "log" /\ r.op = request[s].op /\ r.visit = v
          /\ r.seen = request[s].seen /\ r.role = request[s].role
      BY <1>1 DEF Request
    <2>2. Put(s, r)
      BY <1>4 DEF Put
    <2> HIDE DEF r
    <2>3. /\ v \notin redeemed /\ redeemed' = redeemed \cup {v} /\ redeemed' \subseteq Visit
          /\ hooks' \subseteq Visit
      BY <1>1, <1>2, <1>4 DEF Accepts, Accept
    <2>4. TypeOK'
      BY <1>1, <1>2, <1>3, <1>4, <2>1, <2>2, <2>3 DEF TypeOK, Put
    <2>5. LogInv'
      BY <1>1, <1>2, <2>1, <2>2, <2>3, LogsGranted
    <2>6. CodeInv'
      BY <1>1, <1>2, <2>1, <2>2, CodesKept
    <2>7. RoleInv'
      BY <1>1, <1>2, <2>1, <2>2, RolesKept
    <2>8. QED
      BY <2>4, <2>5, <2>6, <2>7 DEF DoorInv, LogInv, CodeInv, RoleInv
  <1>5. ASSUME Return(s), Accept(v) \/ UNCHANGED <<redeemed, hooks>>, lost' \in 0..MaxLost
        PROVE  DoorInv'
    <2>1. redeemed \subseteq redeemed' /\ redeemed' \subseteq Visit /\ hooks' \subseteq Visit
      BY <1>1, <1>2, <1>5 DEF Accept
    <2>2. QED
      BY <1>1, <1>2, <1>3, <1>5, <2>1, ReturnStep
  <1>6. lost < MaxLost => lost + 1 \in 0..MaxLost
    BY <1>2, DoorBounds
  <1>7. QED
    BY <1>2, <1>4, <1>5, <1>6 DEF Redeem

\* A row is appended; the request goes on to mint, or ends.
LEMMA AppendStep ==
    ASSUME DoorInv, NEW s \in Stations, NEW by \in {"door", "api", "hook"},
           NEW reprint \in BOOLEAN, WriteLog(s, by, reprint), ThenMint(s) \/ Return(s),
           request[s].op # "none", request[s].at = "log",
           by = "hook" \/ reprint \/ request[s].op \in {"checkin", "api"},
           UNCHANGED <<attendee, redeemed, screen, begun>>, hooks' \subseteq Visit,
           lost' \in 0..MaxLost
    PROVE  DoorInv'
  <1> DEFINE row == [visit |-> request[s].visit, by |-> by, reprint |-> reprint,
                     handed |-> FALSE, code |-> NoCode]
  <1>1. /\ TypeOK /\ LogInv /\ CodeInv /\ RoleInv /\ request[s] \in Request
        /\ request[s].visit \in Visit
    BY Parts, Busy
  <1>2. row \in Log /\ Appends(row)
    BY <1>1 DEF Log, Appends, WriteLog
  <1>3. row.visit = request[s].visit /\ row.by = by /\ (row.reprint <=> reprint)
    OBVIOUS
  <1>4. Len(log) + 1 \in Nat
    BY <1>1 DEF TypeOK
  <1> HIDE DEF row
  <1>5. PICK r \in Request \cup {Idle} :
           /\ Put(s, r)
           /\ \/ r.op = "none" /\ Harmless(r)
              \/ /\ r.at = "mint" /\ r.id = Len(log) + 1 /\ r.op = request[s].op
                 /\ r.visit = request[s].visit /\ r.seen = request[s].seen
                 /\ r.role = request[s].role
    <2>1. CASE Return(s)
      BY <2>1, IdleIsHarmless DEF Return, Put
    <2>2. CASE ThenMint(s)
      <3> DEFINE r == [request[s] EXCEPT !.at = "mint", !.id = Len(log) + 1]
      <3>1. /\ r \in Request /\ r.at = "mint" /\ r.id = Len(log) + 1 /\ r.op = request[s].op
            /\ r.visit = request[s].visit /\ r.seen = request[s].seen
            /\ r.role = request[s].role
        BY <1>1, <1>4 DEF Request
      <3>2. Put(s, r)
        BY <2>2 DEF ThenMint, Put
      <3> HIDE DEF r
      <3>3. QED
        BY <3>1, <3>2
    <2>3. QED
      BY <2>1, <2>2
  <1>6. TypeOK'
    <2>1. log' \in Seq(Log)
      BY <1>1, <1>2, RowIs
    <2>2. QED
      BY <1>1, <1>5, <2>1 DEF TypeOK, Put
  <1>7. LogInv'
    BY <1>1, <1>2, <1>3, <1>5, LogsAppended
  <1>8. CodeInv'
    BY <1>1, <1>2, <1>5, CodesKept
  <1>9. RoleInv'
    BY <1>1, <1>5, RolesKept
  <1>10. QED
    BY <1>6, <1>7, <1>8, <1>9 DEF DoorInv, LogInv, CodeInv, RoleInv

LEMMA LogStep ==
    ASSUME DoorInv, NEW s \in Stations, LogCheckIn(s) \/ LogReprint(s) \/ HookLog(s)
    PROVE  DoorInv'
  <1>1. /\ TypeOK /\ hooks \subseteq Visit /\ lost \in 0..MaxLost
        /\ (lost < MaxLost => lost + 1 \in 0..MaxLost)
    BY DoorBounds DEF DoorInv, TypeOK
  <1>2. CASE LogCheckIn(s)
    BY <1>1, <1>2, AppendStep DEF LogCheckIn, At
  <1>3. CASE LogReprint(s)
    BY <1>1, <1>3, AppendStep DEF LogReprint, At
  <1>4. CASE HookLog(s)
    <2>1. request[s].op = "hook" /\ request[s].at = "log"
      BY <1>4 DEF HookLog, At
    <2>2. request[s].visit \in Visit /\ request[s].prior \in BOOLEAN
      BY <1>1, <2>1, Busy DEF Request
    <2>3. /\ WriteLog(s, "hook", request[s].prior) /\ Return(s)
          /\ UNCHANGED <<attendee, redeemed, screen, begun>>
          /\ hooks' \subseteq Visit /\ lost' \in 0..MaxLost
      BY <1>1, <1>4, <2>2 DEF HookLog
    <2>4. QED
      BY <2>1, <2>2, <2>3, AppendStep
  <1>5. QED
    BY <1>2, <1>3, <1>4

\* A badge is handed over with the code its order has, or gets now.
LEMMA HandStep ==
    ASSUME DoorInv, NEW s \in Stations, NEW c \in Codes \cup {NoCode}, Hand(s, c),
           request[s].at \in {"mint", "reread"},
           \/ UNCHANGED attendee /\ (c # NoCode => attendee[Order(s)].code = c)
           \/ /\ c \in Codes /\ Codeless(Order(s)) /\ ~Taken(c)
              /\ attendee' = [attendee EXCEPT ![Order(s)].code = c],
           UNCHANGED <<redeemed, hooks, screen, begun, lost>>
    PROVE  DoorInv'
  <1>1. TypeOK /\ LogInv /\ CodeInv /\ RoleInv /\ Order(s) \in Orders
    BY Parts, Busy
  <1>2. log' \in Seq(Log) /\ Put(s, Idle)
    BY <1>1, HandIs
  <1>3. /\ attendee' \in [Orders -> Attendee]
        /\ \A o \in Orders : attendee'[o].role = attendee[o].role
    BY <1>1 DEF TypeOK, Attendee
  <1>4. TypeOK'
    BY <1>1, <1>2, <1>3 DEF TypeOK, Put
  <1>5. LogInv'
    BY <1>1, LogsHanded
  <1>6. CodeInv'
    <2>1. CASE UNCHANGED attendee /\ (c # NoCode => attendee[Order(s)].code = c)
      BY <1>1, <2>1, CodesHanded
    <2>2. CASE /\ c \in Codes /\ Codeless(Order(s)) /\ ~Taken(c)
               /\ attendee' = [attendee EXCEPT ![Order(s)].code = c]
      <3>1. \A o \in Orders : attendee'[o].code = IF o = Order(s) THEN c ELSE attendee[o].code
        BY <1>1, <2>2 DEF TypeOK, Attendee
      <3>2. QED
        BY <1>1, <2>2, <3>1, CodeMinted
    <2>3. QED
      BY <2>1, <2>2
  <1>7. RoleInv'
    BY <1>1, <1>2, <1>3, RolesKept, IdleIsHarmless
  <1>8. QED
    BY <1>4, <1>5, <1>6, <1>7 DEF DoorInv, LogInv, CodeInv, RoleInv

\* Nobody's code was won in this round: the request reads again, or tries again.
LEMMA AgainStep ==
    ASSUME DoorInv, NEW s \in Stations, request[s].at \in {"mint", "reread"},
           NEW r \in Request, Put(s, r), r.at \in {"mint", "reread"},
           r.op = request[s].op, r.visit = request[s].visit, r.id = request[s].id,
           r.seen = request[s].seen, r.role = request[s].role,
           UNCHANGED <<attendee, log, redeemed, hooks, screen, begun, lost>>
    PROVE  DoorInv'
  <1>1. /\ TypeOK /\ LogInv /\ CodeInv /\ RoleInv /\ request[s] \in Request
        /\ request[s].op # "none"
    BY Parts, Busy DEF Request
  <1>2. TypeOK'
    BY <1>1 DEF TypeOK, Put
  <1>3. LogInv'
    BY <1>1, LogsKept
  <1>4. CodeInv'
    BY <1>1, CodesKept
  <1>5. RoleInv'
    BY <1>1, RolesKept
  <1>6. QED
    BY <1>2, <1>3, <1>4, <1>5 DEF DoorInv, LogInv, CodeInv, RoleInv
\* A request that may still draw a code has a try left for it.
TriesInv ==
    \A s \in Stations :
        /\ request[s].at \in {"redeem", "log", "update"} => request[s].tries = 0
        /\ request[s].at = "mint" => request[s].tries \in 0..2

\* The count starts at zero, and grows only when a draw fails.
LEMMA TriesStep ==
    ASSUME TypeOK, TriesInv, [DoorNext]_doorVars
    PROVE  TriesInv'
  <1>1. ASSUME NEW s \in Stations, NEW r \in Request \cup {Idle}, Put(s, r),
               r.at \in {"redeem", "log", "update"} => r.tries = 0,
               r.at = "mint" => r.tries \in 0..2
        PROVE  TriesInv'
    BY <1>1 DEF TriesInv, TypeOK, Put
  <1>2. CASE UNCHANGED request
    BY <1>2 DEF TriesInv
  <1>3. ASSUME NEW s \in Stations, Return(s)
        PROVE  TriesInv'
    BY <1>1, <1>3, IdleIsHarmless DEF Return, Put
  <1>4. ASSUME NEW s \in Stations, ThenMint(s), request[s].at = "log"
        PROVE  TriesInv'
    <2> DEFINE r == [request[s] EXCEPT !.at = "mint", !.id = Len(log) + 1]
    <2>1. request[s] \in Request /\ request[s].tries = 0
      BY <1>4, Busy DEF TriesInv
    <2>2. Len(log) + 1 \in Nat
      BY DEF TypeOK
    <2>3. r \in Request /\ r.at = "mint" /\ r.tries = 0
      BY <2>1, <2>2 DEF Request
    <2>4. Put(s, r)
      BY <1>4 DEF ThenMint, Put
    <2> HIDE DEF r
    <2>5. QED
      BY <1>1, <2>3, <2>4
  <1>5. ASSUME NEW s \in Stations, Redeem(s)
        PROVE  TriesInv'
    <2> DEFINE r == [request[s] EXCEPT !.at = "log"]
    <2>1. request[s] \in Request /\ request[s].tries = 0
      BY <1>5, Busy DEF TriesInv, Redeem
    <2>2. r \in Request /\ r.at = "log" /\ r.tries = 0
      BY <2>1 DEF Request
    <2>3. Return(s) \/ Put(s, r)
      BY <1>5 DEF Redeem, Put
    <2> HIDE DEF r
    <2>4. QED
      BY <1>1, <1>3, <2>2, <2>3
  <1>6. ASSUME NEW s \in Stations, MintCode(s)
        PROVE  TriesInv'
    <2> DEFINE r == [request[s] EXCEPT !.at = "reread", !.tries = @ + 1]
    <2>1. request[s] \in Request /\ request[s].tries + 1 \in 0..3
      BY <1>6, Busy DEF TriesInv, MintCode
    <2>2. r \in Request /\ r.at = "reread"
      BY <2>1 DEF Request
    <2>3. Return(s) \/ Put(s, r)
      BY <1>6 DEF MintCode, Hand, Put
    <2> HIDE DEF r
    <2>4. QED
      BY <1>1, <1>3, <2>2, <2>3
  <1>7. ASSUME NEW s \in Stations, RereadCode(s)
        PROVE  TriesInv'
    <2> DEFINE r == [request[s] EXCEPT !.at = "mint"]
    <2>1. request[s] \in Request
      BY <1>7, Busy DEF RereadCode
    <2>2. CASE request[s].tries # 3
      <3>1. r \in Request /\ r.at = "mint" /\ r.tries \in 0..2
        BY <2>1, <2>2 DEF Request
      <3>2. Return(s) \/ Put(s, r)
        BY <1>7 DEF RereadCode, Hand, Put
      <3> HIDE DEF r
      <3>3. QED
        BY <1>1, <1>3, <3>1, <3>2
    <2>3. CASE request[s].tries = 3
      BY <1>3, <1>7, <2>3 DEF RereadCode, Hand
    <2>4. QED
      BY <2>2, <2>3
  <1>8. ASSUME NEW s \in Stations,
               \/ KeepCode(s) \/ MintFails(s) \/ WriteCorrection(s) \/ HookLog(s) \/ Lose(s)
               \/ LogCheckIn(s) \/ LogReprint(s)
        PROVE  TriesInv'
    BY <1>3, <1>4, <1>8
    DEF KeepCode, MintFails, Hand, WriteCorrection, HookLog, Lose, LogCheckIn, LogReprint, At
  <1>9. ASSUME NEW s \in Stations,
               \/ Retry(s) \/ ConfirmReprint(s)
               \/ \E v \in Visit : CheckInByCode(s, v) \/ ApiCheckIn(s, v)
                                   \/ ReprintRecent(s, v) \/ HookRead(s, v)
               \/ \E i \in DOMAIN log, l \in Lists : CheckInByBadge(s, i, l)
               \/ \E o \in Orders, p \in Patches : Correct(s, o, p)
         PROVE  TriesInv'
    <2>1. PICK r \in Request : Put(s, r) /\ Harmless(r) /\ r.tries = 0
      BY <1>9, Starts DEF Begins
    <2>2. QED
      BY <1>1, <2>1 DEF Harmless
  <1>10. CASE \E v \in Visit : PretixScan(v) \/ HookIgnored(v)
    BY <1>2, <1>10 DEF PretixScan, HookIgnored
  <1>11. CASE (\E o \in Orders : Cancel(o)) \/ UNCHANGED doorVars
    BY <1>2, <1>11 DEF Cancel, doorVars
  <1>12. QED
    BY <1>5, <1>6, <1>7, <1>8, <1>9, <1>10, <1>11 DEF DoorNext, Serve

LEMMA MintStep ==
    ASSUME DoorInv, TriesInv, NEW s \in Stations,
           KeepCode(s) \/ MintCode(s) \/ RereadCode(s) \/ MintFails(s)
    PROVE  DoorInv'
  <1>1. request[s].at \in {"mint", "reread"}
    BY DEF KeepCode, MintCode, RereadCode, MintFails
  <1>2. /\ TypeOK /\ request[s] \in Request /\ Order(s) \in Orders /\ request[s].op # "none"
        /\ request[s].visit \in Visit
    BY <1>1, Parts, Busy DEF Request
  <1>3. /\ request[s].seen.code \in Codes \cup {NoCode}
        /\ attendee[Order(s)].code \in Codes \cup {NoCode}
    BY <1>2 DEF Request, Attendee, TypeOK
  <1>4. CASE KeepCode(s)
    <2>1. attendee[Order(s)].code = request[s].seen.code
      BY <1>2, <1>4, Parts DEF KeepCode, CodeInv, FirmCode
    <2>2. QED
      BY <1>1, <1>3, <1>4, <2>1, HandStep DEF KeepCode
  <1>5. CASE MintCode(s)
    <2>1. PICK c \in Codes :
             \/ /\ ~Taken(c) /\ Codeless(Order(s))
                /\ attendee' = [attendee EXCEPT ![Order(s)].code = c]
                /\ Hand(s, c)
             \/ /\ request' = [request EXCEPT ![s].at = "reread", ![s].tries = @ + 1]
                /\ UNCHANGED <<attendee, log>>
      BY <1>5 DEF MintCode
    <2>2. UNCHANGED <<redeemed, hooks, screen, begun, lost>>
      BY <1>5 DEF MintCode
    <2>3. CASE ~Taken(c) /\ Codeless(Order(s)) /\ Hand(s, c)
               /\ attendee' = [attendee EXCEPT ![Order(s)].code = c]
      BY <1>1, <2>2, <2>3, HandStep
    <2>4. CASE /\ request' = [request EXCEPT ![s].at = "reread", ![s].tries = @ + 1]
               /\ UNCHANGED <<attendee, log>>
      <3> DEFINE r == [request[s] EXCEPT !.at = "reread", !.tries = @ + 1]
      <3>1. request[s].tries + 1 \in 0..3
        BY <1>5 DEF TriesInv, MintCode
      <3>2. /\ r \in Request /\ r.at = "reread" /\ r.op = request[s].op
            /\ r.visit = request[s].visit /\ r.id = request[s].id
            /\ r.seen = request[s].seen /\ r.role = request[s].role
        BY <1>2, <3>1 DEF Request
      <3>3. Put(s, r)
        BY <2>4 DEF Put
      <3> HIDE DEF r
      <3>4. QED
        BY <1>1, <2>2, <2>4, <3>2, <3>3, AgainStep
    <2>5. QED
      BY <2>1, <2>3, <2>4
  <1>6. CASE RereadCode(s)
    <2> DEFINE c == attendee[Order(s)].code
    <2>1. CASE Hand(s, c)
      BY <1>1, <1>3, <1>6, <2>1, HandStep DEF RereadCode
    <2>2. CASE request' = [request EXCEPT ![s].at = "mint"] /\ UNCHANGED log
      <3> DEFINE r == [request[s] EXCEPT !.at = "mint"]
      <3>1. /\ r \in Request /\ r.at = "mint" /\ r.op = request[s].op
            /\ r.visit = request[s].visit /\ r.id = request[s].id
            /\ r.seen = request[s].seen /\ r.role = request[s].role
        BY <1>2 DEF Request
      <3>2. Put(s, r)
        BY <2>2 DEF Put
      <3> HIDE DEF r
      <3>3. QED
        BY <1>1, <1>6, <2>2, <3>1, <3>2, AgainStep DEF RereadCode
    <2>3. QED
      BY <1>6, <2>1, <2>2 DEF RereadCode
  <1>7. CASE MintFails(s)
    BY <1>1, <1>7, HandStep DEF MintFails
  <1>8. QED
    BY <1>4, <1>5, <1>6, <1>7

LEMMA LoseStep ==
    ASSUME DoorInv, NEW s \in Stations, Lose(s)
    PROVE  DoorInv'
  <1>1. /\ TypeOK /\ request[s].visit \in Visit /\ request[s].op # "none"
    BY Parts, Busy DEF Lose
  <1>2. /\ Return(s) /\ UNCHANGED <<attendee, redeemed, hooks, log, begun>>
        /\ redeemed \subseteq Visit /\ hooks \subseteq Visit /\ begun \in 0..MaxRequests
        /\ lost' \in 0..MaxLost
    BY <1>1, DoorBounds DEF Lose, TypeOK
  <1>3. screen' \in [Stations -> Screen \cup {Blank}]
    BY <1>1, ShownScreens DEF Lose
  <1>4. QED
    BY <1>2, <1>3, ReturnStep

LEMMA CorrectionStep ==
    ASSUME DoorInv, NEW s \in Stations, WriteCorrection(s)
    PROVE  DoorInv'
  <1>1. request[s].op = "correct" /\ request[s].at = "update"
    BY DEF WriteCorrection, At
  <1>2. /\ TypeOK /\ LogInv /\ CodeInv /\ RoleInv /\ request[s] \in Request
        /\ Order(s) \in Orders
    BY <1>1, Parts, Busy
  <1>3. /\ Put(s, Idle) /\ UNCHANGED <<redeemed, hooks, log, screen, begun, lost>>
        /\ attendee' = [attendee EXCEPT ![Order(s)].role = request[s].role]
    BY DEF WriteCorrection, Return, Put
  <1>4. request[s].role \in Role
    BY <1>2 DEF Request
  <1>5. attendee' \in [Orders -> Attendee]
    BY <1>2, <1>3, <1>4 DEF TypeOK, Attendee
  <1>6. \A o \in Orders : /\ attendee'[o].code = attendee[o].code
                          /\ \/ attendee'[o].role = attendee[o].role
                             \/ attendee'[o].role = request[s].role
    BY <1>2, <1>3 DEF TypeOK, Attendee
  <1>7. TypeOK'
    BY <1>2, <1>3, <1>5 DEF TypeOK, Put
  <1>8. LogInv'
    BY <1>2, <1>3, LogsKept, IdleIsHarmless
  <1>9. CodeInv'
    BY <1>2, <1>3, <1>6, CodesKept, IdleIsHarmless
  <1>10. RoleInv'
    BY <1>1, <1>2, <1>3, <1>6, RolesKept, IdleIsHarmless
  <1>11. QED
    BY <1>7, <1>8, <1>9, <1>10 DEF DoorInv, LogInv, CodeInv, RoleInv

\* What happens outside the requests.
LEMMA OutsideStep ==
    ASSUME DoorInv, UNCHANGED <<request, log, screen, lost>>,
           redeemed \subseteq redeemed', redeemed' \subseteq Visit, hooks' \subseteq Visit,
           begun' \in 0..MaxRequests, attendee' \in [Orders -> Attendee],
           \A o \in Orders : attendee'[o].code = attendee[o].code
                             /\ attendee'[o].role = attendee[o].role
    PROVE  DoorInv'
  <1>1. TypeOK /\ LogInv /\ CodeInv /\ RoleInv
    BY Parts
  <1>2. TypeOK'
    BY <1>1 DEF TypeOK
  <1>3. LogInv'
    BY <1>1 DEF LogInv, FirstPrintOnce, DueOnce, OwnRow
  <1>4. CodeInv'
    <2>1. OneBadgeCode'
      BY <1>1, RowsOfOrders DEF CodeInv, OneBadgeCode
    <2>2. ASSUME NEW t \in Stations
          PROVE  FirmCode(t)'
      <3>1. request[t].op # "none" => Order(t) \in Orders
        BY <1>1, Busy
      <3>2. QED
        BY <1>1, <3>1 DEF CodeInv, FirmCode, Order
    <2>3. QED
      BY <2>1, <2>2 DEF CodeInv
  <1>5. RoleInv'
    BY <1>1 DEF RoleInv, LabelOnlyForOther, WholeRole
  <1>6. QED
    BY <1>2, <1>3, <1>4, <1>5 DEF DoorInv, LogInv, CodeInv, RoleInv

LEMMA DoorStep == DoorInv /\ TriesInv /\ [DoorNext]_doorVars => DoorInv'
  <1> SUFFICES ASSUME DoorInv, TriesInv, [DoorNext]_doorVars PROVE DoorInv'
    OBVIOUS
  <1>1. /\ TypeOK /\ redeemed \subseteq Visit /\ hooks \subseteq Visit
        /\ begun \in 0..MaxRequests /\ attendee \in [Orders -> Attendee]
    BY DEF DoorInv, TypeOK
  <1>2. ASSUME NEW s \in Stations, Serve(s) \/ MintFails(s) \/ Lose(s)
        PROVE  DoorInv'
    BY <1>2, RedeemStep, LogStep, MintStep, CorrectionStep, LoseStep DEF Serve
  <1>3. ASSUME NEW s \in Stations,
               \/ Retry(s) \/ ConfirmReprint(s)
               \/ \E v \in Visit : CheckInByCode(s, v) \/ ApiCheckIn(s, v)
                                   \/ ReprintRecent(s, v) \/ HookRead(s, v)
               \/ \E i \in DOMAIN log, l \in Lists : CheckInByBadge(s, i, l)
               \/ \E o \in Orders, p \in Patches : Correct(s, o, p)
        PROVE  DoorInv'
    BY <1>1, <1>3, Starts, BeginStep
  <1>4. ASSUME NEW v \in Visit, PretixScan(v)
        PROVE  DoorInv'
    <2>1. /\ redeemed' = redeemed \cup {v} /\ hooks' \subseteq Visit
          /\ begun' \in 0..MaxRequests /\ UNCHANGED <<attendee, log, request, screen, lost>>
      BY <1>1, <1>4, DoorBounds DEF PretixScan, Accept
    <2>2. QED
      BY <1>1, <2>1, OutsideStep
  <1>5. ASSUME NEW v \in Visit, HookIgnored(v)
        PROVE  DoorInv'
    BY <1>1, <1>5, OutsideStep DEF HookIgnored
  <1>6. ASSUME NEW o \in Orders, Cancel(o)
        PROVE  DoorInv'
    <2>1. /\ attendee' \in [Orders -> Attendee]
          /\ \A p \in Orders : attendee'[p].code = attendee[p].code
                               /\ attendee'[p].role = attendee[p].role
      BY <1>1, <1>6 DEF Cancel, Attendee
    <2>2. QED
      BY <1>1, <1>6, <2>1, OutsideStep DEF Cancel
  <1>7. CASE UNCHANGED doorVars
    BY <1>1, <1>7, OutsideStep DEF doorVars
  <1>8. QED
    BY <1>2, <1>3, <1>4, <1>5, <1>6, <1>7 DEF DoorNext

\* Whatever stations race, retry or lose: a badge's code stays its order's and no
\* other's, a visit has one first row, which pretix granted, and a fixed role no
\* text (ensureBadgeSlug, checkInResolvedOrder, updateAttendeeDetails).
THEOREM DoorIsSafe == DoorSpec => []DoorInv
  <1>1. DoorInit => TriesInv
    BY DEF DoorInit, TriesInv, Idle
  <1>2. DoorInv /\ TriesInv /\ [DoorNext]_doorVars => TriesInv'
    BY TriesStep DEF DoorInv
  <1>3. QED
    BY InitHolds, DoorStep, <1>1, <1>2, PTL DEF DoorSpec

-----------------------------------------------------------------------------
(* The camera *)

Effect == [at : {"import", "list", "start", "live", "ended"}, stopped : BOOLEAN,
           wants : ToSet(Cameras) \cup {NoCamera}, cam : ToSet(Cameras) \cup {NoCamera},
           stream : {"none", "open", "closing"}]

\* What an effect is, and what it knows while nothing has cleaned it up.
EffectOK(k) ==
    LET f == effects[k] IN
    /\ f.stream = "open" => f.at = "live" /\ ~f.stopped
    /\ ~f.stopped => k = Len(effects) /\ f.wants = saved
    /\ ~f.stopped /\ f.at \in {"start", "live"} => f.cam = PickCamera(saved, cameras)
    /\ ~f.stopped /\ f.at = "live" => fault = "none"

CameraInv == /\ ScannerInv /\ effects \in Seq(Effect)
             /\ saved \in ToSet(Cameras) \cup {NoCamera}
             /\ \A k \in DOMAIN effects : EffectOK(k)

USE ScannerAssumption

\* Some place has the best label, and one of those comes first.
LEMMA FirstOfTheBest ==
    ASSUME NEW found, found \subseteq ToSet(Cameras), found # {}
    PROVE  Min(Best(found)) \in Best(found)
  <1>1. IsWellFoundedOn(OpToRel(<, Nat), Nat)
    BY NatLessThanWellFounded
  <1> DEFINE R == OpToRel(<, Nat)
  <1>2. \A x, y \in Nat : x < y => <<x, y>> \in R
    BY DEF OpToRel
  <1> HIDE DEF R
  <1>3. \A c \in found : Score[c] \in 0..2
    BY DEF ToSet
  <1>4. PICK c \in found : \A d \in found : Score[d] <= Score[c]
    <2> DEFINE T == {2 - Score[d] : d \in found}
    <2>1. T \subseteq Nat /\ T # {}
      <3>1. \A d \in found : 2 - Score[d] \in Nat
        BY <1>3
      <3>. QED
        BY <3>1
    <2>2. PICK x \in T : \A y \in T : ~ (<<y, x>> \in R)
      <3> HIDE DEF T
      <3>. QED
        BY <1>1, <2>1, WFMin DEF R
    <2>3. PICK c \in found : x = 2 - Score[c]
      OBVIOUS
    <2>4. ASSUME NEW d \in found PROVE Score[d] <= Score[c]
      <3>1. /\ 2 - Score[d] \in T /\ 2 - Score[d] \in Nat /\ 2 - Score[c] \in Nat
            /\ Score[d] \in Int /\ Score[c] \in Int
        BY <1>3
      <3>2. ~ (2 - Score[d] < 2 - Score[c])
        BY <1>2, <2>2, <2>3, <3>1
      <3>. QED
        BY <3>1, <3>2
    <2>. QED
      BY <2>4
  <1>5. PICK i \in DOMAIN Cameras : Cameras[i] = c
    BY DEF ToSet
  <1>6. i \in Best(found)
    BY <1>4, <1>5 DEF Best
  <1>7. Best(found) \subseteq Nat
    BY DEF Best
  <1>8. PICK m \in Best(found) : \A y \in Best(found) : ~ (<<y, m>> \in R)
    BY <1>1, <1>6, <1>7, WFMin DEF R
  <1>9. ASSUME NEW y \in Best(found) PROVE m <= y
    <2>1. y \in Nat /\ m \in Nat /\ ~ (<<y, m>> \in R)
      BY <1>7, <1>8
    <2>2. ~ (y < m)
      BY <1>2, <2>1
    <2>. QED
      BY <2>1, <2>2
  <1>. QED
    BY <1>9 DEF Min

\* The camera that is picked is listed: the operator's, or none looks better.
LEMMA PickIsRight ==
    ASSUME NEW kept \in ToSet(Cameras) \cup {NoCamera},
           NEW found, found \subseteq ToSet(Cameras), found # {}
    PROVE  /\ PickCamera(kept, found) \in found
           /\ kept \in found => PickCamera(kept, found) = kept
           /\ kept \notin found => \A c \in found : Score[c] <= Score[PickCamera(kept, found)]
  <1>1. Min(Best(found)) \in Best(found)
    BY FirstOfTheBest
  <1>2. CASE kept \in found
    BY <1>2 DEF PickCamera
  <1>3. CASE kept \notin found
    BY <1>1, <1>3 DEF PickCamera, Best
  <1>. QED
    BY <1>2, <1>3

LEMMA EffectFields ==
    ASSUME CameraInv, NEW k \in DOMAIN effects
    PROVE  /\ effects[k] \in Effect /\ EffectOK(k) /\ k \in 1..Len(effects)
           /\ Len(effects) \in Nat
           /\ effects[k].stopped \in BOOLEAN
           /\ effects[k].wants \in ToSet(Cameras) \cup {NoCamera}
           /\ effects[k].cam \in ToSet(Cameras) \cup {NoCamera}
           /\ effects[k].stream \in {"none", "open", "closing"}
           /\ effects[k].at \in {"import", "list", "start", "live", "ended"}
  <1>1. effects \in Seq(Effect) /\ EffectOK(k)
    BY DEF CameraInv
  <1>2. effects[k] \in Effect /\ k \in 1..Len(effects) /\ Len(effects) \in Nat
    BY <1>1
  <1>. QED
    BY <1>1, <1>2 DEF Effect

LEMMA CleanupStopsAll ==
    ASSUME CameraInv
    PROVE  /\ Cleanup(effects) \in Seq(Effect) /\ Len(Cleanup(effects)) = Len(effects)
           /\ DOMAIN Cleanup(effects) = DOMAIN effects
           /\ \A k \in DOMAIN effects : /\ Cleanup(effects)[k].stopped
                                        /\ Cleanup(effects)[k].stream # "open"
  <1>1. ASSUME NEW k \in DOMAIN effects
        PROVE  LET f == IF effects[k].stopped THEN effects[k] ELSE Cleaned(effects[k])
               IN  f \in Effect /\ f.stopped /\ f.stream # "open"
    <2>1. effects[k] \in Effect /\ EffectOK(k)
      BY EffectFields
    <2>2. CASE effects[k].stopped
      BY <2>1, <2>2 DEF EffectOK
    <2>3. CASE ~ effects[k].stopped
      BY <2>1, <2>3 DEF Cleaned, Effect
    <2>. QED
      BY <2>2, <2>3
  <1>2. effects \in Seq(Effect) /\ DOMAIN effects = 1..Len(effects) /\ Len(effects) \in Nat
    BY DEF CameraInv
  <1>3. /\ DOMAIN Cleanup(effects) = 1..Len(effects)
        /\ \A k \in 1..Len(effects) : Cleanup(effects)[k] \in Effect
        /\ Cleanup(effects) = [k \in 1..Len(effects) |-> Cleanup(effects)[k]]
    BY <1>1, <1>2 DEF Cleanup
  <1>4. Cleanup(effects) \in Seq(Effect) /\ Len(Cleanup(effects)) = Len(effects)
    BY <1>2, <1>3
  <1>5. \A k \in DOMAIN effects : /\ Cleanup(effects)[k].stopped
                                  /\ Cleanup(effects)[k].stream # "open"
    BY <1>1 DEF Cleanup
  <1>. QED
    BY <1>2, <1>3, <1>4, <1>5

\* A run of the effect ends; another may begin.
LEMMA RerunStep ==
    ASSUME CameraInv, saved' \in ToSet(Cameras) \cup {NoCamera},
           plugged' \subseteq ToSet(Cameras), Rerun, UNCHANGED <<cameras, fault>>
    PROVE  CameraInv'
  <1>1. /\ Cleanup(effects) \in Seq(Effect) /\ Len(Cleanup(effects)) = Len(effects)
        /\ \A k \in DOMAIN effects : /\ Cleanup(effects)[k].stopped
                                     /\ Cleanup(effects)[k].stream # "open"
    BY CleanupStopsAll
  <1>2. /\ NewEffect \in Effect /\ ~ NewEffect.stopped /\ NewEffect.wants = saved'
        /\ NewEffect.at = "import" /\ NewEffect.stream = "none"
    BY DEF NewEffect, Effect
  <1> DEFINE n == Len(effects)
  <1>3. /\ n \in Nat /\ DOMAIN effects = 1..n /\ n < MaxEffects
        /\ effects' = Append(Cleanup(effects), NewEffect)
    BY DEF CameraInv, Rerun, Current
  <1> HIDE DEF n, NewEffect
  <1>4. /\ effects' \in Seq(Effect) /\ Len(effects') = n + 1 /\ DOMAIN effects' = 1..(n + 1)
        /\ \A k \in 1..n : effects'[k] = Cleanup(effects)[k]
        /\ effects'[n + 1] = NewEffect
    BY <1>1, <1>2, <1>3 DEF n
  <1>5. \A k \in 1..n : effects'[k].stopped /\ effects'[k].stream # "open"
    BY <1>1, <1>3, <1>4
  <1>6. \A k \in DOMAIN effects' : EffectOK(k)'
    <2>1. ASSUME NEW k \in 1..n PROVE EffectOK(k)'
      <3>1. effects'[k].stopped = TRUE /\ effects'[k].stream # "open"
        <4>1. effects'[k] = Cleanup(effects)[k] /\ effects'[k] \in Effect
          BY <1>3, <1>4, <1>1
        <4>2. effects'[k].stopped \in BOOLEAN
          BY <4>1 DEF Effect
        <4>. QED
          BY <1>5, <4>2
      <3>. QED
        BY <3>1 DEF EffectOK
    <2>2. ASSUME NEW k, k = n + 1 PROVE EffectOK(k)'
      <3>1. /\ effects'[k].stopped = FALSE /\ effects'[k].wants = saved'
            /\ effects'[k].at = "import" /\ effects'[k].stream = "none"
            /\ k = Len(effects')
        <4>1. effects'[k] = NewEffect /\ k = Len(effects')
          BY <1>4, <2>2
        <4>2. NewEffect.stopped = FALSE
          BY <1>2 DEF Effect
        <4>. QED
          BY <1>2, <4>1, <4>2
      <3>. QED
        BY <3>1 DEF EffectOK
    <2>3. 1..(n + 1) = 1..n \cup {n + 1}
      BY <1>3
    <2>. QED
      BY <1>4, <2>1, <2>2, <2>3, Zenon
  <1>7. ScannerInv'
    <2>1. ScannerInv /\ n + 1 \in 1..MaxEffects
      BY <1>3 DEF CameraInv
    <2>2. \A k \in DOMAIN effects' : k < Len(effects') => effects'[k].stopped
      BY <1>3, <1>4, <1>5
    <2>. QED
      BY <1>4, <2>1, <2>2 DEF ScannerInv, Current
  <1>. QED
    BY <1>4, <1>6, <1>7 DEF CameraInv

\* One effect goes on: what the others know is left alone.
LEMMA BecomesStep ==
    ASSUME CameraInv, NEW k \in DOMAIN effects, NEW f \in Effect, Becomes(k, f),
           UNCHANGED <<plugged, saved>>,
           cameras' \subseteq ToSet(Cameras),
           fault' \in {"none", "missing", "unavailable"},
           effects[k].stopped => UNCHANGED <<cameras, fault>>,
           f.stopped = effects[k].stopped, f.wants = effects[k].wants,
           EffectOK(k)'
    PROVE  CameraInv'
  <1>1. effects \in Seq(Effect) /\ ScannerInv /\ \A i \in DOMAIN effects : EffectOK(i)
    BY DEF CameraInv
  <1>2. /\ effects' \in Seq(Effect) /\ Len(effects') = Len(effects)
        /\ DOMAIN effects' = DOMAIN effects /\ effects'[k] = f
        /\ \A i \in DOMAIN effects : i # k => effects'[i] = effects[i]
    <2>1. effects' = [effects EXCEPT ![k] = f] /\ k \in DOMAIN effects /\ f \in Effect
      BY DEF Becomes
    <2>2. DOMAIN effects = 1..Len(effects) /\ Len(effects) \in Nat
      BY <1>1
    <2>. QED
      BY <1>1, <2>1, <2>2
  <1>3. ASSUME NEW i \in DOMAIN effects PROVE EffectOK(i)'
    <2>1. CASE i = k
      <3>1. EffectOK(k)'
        OBVIOUS
      <3>. QED
        BY <2>1, <3>1, Zenon
    <2>2. CASE i # k
      <3>1. effects'[i] = effects[i] /\ Len(effects') = Len(effects) /\ saved' = saved
        BY <1>2, <2>2
      <3>2. EffectOK(i)
        BY <1>1
      <3>3. CASE effects[i].stopped
        BY <3>1, <3>2, <3>3 DEF EffectOK
      <3>4. CASE ~effects[i].stopped
        <4>1. i = Len(effects) /\ k # Len(effects)
          BY <2>2, <3>2, <3>4 DEF EffectOK
        <4>2. effects[k].stopped
          BY <1>1, <4>1 DEF EffectOK
        <4>3. cameras' = cameras /\ fault' = fault
          BY <4>2
        <4>. QED
          BY <3>1, <3>2, <4>3 DEF EffectOK
      <3>. QED
        BY <3>3, <3>4
    <2>. QED
      BY <2>1, <2>2
  <1>4. ScannerInv'
    <2>1. \A i \in DOMAIN effects' : i < Len(effects') => effects'[i].stopped
      BY <1>1, <1>2 DEF ScannerInv, Current
    <2>. QED
      BY <1>1, <1>2, <2>1 DEF ScannerInv, Current
  <1>5. saved' \in ToSet(Cameras) \cup {NoCamera} /\ \A i \in DOMAIN effects' : EffectOK(i)'
    BY <1>2, <1>3 DEF CameraInv
  <1>. QED
    BY <1>2, <1>4, <1>5 DEF CameraInv

\* A component unmounts: every effect is stopped, and none scans.
LEMMA UnmountStep ==
    ASSUME CameraInv, Unmount
    PROVE  CameraInv'
  <1>1. /\ Cleanup(effects) \in Seq(Effect) /\ Len(Cleanup(effects)) = Len(effects)
        /\ DOMAIN Cleanup(effects) = DOMAIN effects
        /\ \A k \in DOMAIN effects : /\ Cleanup(effects)[k].stopped
                                     /\ Cleanup(effects)[k].stream # "open"
    BY CleanupStopsAll
  <1>2. effects' = Cleanup(effects) /\ UNCHANGED <<plugged, saved, cameras, fault>>
    BY DEF Unmount
  <1>3. ASSUME NEW k \in DOMAIN effects PROVE effects'[k].stopped = TRUE /\ EffectOK(k)'
    <2>1. effects'[k].stopped \in BOOLEAN
      BY <1>1, <1>2 DEF Effect
    <2>2. effects'[k].stopped = TRUE /\ effects'[k].stream # "open"
      BY <1>1, <1>2, <2>1
    <2>. QED
      BY <2>2 DEF EffectOK
  <1>4. ScannerInv'
    BY <1>1, <1>2, <1>3 DEF CameraInv, ScannerInv, Current
  <1>. QED
    BY <1>1, <1>2, <1>3, <1>4 DEF CameraInv

\* How one effect goes on: to its end, to the list, to its camera, or released.
LEMMA OneEffectStep ==
    ASSUME CameraInv, NEW k \in DOMAIN effects,
           Throws(k) \/ LibraryReady(k) \/ Listed(k) \/ Started(k) \/ Closed(k)
    PROVE  CameraInv'
  <1>1. /\ effects[k] \in Effect /\ EffectOK(k) /\ k \in 1..Len(effects)
        /\ effects[k].stopped \in BOOLEAN
        /\ effects[k].wants \in ToSet(Cameras) \cup {NoCamera}
        /\ effects[k].cam \in ToSet(Cameras) \cup {NoCamera}
        /\ effects[k].stream \in {"none", "open", "closing"}
        /\ effects[k].at \in {"import", "list", "start", "live", "ended"}
        /\ Len(effects) \in Nat
    BY EffectFields
  <1>2. /\ effects \in Seq(Effect)
        /\ plugged \subseteq ToSet(Cameras) /\ cameras \subseteq ToSet(Cameras)
        /\ fault \in {"none", "missing", "unavailable"}
        /\ saved \in ToSet(Cameras) \cup {NoCamera}
    BY DEF CameraInv, ScannerInv
  <1>3. ASSUME NEW f, effects' = [effects EXCEPT ![k] = f]
        PROVE  effects'[k] = f /\ Len(effects') = Len(effects)
    BY <1>2, <1>3
  <1>4. ASSUME NEW f \in Effect, Becomes(k, f), f.stopped = effects[k].stopped,
               f.wants = effects[k].wants, UNCHANGED <<plugged, saved>>,
               cameras' \subseteq ToSet(Cameras),
               fault' \in {"none", "missing", "unavailable"},
               effects[k].stopped => UNCHANGED <<cameras, fault>>,
               f.stream = "open" => f.at = "live" /\ ~f.stopped,
               ~f.stopped /\ f.at \in {"start", "live"} => f.cam = PickCamera(saved', cameras'),
               ~f.stopped /\ f.at = "live" => fault' = "none"
        PROVE  CameraInv'
    <2>1. effects'[k] = f /\ Len(effects') = Len(effects)
      BY <1>3, <1>4 DEF Becomes
    <2>2. PickCamera(saved, cameras)' = PickCamera(saved', cameras')
      BY DEF PickCamera, Best
    <2>3. ~f.stopped => k = Len(effects') /\ f.wants = saved'
      BY <1>1, <1>4, <2>1 DEF EffectOK
    <2>4. EffectOK(k)'
      BY <1>4, <2>1, <2>2, <2>3 DEF EffectOK
    <2>. QED
      BY <1>4, <2>4, BecomesStep
  <1>5. CASE Throws(k)
    <2> DEFINE f == [effects[k] EXCEPT !.at = "ended"]
    <2>1. /\ f \in Effect /\ f.stopped = effects[k].stopped /\ f.wants = effects[k].wants
          /\ f.at = "ended" /\ f.stream # "open"
      BY <1>1, <1>5 DEF Throws, Effect, EffectOK
    <2>2. Becomes(k, f) /\ UNCHANGED <<plugged, saved, cameras>>
          /\ fault' = IF effects[k].stopped THEN fault ELSE "unavailable"
      BY <1>5 DEF Throws, End
    <2> HIDE DEF f
    <2>. QED
      BY <1>2, <1>4, <2>1, <2>2
  <1>6. CASE LibraryReady(k)
    <2>1. PICK at \in {"ended", "list"} :
              Becomes(k, [effects[k] EXCEPT !.at = at]) /\ UNCHANGED <<plugged, saved, cameras, fault>>
      BY <1>6 DEF LibraryReady, End
    <2> DEFINE f == [effects[k] EXCEPT !.at = at]
    <2>2. /\ f \in Effect /\ f.stopped = effects[k].stopped /\ f.wants = effects[k].wants
          /\ f.at \notin {"start", "live"} /\ f.stream # "open"
      BY <1>1, <1>6, <2>1 DEF LibraryReady, Effect, EffectOK
    <2> HIDE DEF f
    <2>3. Becomes(k, f)
      BY <2>1 DEF f
    <2>. QED
      BY <1>2, <1>4, <2>1, <2>2, <2>3
  <1>7. CASE Listed(k)
    <2> DEFINE chosen == PickCamera(effects[k].wants, plugged)
    <2>1. /\ effects[k].at = "list" /\ UNCHANGED <<plugged, saved>>
          /\ effects[k].stream # "open"
      BY <1>1, <1>7 DEF Listed, EffectOK
    <2>2. CASE \/ effects[k].stopped /\ End(k) /\ UNCHANGED <<cameras, fault>>
               \/ ~effects[k].stopped /\ End(k) /\ cameras' = plugged /\ fault' = "missing"
      <3> DEFINE f == [effects[k] EXCEPT !.at = "ended"]
      <3>1. /\ f \in Effect /\ f.stopped = effects[k].stopped /\ f.wants = effects[k].wants
            /\ f.at = "ended" /\ f.stream # "open"
        BY <1>1, <2>1 DEF Effect
      <3>2. Becomes(k, f)
        BY <2>2 DEF End
      <3> HIDE DEF f
      <3>. QED
        BY <1>2, <1>4, <2>1, <2>2, <3>1, <3>2
    <2>3. CASE /\ ~effects[k].stopped /\ cameras' = plugged /\ chosen # NoCamera
               /\ Becomes(k, [effects[k] EXCEPT !.at = "start", !.cam = chosen])
               /\ UNCHANGED fault
      <3> DEFINE f == [effects[k] EXCEPT !.at = "start", !.cam = chosen]
      <3>0. plugged # {}
        BY <2>3 DEF PickCamera
      <3>1. chosen \in ToSet(Cameras)
        BY <1>1, <1>2, <3>0, PickIsRight
      <3>2. chosen = PickCamera(saved', cameras')
        BY <1>1, <2>1, <2>3 DEF EffectOK
      <3> HIDE DEF chosen
      <3>3. /\ f \in Effect /\ f.stopped = effects[k].stopped /\ f.wants = effects[k].wants
            /\ f.at = "start" /\ f.stream # "open" /\ f.cam = chosen
        BY <1>1, <2>1, <3>1 DEF Effect
      <3>4. Becomes(k, f)
        BY <2>3
      <3> HIDE DEF f
      <3>. QED
        BY <1>2, <1>4, <2>1, <2>3, <3>2, <3>3, <3>4
    <2>4. \/ effects[k].stopped /\ End(k) /\ UNCHANGED <<cameras, fault>>
          \/ ~effects[k].stopped /\ End(k) /\ cameras' = plugged /\ fault' = "missing"
          \/ /\ ~effects[k].stopped /\ cameras' = plugged /\ chosen # NoCamera
             /\ Becomes(k, [effects[k] EXCEPT !.at = "start", !.cam = chosen])
             /\ UNCHANGED fault
      <3> HIDE DEF chosen
      <3>. QED
        BY <1>7 DEF Listed, chosen
    <2>. QED
      BY <2>2, <2>3, <2>4
  <1>8. CASE Started(k)
    <2> DEFINE f == Opened(effects[k])
    <2>1. /\ Becomes(k, f) /\ UNCHANGED <<plugged, saved, cameras>>
          /\ fault' = IF effects[k].stopped THEN fault ELSE "none"
          /\ effects[k].at = "start"
      BY <1>8 DEF Started
    <2>2. /\ f \in Effect /\ f.stopped = effects[k].stopped /\ f.wants = effects[k].wants
          /\ f.cam = effects[k].cam /\ f.stream = "open" => f.at = "live" /\ ~f.stopped
      BY <1>1 DEF Opened, Effect
    <2>3. f.stopped = effects[k].stopped /\ f.wants = effects[k].wants /\ f.cam = effects[k].cam
      BY <1>1 DEF Opened, Effect
    <2>4. f \in Effect
      BY <1>1 DEF Opened, Effect
    <2>5. ~f.stopped => f.cam = PickCamera(saved', cameras')
      BY <1>1, <2>1, <2>3 DEF EffectOK
    <2> HIDE DEF f
    <2>. QED
      BY <1>2, <1>4, <2>1, <2>2, <2>3, <2>4, <2>5
  <1>9. CASE Closed(k)
    <2> DEFINE f == [effects[k] EXCEPT !.stream = "none"]
    <2>1. Becomes(k, f) /\ UNCHANGED <<plugged, saved, cameras, fault>>
      BY <1>9 DEF Closed
    <2>2. /\ f \in Effect /\ f.stopped = effects[k].stopped /\ f.wants = effects[k].wants
          /\ f.cam = effects[k].cam /\ f.stream = "none" /\ f.at = effects[k].at
      BY <1>1 DEF Effect
    <2>3. /\ ~f.stopped /\ f.at \in {"start", "live"} => f.cam = PickCamera(saved', cameras')
          /\ ~f.stopped /\ f.at = "live" => fault' = "none"
      BY <1>1, <2>1, <2>2 DEF EffectOK
    <2> HIDE DEF f
    <2>. QED
      BY <1>2, <1>4, <2>1, <2>2, <2>3
  <1>. QED
    BY <1>5, <1>6, <1>7, <1>8, <1>9

LEMMA CameraStep ==
    ASSUME CameraInv, [ScannerNext]_scannerVars
    PROVE  CameraInv'
  <1>1. CASE UNCHANGED scannerVars
    BY <1>1 DEF CameraInv, ScannerInv, EffectOK, PickCamera, Best, Current, scannerVars
  <1>2. ASSUME NEW c \in ToSet(Cameras), Choose(c)
        PROVE  CameraInv'
    BY <1>2, RerunStep DEF Choose, CameraInv, ScannerInv
  <1>3. ASSUME NEW c \in ToSet(Cameras), PlugChanges(c)
        PROVE  CameraInv'
    BY <1>3, RerunStep DEF PlugChanges, CameraInv, ScannerInv
  <1>4. CASE RetryCamera
    BY <1>4, RerunStep DEF RetryCamera, CameraInv, ScannerInv
  <1>5. CASE Unmount
    BY <1>5, UnmountStep
  <1>6. ASSUME NEW k \in DOMAIN effects,
               Throws(k) \/ LibraryReady(k) \/ Listed(k) \/ Started(k) \/ Closed(k)
        PROVE  CameraInv'
    BY <1>6, OneEffectStep
  <1>. QED
    BY <1>1, <1>2, <1>3, <1>4, <1>5, <1>6 DEF ScannerNext

LEMMA CameraInit ==
    ASSUME ScannerInit
    PROVE  CameraInv
  <1> DEFINE first == [at |-> "import", stopped |-> FALSE, wants |-> saved, cam |-> NoCamera,
                       stream |-> "none"]
  <1>1. /\ effects = <<first>> /\ cameras = {} /\ fault = "none"
        /\ plugged \subseteq ToSet(Cameras) /\ saved \in ToSet(Cameras) \cup {NoCamera}
    BY DEF ScannerInit
  <1>2. /\ first \in Effect /\ ~first.stopped /\ first.wants = saved
        /\ first.at = "import" /\ first.stream = "none"
    BY <1>1 DEF Effect
  <1> HIDE DEF first
  <1>3. effects \in Seq(Effect) /\ Len(effects) = 1 /\ DOMAIN effects = {1} /\ effects[1] = first
    BY <1>1, <1>2
  <1>4. \A k \in DOMAIN effects : EffectOK(k)
    BY <1>2, <1>3 DEF EffectOK
  <1>. QED
    BY <1>1, <1>3, <1>4 DEF CameraInv, ScannerInv, Current

\* What is known of a live effect says which camera scans.
LEMMA CameraIsKept ==
    ASSUME CameraInv
    PROVE  CameraIsOurs
  <1> SUFFICES ASSUME NEW k \in DOMAIN effects, effects[k].stream = "open"
               PROVE  /\ k = Current /\ ~effects[k].stopped /\ fault = "none"
                      /\ effects[k].cam = PickCamera(saved, cameras)
                      /\ saved \in cameras => effects[k].cam = saved
                      /\ saved \notin cameras =>
                             \A c \in cameras : Score[c] <= Score[effects[k].cam]
    BY DEF CameraIsOurs
  <1>1. EffectOK(k) /\ cameras \subseteq ToSet(Cameras) /\ saved \in ToSet(Cameras) \cup {NoCamera}
    BY DEF CameraInv, ScannerInv
  <1>2. /\ k = Current /\ ~effects[k].stopped /\ fault = "none"
        /\ effects[k].cam = PickCamera(saved, cameras)
    BY <1>1 DEF EffectOK, Current
  <1>3. CASE cameras = {}
    BY <1>2, <1>3
  <1>4. CASE cameras # {}
    BY <1>1, <1>2, <1>4, PickIsRight
  <1>. QED
    BY <1>2, <1>3, <1>4

\* However slow the import, the permission or the device: no camera is held by an
\* effect that is gone, one that scans shows no error, and it is the operator's if
\* that is plugged in, else the best (QrScanner, pickCamera).
THEOREM CameraIsSafe == ScannerSpec => [](ScannerInv /\ CameraIsOurs)
  <1>1. ScannerInit => CameraInv
    BY CameraInit
  <1>2. CameraInv /\ [ScannerNext]_scannerVars => CameraInv'
    BY CameraStep
  <1>3. CameraInv => ScannerInv /\ CameraIsOurs
    BY CameraIsKept DEF CameraInv
  <1>. QED
    BY <1>1, <1>2, <1>3, PTL DEF ScannerSpec

-----------------------------------------------------------------------------
(* The printer *)

Places == {"idle", "qz", "connect", "find", "send"}

\* PrinterInv, and that every slot is in some place.
PrinterOK == PrinterInv /\ call \in [Slots -> Places]

\* One call moves on; the socket is dialled by it, by another, or by nobody.
LEMMA CallMoves ==
    ASSUME PrinterOK, NEW k \in Slots, NEW to \in Places,
           call' = [call EXCEPT ![k] = to],
           lib' \in {"none", "loading", "loaded", "failed"}, lib = "loaded" => lib' = "loaded",
           socket' \in {"closed", "connecting", "open"},
           pill' \in {"checking", "ready", "unset", "missing", "unreachable"},
           to \in {"connect", "find", "send"} => lib' = "loaded",
           to = "send" => k \in Prints,
           to = "connect" => socket' = "connecting" /\ socket # "connecting",
           socket = "connecting" => socket' = socket \/ call[k] = "connect"
    PROVE  PrinterOK'
  <1>1. call' \in [Slots -> Places] /\ call'[k] = to
        /\ \A j \in Slots \ {k} : call'[j] = call[j]
    BY DEF PrinterOK
  <1>2. \A j \in Slots : /\ call[j] \in {"connect", "find", "send"} => lib = "loaded"
                         /\ call[j] = "send" => j \in Prints
                         /\ call[j] = "connect" =>
                                socket = "connecting" /\ \A i \in Slots \ {j} : call[i] # "connect"
    BY DEF PrinterOK, PrinterInv
  <1>3. ASSUME NEW j \in Slots
        PROVE  /\ call'[j] \in Places
               /\ call'[j] \in {"connect", "find", "send"} => lib' = "loaded"
               /\ call'[j] = "send" => j \in Prints
    BY <1>1, <1>2
  <1>4. ASSUME NEW j \in Slots, call'[j] = "connect"
        PROVE  socket' = "connecting" /\ \A i \in Slots \ {j} : call'[i] # "connect"
    BY <1>1, <1>2, <1>4
  <1>. QED
    BY <1>1, <1>3, <1>4 DEF PrinterOK, PrinterInv, Places

LEMMA PrinterStep ==
    ASSUME PrinterOK, [PrinterNext]_printerVars
    PROVE  PrinterOK'
  <1>1. CASE UNCHANGED <<lib, socket, call, pill>>
    BY <1>1 DEF PrinterOK, PrinterInv, Slots
  <1>2. /\ lib \in {"none", "loading", "loaded", "failed"}
        /\ socket \in {"closed", "connecting", "open"}
        /\ pill \in {"checking", "ready", "unset", "missing", "unreachable"}
        /\ \A k \in Slots : /\ call[k] \in {"connect", "find", "send"} => lib = "loaded"
                            /\ call[k] = "connect" => socket = "connecting"
    BY DEF PrinterOK, PrinterInv
  <1>3. ASSUME NEW k \in Slots, GetQz(k), UNCHANGED <<socket, pill>>
        PROVE  PrinterOK'
    BY <1>2, <1>3, CallMoves DEF GetQz, Places
  <1>4. ASSUME NEW k \in Slots, NEW kind, NEW reason, Fails(k, kind, reason), UNCHANGED lib,
               reason \in {"checking", "ready", "unset", "missing", "unreachable"},
               socket' \in {"closed", "connecting", "open"},
               socket = "connecting" => socket' = socket \/ call[k] = "connect"
        PROVE  PrinterOK'
    BY <1>2, <1>4, CallMoves DEF Fails, PrintFails, Places
  <1>5. ASSUME NEW k \in Slots, PrintBadge(k)
        PROVE  PrinterOK'
    BY <1>1, <1>3, <1>5 DEF PrintBadge, PrintFails
  <1>6. ASSUME NEW k \in Slots, Connect(k)
        PROVE  PrinterOK'
    <2>1. CASE lib = "loaded" /\ socket # "connecting"
      BY <1>2, <1>6, <2>1, CallMoves DEF Connect, Places
    <2>2. CASE ~ (lib = "loaded" /\ socket # "connecting")
      BY <1>2, <1>4, <1>6, <2>2 DEF Connect
    <2>. QED
      BY <2>1, <2>2
  <1>7. ASSUME NEW k \in Slots, Connected(k)
        PROVE  PrinterOK'
    <2>1. CASE tray
      BY <1>2, <1>7, <2>1, CallMoves DEF Connected, Places
    <2>2. CASE ~tray
      BY <1>2, <1>4, <1>7, <2>2 DEF Connected
    <2>. QED
      BY <2>1, <2>2
  <1>8. ASSUME NEW k \in Slots, FindPrinter(k)
        PROVE  PrinterOK'
    <2>1. CASE socket # "open" \/ device = "gone"
      BY <1>2, <1>4, <1>8, <2>1 DEF FindPrinter
    <2>2. CASE ~ (socket # "open" \/ device = "gone")
      BY <1>2, <1>8, <2>2, CallMoves DEF FindPrinter, Healthy, Places
    <2>. QED
      BY <2>1, <2>2
  <1>9. ASSUME NEW k \in Slots, Send(k)
        PROVE  PrinterOK'
    BY <1>2, <1>4, <1>9, CallMoves DEF Send, Places
  <1>10. CASE Imported
    BY <1>2, <1>10 DEF Imported, PrinterOK, PrinterInv
  <1>11. CASE TrayStops
    BY <1>2, <1>11 DEF TrayStops, PrinterOK, PrinterInv
  <1>12. CASE TrayStarts \/ DeviceChanges \/ SetPrinterLanguage
    BY <1>1, <1>12 DEF TrayStarts, DeviceChanges, SetPrinterLanguage
  <1>. QED
    BY <1>1, <1>3, <1>5, <1>6, <1>7, <1>8, <1>9, <1>10, <1>11, <1>12
    DEF PrinterNext, Poll, RetryProbe, Step, printerVars

\* However calls fail and overlap: one at a time dials the tray, and nothing
\* connects, finds or sends before the library is there (print-client).
THEOREM PrinterIsSafe == PrinterSpec => []PrinterInv
  <1>1. PrinterInit => PrinterOK
    BY DEF PrinterInit, PrinterOK, PrinterInv, Places
  <1>2. PrinterOK /\ [PrinterNext]_printerVars => PrinterOK'
    BY PrinterStep
  <1>. QED
    BY <1>1, <1>2, PTL DEF PrinterSpec, PrinterOK

-----------------------------------------------------------------------------
(* The panel: its search, its forms, its screen and its lanes *)

USE PanelConstants, PanelBounds

SearchOK == /\ box \in Maybe(Texts) /\ asked \in Maybe(Texts)
            /\ rows \subseteq People /\ answers \in Maybe(Texts)
            /\ search \in {"none", "debounce", "flight"}
            /\ searching \in BOOLEAN /\ searchFailed \in BOOLEAN
            /\ RowsAnswer
            /\ search = "flight" => box \in Texts \ Scannable

FormsOK == /\ confirm \in Maybe(People) /\ latch \in BOOLEAN
           /\ pending \in {Nothing} \cup [kind : {"in", "reprint"}, who : Maybe(People)]
           /\ walkIn \in {"closed", "open", "submitting"}
           /\ edit \in [open : Maybe(People), opening : Maybe(People),
                        saving : Maybe(People), step : {"none", "save", "reprint"}]
           /\ edit.step = "none" <=> edit.saving = Nothing

ScreenOK == /\ banner \in [kind : {"none", "working", "ok", "warn", "err", "auth"},
                           who : Maybe(People)]
            /\ fallback \in Maybe(People)
            /\ owners \in Seq(People) /\ Len(owners) <= MaxAdmitted
            /\ prints \subseteq [ticket : Nat, who : People, dialled : BOOLEAN]
            /\ \A p \in prints : p.ticket \in DOMAIN owners /\ owners[p.ticket] = p.who
            /\ ScreenIsNewest

LanesOK == /\ lane \in Lanes /\ recent \in Seq(People \X Lanes)
           /\ stored \in [Lanes -> Seq(People \X Lanes)]
           /\ Len(recent) <= RecentLimit /\ \A l \in Lanes : Len(stored[l]) <= RecentLimit
           /\ LaneKeepsItsOwn

\* Enter checks in the only match of what the box holds, when the rows answer it.
LEMMA OnlyMatch ==
    ASSUME SearchOK
    PROVE  EnterIsExact
  <1> SUFFICES ASSUME NEW o \in People, EnterChecksIn(o)
               PROVE  Found[box] = {o}
    BY DEF EnterIsExact
  <1>1. answers = box /\ Cardinality(rows) = 1 /\ o \in rows
    BY DEF EnterChecksIn, DecideEnter
  <1>2. IsFiniteSet(rows)
    BY FS_Subset DEF SearchOK
  <1>3. PICK x : rows = {x}
    BY <1>1, <1>2, FS_Singleton
  <1>. QED
    BY <1>1, <1>3 DEF SearchOK, RowsAnswer

LEMMA PartsOfThePanel ==
    PanelInv <=> SearchOK /\ FormsOK /\ ScreenOK /\ LanesOK
  <1>1. PanelInv => SearchOK
    BY DEF PanelInv, PanelTypeOK, SearchOK
  <1>2. PanelInv => FormsOK
    BY DEF PanelInv, PanelTypeOK, FormsOK
  <1>3. PanelInv => ScreenOK
    BY DEF PanelInv, PanelTypeOK, ScreenOK
  <1>4. PanelInv => LanesOK
    BY DEF PanelInv, PanelTypeOK, LanesOK
  <1>5. SearchOK /\ FormsOK /\ ScreenOK /\ LanesOK => PanelTypeOK
    BY DEF PanelTypeOK, SearchOK, FormsOK, ScreenOK, LanesOK
  <1>6. SearchOK /\ FormsOK /\ ScreenOK /\ LanesOK => PanelInv
    BY <1>5, OnlyMatch DEF PanelInv, SearchOK, FormsOK, ScreenOK, LanesOK
  <1>. QED
    BY <1>1, <1>2, <1>3, <1>4, <1>6

\* A badge came back, from whichever of the three ways, for whom it was asked.
Admits == \E o \in People, form \in {"closed", "open", "submitting"} : Admit(o, form)


LEMMA FillMoves ==
    ASSUME SearchOK, NEW text \in Maybe(Texts), NEW form, Fill(text, form),
           UNCHANGED <<searching, searchFailed>>, asked' \in Maybe(Texts),
           \/ UNCHANGED <<rows, answers>>
           \/ rows' = {} /\ answers' \in {Nothing, answers}
    PROVE  SearchOK'
  <1>1. /\ box' \in Maybe(Texts) /\ search' \in {"none", "debounce", "flight"}
        /\ search' = "flight" => box' \in Texts \ Scannable
    BY DEF Fill, SearchOK
  <1>2. rows' \subseteq People /\ answers' \in Maybe(Texts) /\ RowsAnswer'
    BY DEF SearchOK, RowsAnswer, Maybe
  <1>. QED
    BY <1>1, <1>2 DEF SearchOK

LEMMA AdmitSearch ==
    ASSUME SearchOK, NEW o, NEW form, Admit(o, form)
    PROVE  SearchOK'
  <1>1. UNCHANGED <<searching, searchFailed, answers, asked>> /\ Nothing \in Maybe(Texts)
        /\ box \in Maybe(Texts) /\ asked \in Maybe(Texts)
    BY DEF Admit, SearchOK, Maybe
  <1>2. CASE box = asked
    BY <1>1, <1>2, FillMoves DEF Admit
  <1>3. CASE box # asked
    BY <1>1, <1>3, FillMoves DEF Admit
  <1>. QED
    BY <1>2, <1>3

LEMMA SearchStep ==
    ASSUME SearchOK, [PanelNext]_panelVars
    PROVE  SearchOK'
  <1>1. CASE UNCHANGED <<searchVars, asked>>
    BY <1>1 DEF SearchOK, RowsAnswer, searchVars
  <1>2. /\ Nothing \in Maybe(Texts) /\ box \in Maybe(Texts) /\ asked \in Maybe(Texts)
        /\ Texts \subseteq Maybe(Texts)
    BY DEF SearchOK, Maybe
  <1>3. CASE asked' = box /\ UNCHANGED searchVars
    BY <1>3 DEF SearchOK, RowsAnswer, searchVars
  <1>4. ASSUME NEW t \in Maybe(Texts), Type(t)
        PROVE  SearchOK'
    BY <1>2, <1>4, FillMoves DEF Type
  <1>5. CASE Debounced
    BY <1>5 DEF Debounced, SearchOK, RowsAnswer
  <1>6. ASSUME NEW f \in SearchResult, SearchAnswers(f)
        PROVE  SearchOK'
    <2>1. /\ search' = "none" /\ searching' = FALSE /\ UNCHANGED <<box, asked>>
          /\ searchFailed' \in BOOLEAN /\ box \in Texts
      BY <1>6 DEF SearchAnswers, SearchOK
    <2>2. \/ rows' = Found[box] /\ answers' = box
          \/ rows' = {} /\ answers' = box
          \/ UNCHANGED <<rows, answers>>
      BY <1>6 DEF SearchAnswers
    <2>3. CASE rows' = Found[box] /\ answers' = box /\ box \in Texts
      <3>1. rows' \subseteq People /\ answers' # Nothing
        BY <2>3 DEF Maybe
      <3>. QED
        BY <2>1, <2>3, <3>1 DEF SearchOK, RowsAnswer, Maybe
    <2>4. CASE rows' = {} /\ answers' = box
      BY <2>1, <2>4 DEF SearchOK, RowsAnswer
    <2>5. CASE UNCHANGED <<rows, answers>>
      BY <2>1, <2>5 DEF SearchOK, RowsAnswer
    <2>. QED
      BY <2>1, <2>2, <2>3, <2>4, <2>5
  <1>7. CASE EnterScan
    BY <1>2, <1>7, FillMoves DEF EnterScan
  <1>8. CASE Escape
    BY <1>1, <1>2, <1>8, FillMoves DEF Escape, searchVars
  <1>9. CASE OpenWalkIn
    BY <1>9 DEF OpenWalkIn, SearchOK, RowsAnswer
  <1>10. CASE CloseWalkIn
    BY <1>2, <1>10, FillMoves DEF CloseWalkIn
  <1>11. ASSUME NEW o, NEW c, WalkInRegistered(o, c)
         PROVE  SearchOK'
    BY <1>2, <1>11, FillMoves DEF WalkInRegistered
  <1>12. CASE Reload
    BY <1>12 DEF Reload, SearchOK, RowsAnswer, Maybe
  <1>13. ASSUME NEW o, NEW form, Admit(o, form)
         PROVE  SearchOK'
    BY <1>13, AdmitSearch
  <1>14. Reply => UNCHANGED <<searchVars, asked>> \/ \E o, form : Admit(o, form)
    BY DEF Reply, ReplyBadge, ReplyAlready, ReplyNone, NoBadge
  <1>15. EditReply => UNCHANGED <<searchVars, asked>> \/ \E o, form : Admit(o, form)
    BY DEF EditReply, EditSaved, EditReprints, EditOpens, EditFails, NoBadge
  <1>16. WalkInReply => \/ UNCHANGED <<searchVars, asked>> \/ \E o, form : Admit(o, form)
                        \/ \E o, c : WalkInRegistered(o, c)
    BY DEF WalkInReply, WalkInAdmitted, WalkInFails, NoBadge
  <1>17. ASSUME NEW o, EnterCheckIn(o) \/ RowCheckIn(o)
         PROVE  SearchOK'
    BY <1>3, <1>17 DEF EnterCheckIn, RowCheckIn, Dispatch
  <1>18. ASSUME NEW o, OfferReprint(o) \/ OpenEdit(o)
         PROVE  SearchOK'
    BY <1>1, <1>18 DEF OfferReprint, OpenEdit
  <1>19. CASE CameraScan \/ PrintReplacement
    BY <1>3, <1>19 DEF CameraScan, PrintReplacement, Dispatch
  <1>20. CASE CancelReprint \/ Rearm \/ BannerExpires \/ SaveEdit \/ CancelEdit \/ SubmitWalkIn
    BY <1>1, <1>20 DEF CancelReprint, Rearm, BannerExpires, SaveEdit, CancelEdit, SubmitWalkIn
  <1>21. ASSUME NEW p, NEW r, PrintEnds(p, r)
         PROVE  SearchOK'
    BY <1>1, <1>21 DEF PrintEnds
  <1>22. ASSUME NEW l, SwitchLane(l)
         PROVE  SearchOK'
    BY <1>1, <1>22 DEF SwitchLane
  <1>23. CASE UNCHANGED panelVars
    BY <1>1, <1>23 DEF panelVars
  <1>. QED
    BY <1>1, <1>4, <1>5, <1>6, <1>7, <1>8, <1>9, <1>10, <1>11, <1>12, <1>13, <1>14, <1>15,
       <1>16, <1>17, <1>18, <1>19, <1>20, <1>21, <1>22, <1>23 DEF PanelNext

LEMMA FormsStep ==
    ASSUME FormsOK, [PanelNext]_panelVars
    PROVE  FormsOK'
  <1> DEFINE Forms == [open : Maybe(People), opening : Maybe(People),
                       saving : Maybe(People), step : {"none", "save", "reprint"}]
  <1>1. /\ edit \in Forms
        /\ edit.step = "none" <=> edit.saving = Nothing
        /\ latch \in BOOLEAN /\ walkIn \in {"closed", "open", "submitting"}
        /\ Nothing \in Maybe(People) /\ People \subseteq Maybe(People)
        /\ confirm \in Maybe(People)
    BY DEF FormsOK, Maybe
  <1>2. CASE UNCHANGED <<confirm, latch, pending, walkIn, edit>>
    BY <1>2 DEF FormsOK
  <1>3. ASSUME edit' \in Forms, edit'.step = "none" <=> edit'.saving = Nothing,
               UNCHANGED <<pending, walkIn, latch>>, confirm' \in {Nothing, confirm}
        PROVE  FormsOK'
    BY <1>3 DEF FormsOK, Maybe
  <1>4. ASSUME pending' \in {Nothing, pending} \cup [kind : {"in", "reprint"}, who : Maybe(People)],
               confirm' \in {confirm} \cup Maybe(People), latch' \in BOOLEAN,
               walkIn' \in {"closed", "open", "submitting"}, UNCHANGED edit
        PROVE  FormsOK'
    BY <1>4 DEF FormsOK
  <1>5. ASSUME NEW o \in People, ReplyBadge(o) \/ ReplyAlready(o)
        PROVE  FormsOK'
    BY <1>1, <1>4, <1>5 DEF ReplyBadge, ReplyAlready, Admit, NoBadge, printVars, formVars
  <1>6. ASSUME NEW f, ReplyNone(f)
        PROVE  FormsOK'
    BY <1>1, <1>4, <1>6 DEF ReplyNone, SessionEnded, NoBadge, printVars, formVars
  <1>7. CASE EditSaved
    <2>1. edit' = [edit EXCEPT !.step = "reprint", !.open = IF @ = edit.saving THEN Nothing ELSE @]
          /\ edit.step = "save" /\ UNCHANGED <<pending, walkIn, latch, confirm>>
      BY <1>7 DEF EditSaved, printVars
    <2>. QED
      BY <1>1, <1>3, <2>1
  <1>8. CASE EditReprints
    <2>1. edit' = [edit EXCEPT !.saving = Nothing, !.step = "none"]
          /\ UNCHANGED <<pending, walkIn, latch>> /\ confirm' = Nothing
      BY <1>8 DEF EditReprints, EditDone, Admit
    <2>. QED
      BY <1>1, <1>3, <2>1
  <1>9. ASSUME NEW f, EditOpens(f)
        PROVE  FormsOK'
    <2>1. UNCHANGED <<pending, walkIn, latch>> /\ confirm' \in {Nothing, confirm}
      BY <1>9 DEF EditOpens, SessionEnded, NoBadge, printVars
    <2>2. edit' = [edit EXCEPT
            !.opening = IF Finally(f) \/ f = "ok" THEN Nothing ELSE @,
            !.open = IF f = "ok" THEN edit.opening ELSE @]
      BY <1>9 DEF EditOpens
    <2>. QED
      BY <1>1, <1>3, <2>1, <2>2
  <1>10. ASSUME NEW f, EditFails(f)
         PROVE  FormsOK'
    <2>1. UNCHANGED <<pending, walkIn, latch>> /\ confirm' \in {Nothing, confirm}
      BY <1>10 DEF EditFails, SessionEnded, NoBadge, printVars
    <2>2. edit' \in {edit, [edit EXCEPT !.saving = Nothing, !.step = "none"]}
      BY <1>10 DEF EditFails, EditDone
    <2>. QED
      BY <1>1, <1>3, <2>1, <2>2
  <1>11. ASSUME NEW o \in People, WalkInAdmitted(o)
         PROVE  FormsOK'
    BY <1>1, <1>4, <1>11 DEF WalkInAdmitted, Admit
  <1>12. ASSUME NEW o, NEW c, WalkInRegistered(o, c)
         PROVE  FormsOK'
    BY <1>1, <1>4, <1>12 DEF WalkInRegistered, printVars
  <1>13. ASSUME NEW f, WalkInFails(f)
         PROVE  FormsOK'
    BY <1>1, <1>4, <1>13 DEF WalkInFails, SessionEnded, NoBadge, printVars
  <1>14. ASSUME NEW o \in People, EnterCheckIn(o) \/ RowCheckIn(o)
         PROVE  FormsOK'
    BY <1>1, <1>4, <1>14 DEF EnterCheckIn, RowCheckIn, Dispatch, printVars, formVars
  <1>15. ASSUME NEW o \in People, OfferReprint(o)
         PROVE  FormsOK'
    BY <1>1, <1>4, <1>15 DEF OfferReprint, printVars, formVars
  <1>16. ASSUME NEW o \in People, OpenEdit(o)
         PROVE  FormsOK'
    <2>1. /\ edit' = [edit EXCEPT !.open = Nothing, !.opening = o]
          /\ UNCHANGED <<pending, walkIn, latch, confirm>>
      BY <1>16 DEF OpenEdit, printVars
    <2>. QED
      BY <1>1, <1>3, <2>1
  <1>17. CASE EnterScan \/ CameraScan \/ PrintReplacement \/ CancelReprint
    BY <1>1, <1>4, <1>17
    DEF EnterScan, CameraScan, PrintReplacement, CancelReprint, Dispatch, printVars, formVars
  <1>18. ASSUME NEW p, NEW r, PrintEnds(p, r)
         PROVE  FormsOK'
    BY <1>1, <1>4, <1>18 DEF PrintEnds, formVars
  <1>19. CASE Rearm \/ BannerExpires \/ Escape
    BY <1>1, <1>4, <1>19 DEF Rearm, BannerExpires, Escape, printVars, formVars
  <1>20. CASE SaveEdit
    <2>1. /\ edit' = [edit EXCEPT !.saving = edit.open, !.step = "save"] /\ edit.open # Nothing
          /\ UNCHANGED <<pending, walkIn, latch, confirm>>
      BY <1>20 DEF SaveEdit, printVars
    <2>. QED
      BY <1>1, <1>3, <2>1
  <1>21. CASE CancelEdit
    <2>1. /\ edit' = [edit EXCEPT !.open = Nothing]
          /\ UNCHANGED <<pending, walkIn, latch, confirm>>
      BY <1>21 DEF CancelEdit, printVars
    <2>. QED
      BY <1>1, <1>3, <2>1
  <1>22. CASE OpenWalkIn \/ CloseWalkIn \/ SubmitWalkIn
    BY <1>1, <1>4, <1>22 DEF OpenWalkIn, CloseWalkIn, SubmitWalkIn, printVars
  <1>23. ASSUME NEW l, SwitchLane(l)
         PROVE  FormsOK'
    BY <1>2, <1>23 DEF SwitchLane, printVars, formVars
  <1>24. CASE Reload
    BY <1>24 DEF Reload, FormsOK, NoEdit, Maybe
  <1>25. CASE (\E t \in Maybe(Texts) : Type(t)) \/ Debounced \/ UNCHANGED panelVars
    BY <1>2, <1>25 DEF Type, Debounced, panelVars, printVars, formVars
  <1>26. ASSUME NEW f, SearchAnswers(f)
         PROVE  FormsOK'
    BY <1>1, <1>4, <1>26 DEF SearchAnswers, printVars, formVars
  <1>. QED
    BY <1>5, <1>6, <1>7, <1>8, <1>9, <1>10, <1>11, <1>12, <1>13, <1>14, <1>15, <1>16, <1>17,
       <1>18, <1>19, <1>20, <1>21, <1>22, <1>23, <1>24, <1>25, <1>26
    DEF PanelNext, Reply, EditReply, WalkInReply

Banners == [kind : {"none", "working", "ok", "warn", "err", "auth"}, who : Maybe(People)]

\* The badge that came back owns the screen from now on.
LEMMA AdmitScreen ==
    ASSUME ScreenOK, NEW o \in People, NEW form, Admit(o, form)
    PROVE  ScreenOK'
  <1> DEFINE n == Len(owners)
             p == [ticket |-> n + 1, who |-> o, dialled |-> ~latch]
  <1>1. /\ owners \in Seq(People) /\ n \in Nat /\ n < MaxAdmitted
        /\ owners' = Append(owners, o)
        /\ prints' = prints \cup {p}
        /\ fallback' = Nothing /\ banner' = Working
    BY DEF ScreenOK, Admit
  <1>2. /\ owners' \in Seq(People) /\ Len(owners') = n + 1 /\ DOMAIN owners' = 1..(n + 1)
        /\ DOMAIN owners = 1..n
        /\ owners'[n + 1] = o /\ \A i \in 1..n : owners'[i] = owners[i]
    BY <1>1
  <1>3. Len(owners') <= MaxAdmitted
    BY <1>1, <1>2
  <1>4. \A i \in 1..n : i \in 1..(n + 1)
    BY <1>1
  <1>5. p \in [ticket : Nat, who : People, dialled : BOOLEAN] /\ p.ticket = n + 1 /\ p.who = o
    BY <1>1
  <1>6. n + 1 \in 1..(n + 1)
    BY <1>1
  <1> HIDE DEF p, n
  <1>7. \A q \in prints' : q.ticket \in DOMAIN owners' /\ owners'[q.ticket] = q.who
    BY <1>1, <1>2, <1>4, <1>5, <1>6 DEF ScreenOK
  <1>8. prints' \subseteq [ticket : Nat, who : People, dialled : BOOLEAN]
    BY <1>1, <1>5 DEF ScreenOK
  <1>9. /\ banner' \in Banners /\ banner'.kind # "ok" /\ fallback' \in Maybe(People)
        /\ fallback' = Nothing
    BY <1>1 DEF Working, Banner, Banners, Maybe
  <1>. QED
    BY <1>2, <1>3, <1>7, <1>8, <1>9 DEF ScreenOK, ScreenIsNewest, Banners

LEMMA ScreenStep ==
    ASSUME ScreenOK, FormsOK, [PanelNext]_panelVars
    PROVE  ScreenOK'
  <1>1. ASSUME UNCHANGED <<owners, prints>>, banner' = banner \/ banner'.kind # "ok",
               banner' \in Banners, fallback' \in {fallback, Nothing}
        PROVE  ScreenOK'
    BY <1>1 DEF ScreenOK, ScreenIsNewest, Banners, Maybe
  <1>2. /\ banner \in Banners /\ fallback \in Maybe(People)
        /\ Nothing \in Maybe(People) /\ People \subseteq Maybe(People)
        /\ edit.saving \in Maybe(People)
        /\ edit.step = "none" <=> edit.saving = Nothing
    BY DEF ScreenOK, FormsOK, Banners, Maybe
  <1>3. \A kind \in {"none", "working", "warn", "err", "auth"}, who \in Maybe(People) :
            Banner(kind, who) \in Banners /\ Banner(kind, who).kind # "ok"
    BY DEF Banner, Banners
  <1>4. Working \in Banners /\ Working.kind # "ok" /\ NoBanner \in Banners /\ NoBanner.kind # "ok"
    BY <1>2, <1>3 DEF Working, NoBanner
  <1>5. ASSUME UNCHANGED printVars, UNCHANGED banner
        PROVE  ScreenOK'
    BY <1>1, <1>2, <1>5 DEF printVars
  <1>6. ASSUME UNCHANGED printVars, banner' \in Banners, banner'.kind # "ok"
        PROVE  ScreenOK'
    BY <1>1, <1>6 DEF printVars
  <1>7. ASSUME NEW f, SearchAnswers(f)
        PROVE  ScreenOK'
    <2>1. UNCHANGED printVars
      BY <1>7 DEF SearchAnswers
    <2>2. \/ UNCHANGED banner \/ banner' = NoBanner
          \/ banner' = Banner("auth", Nothing) \/ banner' = Banner("err", Nothing)
      BY <1>7 DEF SearchAnswers
    <2>. QED
      BY <1>2, <1>3, <1>4, <1>5, <1>6, <2>1, <2>2
  <1>8. ASSUME NEW o \in People, ReplyBadge(o) \/ WalkInAdmitted(o)
        PROVE  ScreenOK'
    BY <1>8, AdmitScreen DEF ReplyBadge, WalkInAdmitted
  <1>9. CASE EditReprints
    <2>1. edit.saving \in People
      BY <1>2, <1>9 DEF EditReprints, Maybe
    <2>. QED
      BY <1>9, <2>1, AdmitScreen DEF EditReprints
  <1>10. ASSUME NEW o \in People, ReplyAlready(o)
         PROVE  ScreenOK'
    BY <1>2, <1>3, <1>6, <1>10 DEF ReplyAlready, NoBadge
  <1>11. ASSUME NEW f, ReplyNone(f)
         PROVE  ScreenOK'
    BY <1>2, <1>3, <1>6, <1>11 DEF ReplyNone, NoBadge, SessionEnded
  <1>12. ASSUME NEW f, EditOpens(f)
         PROVE  ScreenOK'
    BY <1>2, <1>3, <1>5, <1>6, <1>12 DEF EditOpens, NoBadge, SessionEnded
  <1>13. ASSUME NEW f, EditFails(f)
         PROVE  ScreenOK'
    BY <1>2, <1>3, <1>6, <1>13 DEF EditFails, NoBadge, SessionEnded
  <1>14. ASSUME NEW f, WalkInFails(f)
         PROVE  ScreenOK'
    BY <1>2, <1>3, <1>6, <1>14 DEF WalkInFails, NoBadge, SessionEnded
  <1>15. ASSUME NEW o \in People, NEW c, WalkInRegistered(o, c)
         PROVE  ScreenOK'
    BY <1>2, <1>3, <1>6, <1>15 DEF WalkInRegistered
  <1>16. ASSUME NEW o, EnterCheckIn(o) \/ RowCheckIn(o)
         PROVE  ScreenOK'
    BY <1>4, <1>6, <1>16 DEF EnterCheckIn, RowCheckIn, Dispatch
  <1>17. CASE EnterScan \/ CameraScan \/ PrintReplacement
    BY <1>4, <1>6, <1>17 DEF EnterScan, CameraScan, PrintReplacement, Dispatch
  <1>18. ASSUME NEW o, OfferReprint(o) \/ OpenEdit(o)
         PROVE  ScreenOK'
    BY <1>5, <1>18 DEF OfferReprint, OpenEdit
  <1>19. CASE \/ CancelReprint \/ SaveEdit \/ CancelEdit \/ OpenWalkIn \/ CloseWalkIn
              \/ SubmitWalkIn \/ EditSaved \/ Debounced
    BY <1>5, <1>19
    DEF CancelReprint, SaveEdit, CancelEdit, OpenWalkIn, CloseWalkIn, SubmitWalkIn, EditSaved,
        Debounced
  <1>20. CASE Rearm
    BY <1>1, <1>2, <1>20 DEF Rearm
  <1>21. CASE BannerExpires \/ Escape
    BY <1>4, <1>5, <1>6, <1>21 DEF BannerExpires, Escape
  <1>22. ASSUME NEW p \in prints, NEW r, PrintEnds(p, r)
         PROVE  ScreenOK'
    <2>1. /\ p.ticket \in DOMAIN owners /\ owners[p.ticket] = p.who /\ p.who \in People
          /\ owners \in Seq(People)
      BY DEF ScreenOK
    <2>2. prints' = prints \ {p} /\ UNCHANGED owners
      BY <1>22 DEF PrintEnds
    <2>3. CASE ~Owns(p)
      BY <1>22, <2>2, <2>3 DEF PrintEnds, ScreenOK, ScreenIsNewest
    <2>4. CASE Owns(p)
      <3>1. owners # <<>> /\ p.who = owners[Len(owners)]
        BY <2>1, <2>4 DEF Owns
      <3>2. \/ fallback' = Nothing /\ banner' = Banner("ok", p.who)
            \/ fallback' = p.who /\ banner' = Banner("warn", p.who)
        BY <1>22, <2>4 DEF PrintEnds
      <3>3. banner' \in Banners /\ banner'.who = p.who /\ fallback' \in {Nothing, p.who}
            /\ fallback' \in Maybe(People)
        BY <1>2, <2>1, <3>2 DEF Banner, Banners
      <3>. QED
        BY <2>2, <3>1, <3>3 DEF ScreenOK, ScreenIsNewest, Banners
    <2>. QED
      BY <2>3, <2>4
  <1>23. ASSUME NEW l, SwitchLane(l)
         PROVE  ScreenOK'
    BY <1>5, <1>23 DEF SwitchLane
  <1>24. CASE Reload
    <2>1. /\ owners' = <<>> /\ prints' = {} /\ banner' = NoBanner /\ fallback' = Nothing
          /\ MaxAdmitted \in Nat
      BY <1>24 DEF Reload
    <2>. QED
      BY <1>2, <1>4, <2>1 DEF ScreenOK, ScreenIsNewest, Banners
  <1>25. CASE (\E t \in Maybe(Texts) : Type(t)) \/ UNCHANGED panelVars
    BY <1>5, <1>25 DEF Type, panelVars
  <1>. QED
    BY <1>7, <1>8, <1>9, <1>10, <1>11, <1>12, <1>13, <1>14, <1>15, <1>16, <1>17, <1>18, <1>19,
       <1>20, <1>21, <1>22, <1>23, <1>24, <1>25
    DEF PanelNext, Reply, EditReply, WalkInReply

LEMMA Prepended ==
    ASSUME NEW S, NEW x \in S, NEW s \in Seq(S)
    PROVE  /\ <<x>> \o s \in Seq(S) /\ Len(<<x>> \o s) = Len(s) + 1
           /\ \A i \in 1..Len(<<x>> \o s) : (<<x>> \o s)[i] = IF i = 1 THEN x ELSE s[i - 1]
  <1>1. <<x>> \in Seq(S) /\ Len(<<x>>) = 1 /\ <<x>>[1] = x
    OBVIOUS
  <1>2. ASSUME NEW t \in Seq(S), Len(t) = 1
        PROVE  /\ t \o s \in Seq(S) /\ Len(t \o s) = Len(s) + 1
               /\ \A i \in 1..(Len(s) + 1) : (t \o s)[i] = IF i = 1 THEN t[1] ELSE s[i - 1]
    <2>0. /\ t \o s \in Seq(S) /\ Len(t \o s) = Len(t) + Len(s)
          /\ Len(s) \in Nat
      OBVIOUS
    <2>1. t \o s \in Seq(S) /\ Len(t \o s) = Len(s) + 1 /\ Len(s) \in Nat
          /\ Len(t) + Len(s) = Len(s) + 1
      BY <1>2, <2>0
    <2>2. \A i \in 1..(Len(t) + Len(s)) : (t \o s)[i] = IF i <= Len(t) THEN t[i] ELSE s[i - Len(t)]
      BY <2>0
    <2>3. \A i \in 1..(Len(s) + 1) : i <= 1 <=> i = 1
      OBVIOUS
    <2>. QED
      BY <1>2, <2>1, <2>2, <2>3
  <1>. QED
    BY <1>1, <1>2

\* Somebody is put at the head of the lane's list, which keeps its length.
LEMMA RememberStep ==
    ASSUME LanesOK, NEW o \in People, Remember(o)
    PROVE  LanesOK'
  <1> DEFINE longer == <<<<o, lane>>>> \o recent
             m == IF Len(recent) < RecentLimit THEN Len(recent) + 1 ELSE RecentLimit
  <1>1. /\ recent \in Seq(People \X Lanes) /\ lane \in Lanes /\ lane' = lane
        /\ Len(recent) \in Nat /\ Len(recent) <= RecentLimit
        /\ stored \in [Lanes -> Seq(People \X Lanes)]
        /\ recent' = SubSeq(longer, 1, m) /\ stored' = [stored EXCEPT ![lane] = recent']
    BY DEF LanesOK, Remember
  <1>2. /\ longer \in Seq(People \X Lanes) /\ Len(longer) = Len(recent) + 1
        /\ \A i \in 1..Len(longer) : longer[i] = IF i = 1 THEN <<o, lane>> ELSE recent[i - 1]
    <2>1. <<o, lane>> \in People \X Lanes
      BY <1>1
    <2>. QED
      BY <1>1, <2>1, Prepended
  <1>3. m \in Nat /\ m <= Len(recent) + 1 /\ m <= RecentLimit /\ m >= 1
    BY <1>1
  <1>4. \A i \in 1..Len(longer) : longer[i][2] = lane
    <2>1. \A i \in 1..Len(recent) : recent[i][2] = lane
      <3>1. \A i \in DOMAIN recent : recent[i][2] = lane
        BY Zenon DEF LanesOK, LaneKeepsItsOwn
      <3>2. DOMAIN recent = 1..Len(recent)
        BY <1>1
      <3>. QED
        BY <3>1, <3>2
    <2>2. ASSUME NEW i \in 1..Len(longer) PROVE longer[i][2] = lane
      <3>1. CASE i = 1
        BY <1>2, <3>1
      <3>2. CASE i # 1
        <4>1. i - 1 \in 1..Len(recent)
          BY <1>1, <1>2, <3>2
        <4>. QED
          BY <1>2, <2>1, <3>2, <4>1
      <3>. QED
        BY <3>1, <3>2
    <2>. QED
      BY <2>2
  <1> HIDE DEF longer, m
  <1>5. /\ recent' \in Seq(People \X Lanes) /\ Len(recent') = m
        /\ \A i \in 1..m : recent'[i] = longer[i]
    BY <1>1, <1>2, <1>3
  <1>6. \A i \in DOMAIN recent' : recent'[i][2] = lane
    <2>1. DOMAIN recent' = 1..m
      BY <1>3, <1>5
    <2>2. 1..m \subseteq 1..Len(longer)
      BY <1>1, <1>2, <1>3
    <2>. QED
      BY <1>4, <1>5, <2>1, <2>2
  <1>7. /\ stored' \in [Lanes -> Seq(People \X Lanes)]
        /\ \A l \in Lanes : stored'[l] = IF l = lane THEN recent' ELSE stored[l]
    BY <1>1, <1>5
  <1>8. \A l \in Lanes : Len(stored'[l]) <= RecentLimit
    BY <1>3, <1>5, <1>7 DEF LanesOK
  <1>9. \A l \in Lanes : \A i \in DOMAIN stored'[l] : stored'[l][i][2] = l
    BY <1>6, <1>7 DEF LanesOK, LaneKeepsItsOwn
  <1>. QED
    BY <1>1, <1>3, <1>5, <1>6, <1>7, <1>8, <1>9 DEF LanesOK, LaneKeepsItsOwn

LEMMA LanesStep ==
    ASSUME LanesOK, FormsOK, [PanelNext]_panelVars
    PROVE  LanesOK'
  <1>1. CASE UNCHANGED laneVars
    BY <1>1 DEF laneVars, LanesOK, LaneKeepsItsOwn
  <1>2. ASSUME NEW o \in People, NEW form, Admit(o, form)
        PROVE  LanesOK'
    BY <1>2, RememberStep DEF Admit
  <1>3. ASSUME NEW l \in Lanes, SwitchLane(l)
        PROVE  LanesOK'
    BY <1>3 DEF SwitchLane, Restored, LanesOK, LaneKeepsItsOwn
  <1>4. CASE Reload
    BY <1>4 DEF Reload, Restored, LanesOK, LaneKeepsItsOwn
  <1>5. Reply => UNCHANGED laneVars \/ \E o \in People : \E form : Admit(o, form)
    BY DEF Reply, ReplyBadge, ReplyAlready, ReplyNone, NoBadge
  <1>6. EditReply => UNCHANGED laneVars \/ \E o \in People : \E form : Admit(o, form)
    <2>1. EditReprints => edit.saving \in People
      BY DEF EditReprints, FormsOK, Maybe
    <2>. QED
      BY <2>1 DEF EditReply, EditSaved, EditReprints, EditOpens, EditFails, NoBadge
  <1>7. WalkInReply => UNCHANGED laneVars \/ \E o \in People : \E form : Admit(o, form)
    BY DEF WalkInReply, WalkInAdmitted, WalkInRegistered, WalkInFails, NoBadge
  <1>8. \/ (\E t \in Maybe(Texts) : Type(t)) \/ Debounced \/ (\E f \in SearchResult : SearchAnswers(f))
        \/ EnterScan \/ CameraScan \/ PrintReplacement \/ CancelReprint
        \/ (\E p \in prints, r \in {"printed", "jam", "unreachable"} : PrintEnds(p, r))
        \/ Rearm \/ BannerExpires \/ Escape \/ SaveEdit \/ CancelEdit
        \/ OpenWalkIn \/ CloseWalkIn \/ SubmitWalkIn
        \/ (\E o \in People : EnterCheckIn(o) \/ RowCheckIn(o) \/ OfferReprint(o) \/ OpenEdit(o))
        => UNCHANGED laneVars
    BY DEF Type, Debounced, SearchAnswers, EnterScan, CameraScan, PrintReplacement, CancelReprint,
           PrintEnds, Rearm, BannerExpires, Escape, SaveEdit, CancelEdit, OpenWalkIn, CloseWalkIn,
           SubmitWalkIn, EnterCheckIn, RowCheckIn, OfferReprint, OpenEdit, Dispatch
  <1>. QED
    BY <1>1, <1>2, <1>3, <1>4, <1>5, <1>6, <1>7, <1>8 DEF PanelNext, panelVars

LEMMA PanelStep ==
    ASSUME PanelInv, [PanelNext]_panelVars
    PROVE  PanelInv'
  <1>1. SearchOK /\ FormsOK /\ ScreenOK /\ LanesOK
    BY PartsOfThePanel
  <1>2. SearchOK' /\ FormsOK' /\ ScreenOK' /\ LanesOK'
    BY <1>1, SearchStep, FormsStep, ScreenStep, LanesStep
  <1>3. (SearchOK /\ FormsOK /\ ScreenOK /\ LanesOK => PanelInv)'
    BY PartsOfThePanel, PTL
  <1>. QED
    BY <1>2, <1>3

LEMMA PanelStart ==
    ASSUME PanelInit
    PROVE  PanelInv
  <1>1. SearchOK /\ FormsOK
    BY DEF PanelInit, SearchOK, FormsOK, RowsAnswer, Maybe, NoEdit
  <1>2. ScreenOK
    <2>1. /\ owners = <<>> /\ prints = {} /\ banner = NoBanner /\ fallback = Nothing
          /\ MaxAdmitted \in Nat
      BY DEF PanelInit
    <2>2. NoBanner \in Banners /\ NoBanner.kind # "ok"
      BY DEF NoBanner, Banner, Banners, Maybe
    <2>. QED
      BY <2>1, <2>2 DEF ScreenOK, ScreenIsNewest, Banners, Maybe
  <1>3. LanesOK
    <2>1. /\ lane \in Lanes /\ recent = <<>> /\ stored = [l \in Lanes |-> <<>>]
          /\ RecentLimit \in Nat
      BY DEF PanelInit
    <2>. QED
      BY <2>1 DEF LanesOK, LaneKeepsItsOwn
  <1>. QED
    BY <1>1, <1>2, <1>3, PartsOfThePanel

\* Enter checks in only the one whom the box finds, the banner and the browser
\* print are about the last badge, and a lane lists its own (checkin-panel.tsx).
THEOREM PanelIsSafe == PanelSpec => []PanelInv
  <1>. QED
    BY PanelStart, PanelStep, PTL DEF PanelSpec

\* The station of the run: screen, printer and camera each keep their shape, and
\* no camera is held by an effect that is gone.
THEOREM StationIsSafe == MCSpec => [](StationInv /\ CameraIsOurs)
  <1> DEFINE Inv == PanelInv /\ PrinterOK /\ CameraInv
  <1>1. MCInit => Inv
    BY PanelStart, CameraInit DEF MCInit, PrinterInit, PrinterOK, PrinterInv, Places
  <1>2. Inv /\ [MCNext]_vars => Inv'
    <2> SUFFICES ASSUME Inv, [MCNext]_vars
                 PROVE  Inv'
      OBVIOUS
    <2>1. [PanelNext]_panelVars
      BY DEF MCNext, vars
    <2>2. [PrinterNext]_printerVars
      BY DEF MCNext, vars
    <2>3. [ScannerNext]_scannerVars
      BY DEF MCNext, vars
    <2>. QED
      BY <2>1, <2>2, <2>3, PanelStep, PrinterStep, CameraStep
  <1>3. Inv => StationInv /\ CameraIsOurs
    BY CameraIsKept DEF StationInv, PrinterOK, CameraInv
  <1>. QED
    BY <1>1, <1>2, <1>3, PTL DEF MCSpec
-----------------------------------------------------------------------------
(* Badge: where the ink of a label goes, and which names are printed whole.  *)

LEMMA MinOfNats ==
    ASSUME NEW S \in SUBSET Nat, S # {}
    PROVE  Min(S) \in S /\ \A y \in S : Min(S) <= y
  <1> DEFINE R == OpToRel(<, Nat)
  <1>1. IsWellFoundedOn(R, Nat)
    BY NatLessThanWellFounded
  <1>2. \A x, y \in Nat : x < y => <<x, y>> \in R
    BY DEF OpToRel
  <1> HIDE DEF R
  <1>3. PICK x \in S : \A y \in S : ~(<<y, x>> \in R)
    BY <1>1, WFMin
  <1>4. ASSUME NEW y \in S PROVE x <= y
    <2>1. x \in Nat /\ y \in Nat /\ ~(y < x)
      BY <1>2, <1>3
    <2>. QED
      BY <2>1
  <1>. QED
    BY <1>4 DEF Min

LEMMA MaxOfSizes ==
    ASSUME NEW S \in SUBSET NameSizes, S # {}
    PROVE  Max(S) \in S /\ \A y \in S : Max(S) >= y
  <1> DEFINE T == {38 - s : s \in S}
  <1>1. \A s \in NameSizes : s \in Nat /\ s <= 38 /\ 38 - s \in Nat
    BY DEF NameSizes
  <1>2. T \in SUBSET Nat /\ T # {}
    BY <1>1
  <1>3. Min(T) \in T /\ \A y \in T : Min(T) <= y
    <2> HIDE DEF T
    <2>. QED
      BY <1>2, MinOfNats
  <1>4. PICK s \in S : Min(T) = 38 - s
    BY <1>3
  <1>5. ASSUME NEW y \in S PROVE s >= y
    <2>1. 38 - y \in T /\ s \in Nat /\ y \in Nat
      BY <1>1
    <2>2. 38 - s <= 38 - y
      BY <1>3, <1>4, <2>1
    <2>. QED
      BY <2>1, <2>2
  <1>. QED
    BY <1>5 DEF Max

LEMMA MaxOfTwo == ASSUME NEW x \in Int, NEW b \in Int PROVE Max({x, b}) = IF x >= b THEN x ELSE b
  BY DEF Max

LEMMA MinOfTwo == ASSUME NEW x \in Int, NEW b \in Int PROVE Min({x, b}) = IF x <= b THEN x ELSE b
  BY DEF Min

LEMMA Widens ==
    ASSUME NEW x \in Nat, NEW b \in Nat, NEW g \in Nat, x <= b PROVE x * g <= b * g
  <1>1. b = x + (b - x) /\ b - x \in Nat
    OBVIOUS
  <1>2. b * g = x * g + (b - x) * g /\ (b - x) * g \in Nat /\ x * g \in Nat /\ b * g \in Nat
    BY <1>1
  <1>. QED
    BY <1>2

LEMMA NameIs ==
    ASSUME NEW name \in Names
    PROVE  /\ name \in Seq(Nat) /\ Len(name) \in Nat /\ DOMAIN name = 1..Len(name)
           /\ \A i \in 1..Len(name) : name[i] \in Nat /\ name[i] > 0 /\ WordStart(name, i) \in Nat
           /\ \A i, j \in 1..Len(name) : i <= j => name[i] <= name[j]
           /\ \A i, j \in 1..Len(name) : i <= j => WordStart(name, i) < name[j]
           /\ \A i, j \in 1..Len(name) : i <= j => WordStart(name, i) <= WordStart(name, j)
  <1>1. name \in Seq(Nat) /\ Len(name) \in Nat /\ DOMAIN name = 1..Len(name)
    BY DEF Names
  <1>2. /\ \A i \in 1..Len(name) : name[i] \in Nat /\ name[i] > 0
        /\ \A i, j \in 1..Len(name) : i < j => name[i] + 1 < name[j]
    <2>1. /\ \A i \in DOMAIN name : name[i] > 0
          /\ \A i, j \in DOMAIN name : i < j => name[i] + 1 < name[j]
      BY Zenon DEF Names
    <2>2. \A i \in 1..Len(name) : name[i] \in Nat
      BY <1>1
    <2>. QED
      BY <1>1, <2>1, <2>2
  <1>3. \A i, j \in 1..Len(name) : i <= j => name[i] <= name[j]
    BY <1>2
  <1>4. \A i \in 1..Len(name) : i = 1 \/ (i - 1 \in 1..Len(name) /\ i - 1 < i)
    BY <1>1
  <1>5. \A i \in 1..Len(name) : WordStart(name, i) \in Nat /\ WordStart(name, i) < name[i]
    BY <1>2, <1>4 DEF WordStart
  <1>6. ASSUME NEW i \in 1..Len(name), NEW j \in 1..Len(name), i <= j
        PROVE  WordStart(name, i) < name[j]
    <2>1. WordStart(name, i) \in Nat /\ WordStart(name, i) < name[i] /\ name[i] <= name[j]
      BY <1>3, <1>5, <1>6
    <2>2. name[i] \in Nat /\ name[j] \in Nat
      BY <1>2
    <2>. QED
      BY <2>1, <2>2
  <1>7. \A i, j \in 1..Len(name) : i <= j => WordStart(name, i) <= WordStart(name, j)
    <2>. SUFFICES ASSUME NEW i \in 1..Len(name), NEW j \in 1..Len(name), i <= j
                  PROVE  WordStart(name, i) <= WordStart(name, j)
      OBVIOUS
    <2>1. CASE i = 1
      BY <1>5, <2>1 DEF WordStart
    <2>2. CASE i # 1
      <3>1. i - 1 \in 1..Len(name) /\ j - 1 \in 1..Len(name) /\ i - 1 <= j - 1 /\ j # 1
        BY <1>1, <2>2
      <3>. QED
        BY <1>2, <1>3, <2>2, <3>1 DEF WordStart
    <2>. QED
      BY <2>1, <2>2
  <1>. QED
    BY <1>1, <1>2, <1>3, <1>5, <1>6, <1>7

\* A shorter run of words is no wider.
LEMMA FitsWithin ==
    ASSUME NEW name \in Names, NEW size \in NameSizes,
           NEW i \in 1..Len(name), NEW j \in i..Len(name),
           NEW x \in i..j, NEW b \in x..j, FitsLine(size, name, i, j)
    PROVE  FitsLine(size, name, x, b)
  <1>1. Glyph[size] \in Nat
    BY BadgeAssumption
  <1>2. x \in 1..Len(name) /\ b \in 1..Len(name) /\ j \in 1..Len(name) /\ i <= x /\ x <= b /\ b <= j
    BY NameIs
  <1> DEFINE narrow == name[b] - WordStart(name, x)
             wide == name[j] - WordStart(name, i)
  <1>3. narrow \in Nat /\ wide \in Nat /\ narrow <= wide
    <2>1. /\ name[b] \in Nat /\ name[j] \in Nat /\ name[b] <= name[j]
          /\ WordStart(name, x) \in Nat /\ WordStart(name, i) \in Nat
          /\ WordStart(name, i) <= WordStart(name, x)
          /\ WordStart(name, x) < name[b] /\ WordStart(name, i) < name[j]
      <3>1. i <= j
        BY <1>2, NameIs
      <3>. QED
        BY <1>2, <3>1, NameIs
    <2>. QED
      BY <2>1
  <1>4. /\ Measure(size, name, i, j) = wide * Glyph[size]
        /\ Measure(size, name, x, b) = narrow * Glyph[size]
    BY DEF Measure
  <1> HIDE DEF narrow, wide
  <1>5. narrow * Glyph[size] <= wide * Glyph[size]
    BY <1>1, <1>3, Widens
  <1>6. narrow * Glyph[size] \in Nat /\ wide * Glyph[size] \in Nat
    BY <1>1, <1>3
  <1>. QED
    BY <1>4, <1>5, <1>6 DEF FitsLine, TextWidth

LEMMA MeasureType ==
    ASSUME NEW name \in Names, NEW size \in NameSizes,
           NEW i \in 1..Len(name), NEW j \in i..Len(name)
    PROVE  Measure(size, name, i, j) \in Nat
  <1>1. Glyph[size] \in Nat
    BY BadgeAssumption
  <1>2. name[j] - WordStart(name, i) \in Nat
    BY NameIs
  <1>. QED
    BY <1>1, <1>2 DEF Measure

\* A line is full: it fits, one word aside, and the next word would not.
LEMMA LineIs ==
    ASSUME NEW name \in Names, NEW size \in NameSizes, NEW i \in 1..Len(name)
    PROVE  LET e == LineEnd(size, name, i) IN
             /\ e \in i..Len(name) /\ e \in Nat
             /\ e = Len(name) \/ ~FitsLine(size, name, i, e + 1)
             /\ \A j \in i..Len(name) : j < e => FitsLine(size, name, i, j + 1)
             /\ e = i \/ FitsLine(size, name, i, e)
  <1> DEFINE S == {j \in i..Len(name) : j = Len(name) \/ ~FitsLine(size, name, i, j + 1)}
             e == LineEnd(size, name, i)
  <1>0. Len(name) \in Nat
    BY NameIs
  <1>1. S \in SUBSET Nat /\ Len(name) \in S
    BY <1>0
  <1>2. e \in S /\ \A y \in S : e <= y
    BY <1>1, MinOfNats DEF LineEnd
  <1> HIDE DEF e
  <1>3. \A j \in i..Len(name) : j < e => FitsLine(size, name, i, j + 1)
    BY <1>0, <1>2
  <1>4. e \in i..Len(name) /\ (e = Len(name) \/ ~FitsLine(size, name, i, e + 1))
    BY <1>2
  <1>5. e = i \/ FitsLine(size, name, i, e)
    <2>1. CASE e # i
      <3>1. e - 1 \in i..Len(name) /\ e - 1 < e /\ (e - 1) + 1 = e
        BY <1>0, <1>4, <2>1
      <3>. QED
        BY <1>3, <3>1
    <2>. QED
      BY <2>1
  <1>6. e \in Nat
    BY <1>0, <1>4
  <1>. QED
    BY <1>3, <1>4, <1>5, <1>6 DEF e

\* A name is on one line or on two, each a run of its words.
LEMMA WrapIs ==
    ASSUME NEW name \in Names, NEW size \in NameSizes, name # <<>>
    PROVE  \E first \in 1..Len(name) :
             /\ first = LineEnd(size, name, 1)
             /\ first = Len(name) => Wrap(size, name) = <<<<1, first>>>>
             /\ first # Len(name) =>
                  LET second == LineEnd(size, name, first + 1) IN
                    /\ first + 1 \in 1..Len(name) /\ second \in (first + 1)..Len(name)
                    /\ Wrap(size, name) = <<<<1, first>>, <<first + 1, second>>>>
  <1>1. Len(name) \in Nat /\ 1 \in 1..Len(name)
    BY NameIs
  <1> DEFINE first == LineEnd(size, name, 1)
  <1>2. first \in 1..Len(name)
    BY <1>1, LineIs
  <1> HIDE DEF first
  <1>3. first # Len(name) => first + 1 \in 1..Len(name)
    BY <1>1, <1>2
  <1>4. first # Len(name) => LineEnd(size, name, first + 1) \in (first + 1)..Len(name)
    BY <1>3, LineIs
  <1>5. Wrap(size, name) = IF first = Len(name) THEN <<<<1, first>>>>
                           ELSE <<<<1, first>>, <<first + 1, LineEnd(size, name, first + 1)>>>>
    BY Zenon DEF Wrap, first
  <1>6. first = LineEnd(size, name, 1)
    BY DEF first
  <1>. QED
    BY <1>2, <1>3, <1>4, <1>5, <1>6

\* A size at which nothing overflows is one at which the name can be broken into
\* two lines that fit, and then it is whole.
LEMMA WholeIs ==
    ASSUME NEW name \in Names, NEW size \in NameSizes
    PROVE  /\ ~Overflows(size, name) <=> Fitting(size, name) # {}
           /\ ~Overflows(size, name) =>
                /\ Consumed(Wrap(size, name)) = Len(name)
                /\ \A k \in DOMAIN Wrap(size, name) :
                     FitsLine(size, name, Wrap(size, name)[k][1], Wrap(size, name)[k][2])
  <1>0. Len(name) \in Nat
    BY NameIs
  <1>1. CASE name = <<>>
    <2>1. Wrap(size, name) = <<>> /\ Len(name) = 0
      BY <1>1 DEF Wrap
    <2>2. Consumed(Wrap(size, name)) = 0 /\ DOMAIN Wrap(size, name) = {}
      BY <2>1 DEF Consumed
    <2>3. ~Overflows(size, name)
      BY <2>1, <2>2 DEF Overflows
    <2>4. 0 \in Fitting(size, name)
      BY <2>1 DEF Fitting
    <2>. QED
      BY <2>1, <2>2, <2>3, <2>4
  <1>2. CASE name # <<>>
    <2>0. 1 \in 1..Len(name)
      BY <1>2, NameIs
    <2>1. PICK first \in 1..Len(name) :
             /\ first = LineEnd(size, name, 1)
             /\ first = Len(name) => Wrap(size, name) = <<<<1, first>>>>
             /\ first # Len(name) =>
                  /\ first + 1 \in 1..Len(name)
                  /\ LineEnd(size, name, first + 1) \in (first + 1)..Len(name)
                  /\ Wrap(size, name)
                       = <<<<1, first>>, <<first + 1, LineEnd(size, name, first + 1)>>>>
      BY <1>2, WrapIs
    <2> DEFINE second == LineEnd(size, name, first + 1)
    <2>2. CASE first = Len(name)
      <3>1. Wrap(size, name) = <<<<1, first>>>>
        BY <2>1, <2>2
      <3>2. Consumed(Wrap(size, name)) = Len(name)
        BY <2>2, <3>1 DEF Consumed
      <3>3. Overflows(size, name) <=> ~FitsLine(size, name, 1, Len(name))
        BY <1>0, <2>2, <3>1, <3>2 DEF Overflows
      <3>4. FitsLine(size, name, 1, Len(name)) => Fitting(size, name) # {}
        <4>1. FitsLine(size, name, 1, Len(name)) => Len(name) \in Fitting(size, name)
          BY <1>0 DEF Fitting
        <4>. QED
          BY <4>1
      <3>5. ASSUME NEW k \in Fitting(size, name) PROVE FitsLine(size, name, 1, Len(name))
        <4>1. CASE k = 0
          BY <1>0, <2>0, <3>5, <4>1 DEF Fitting
        <4>2. CASE k # 0 /\ k < first
          <5>1. FitsLine(size, name, 1, first) \/ first = 1
            BY <2>0, <2>1, LineIs
          <5>2. k \in 0..Len(name)
            BY <3>5 DEF Fitting
          <5>. QED
            BY <1>0, <2>2, <4>2, <5>1, <5>2
        <4>3. CASE k # 0 /\ ~(k < first)
          <5>1. k \in 0..Len(name) /\ (k > 0 => FitsLine(size, name, 1, k))
            BY <3>5 DEF Fitting
          <5>2. k = Len(name) /\ k > 0
            BY <1>0, <2>2, <4>3, <5>1
          <5>. QED
            BY <5>1, <5>2
        <4>. QED
          BY <4>1, <4>2, <4>3
      <3>6. DOMAIN Wrap(size, name) = {1} /\ Wrap(size, name)[1][1] = 1
            /\ Wrap(size, name)[1][2] = Len(name)
        BY <2>2, <3>1
      <3>. QED
        BY <3>2, <3>3, <3>4, <3>5, <3>6
    <2>3. CASE first # Len(name)
      <3>1. /\ Wrap(size, name) = <<<<1, first>>, <<first + 1, second>>>>
            /\ first + 1 \in 1..Len(name) /\ second \in (first + 1)..Len(name)
        BY <2>1, <2>3
      <3> HIDE DEF second
      <3>2. /\ Consumed(Wrap(size, name)) = second /\ DOMAIN Wrap(size, name) = {1, 2}
            /\ Wrap(size, name)[1][1] = 1 /\ Wrap(size, name)[1][2] = first
            /\ Wrap(size, name)[2][1] = first + 1 /\ Wrap(size, name)[2][2] = second
        BY <3>1 DEF Consumed
      <3>3. ~Overflows(size, name) <=> /\ second = Len(name)
                                       /\ FitsLine(size, name, 1, first)
                                       /\ FitsLine(size, name, first + 1, second)
        <4> DEFINE lines == Wrap(size, name)
        <4>1. (\E k \in DOMAIN lines : ~FitsLine(size, name, lines[k][1], lines[k][2]))
                <=> ~FitsLine(size, name, 1, first) \/ ~FitsLine(size, name, first + 1, second)
          <5> HIDE DEF lines
          <5>1. /\ DOMAIN lines = {1, 2} /\ lines[1][1] = 1 /\ lines[1][2] = first
                /\ lines[2][1] = first + 1 /\ lines[2][2] = second
            BY <3>2 DEF lines
          <5>. QED
            BY <5>1, Zenon
        <4>2. Consumed(lines) < Len(name) <=> second # Len(name)
          BY <1>0, <3>1, <3>2
        <4>3. Overflows(size, name)
                <=> \/ Consumed(lines) < Len(name)
                    \/ \E k \in DOMAIN lines : ~FitsLine(size, name, lines[k][1], lines[k][2])
          BY DEF Overflows
        <4> HIDE DEF lines
        <4>. QED
          BY <4>1, <4>2, <4>3
      <3>4. ~Overflows(size, name) => first \in Fitting(size, name)
        BY <1>0, <3>1, <3>3 DEF Fitting
      <3>5. ASSUME NEW k \in Fitting(size, name) PROVE ~Overflows(size, name)
        <4>1. k \in 0..Len(name) /\ (k > 0 => FitsLine(size, name, 1, k))
              /\ (k < Len(name) => FitsLine(size, name, k + 1, Len(name)))
          BY <3>5 DEF Fitting
        <4>2. ~FitsLine(size, name, 1, first + 1)
          BY <2>0, <2>1, <2>3, LineIs
        <4>3. k <= first
          <5>1. ASSUME first + 1 <= k PROVE FALSE
            <6>1. k \in 1..Len(name) /\ k > 0 /\ first + 1 \in 1..k
              BY <1>0, <3>1, <4>1, <5>1
            <6>2. FitsLine(size, name, 1, k) /\ 1 \in 1..k
              BY <4>1, <6>1
            <6>. QED
              BY <2>0, <4>2, <6>1, <6>2, FitsWithin
          <5>. QED
            BY <1>0, <4>1, <5>1
        <4>4. k + 1 \in 1..Len(name) /\ Len(name) \in (k + 1)..Len(name)
              /\ FitsLine(size, name, k + 1, Len(name))
          BY <1>0, <3>1, <4>1, <4>3
        <4>5. \A x \in (k + 1)..Len(name) : \A b \in x..Len(name) : FitsLine(size, name, x, b)
          BY <4>4, FitsWithin
        <4>6. first + 1 \in (k + 1)..Len(name)
          BY <1>0, <3>1, <4>1, <4>3
        <4>7. second = Len(name)
          <5>1. second = Len(name) \/ ~FitsLine(size, name, first + 1, second + 1)
            BY <3>1, LineIs DEF second
          <5>2. second # Len(name) => second + 1 \in (first + 1)..Len(name)
            BY <1>0, <3>1
          <5>. QED
            BY <4>5, <4>6, <5>1, <5>2
        <4>8. FitsLine(size, name, first + 1, second)
          BY <3>1, <4>5, <4>6
        <4>9. FitsLine(size, name, 1, first)
          <5>1. first = 1 \/ FitsLine(size, name, 1, first)
            BY <2>0, <2>1, LineIs
          <5>2. CASE first = 1 /\ k > 0
            <6>1. k = 1
              BY <1>0, <4>1, <4>3, <5>2
            <6>. QED
              BY <4>1, <5>2, <6>1
          <5>3. CASE k = 0
            <6>1. 1 \in (k + 1)..Len(name) /\ first \in 1..Len(name)
              BY <1>0, <2>0, <5>3
            <6>. QED
              BY <4>5, <6>1
          <5>. QED
            BY <1>0, <4>1, <5>1, <5>2, <5>3
        <4>. QED
          BY <3>3, <4>7, <4>8, <4>9
      <3>. QED
        BY <3>2, <3>3, <3>4, <3>5
    <2>. QED
      BY <2>2, <2>3
  <1>. QED
    BY <1>1, <1>2

\* Where a rectangle of text is: in the column, between two heights.
InColumn(b, top, bottom) ==
    /\ b.x = 16 /\ b.w \in Nat /\ b.w <= 249
    /\ b.y \in Nat /\ b.h \in Nat /\ b.y >= top /\ b.y + b.h <= bottom

LEMMA SizesAre ==
    ASSUME NEW s \in NameSizes
    PROVE  s \in Nat /\ s <= 38 /\ LineHeight(s) \in Nat /\ s <= LineHeight(s) /\ LineHeight(s) <= 42
  BY DEF NameSizes, LineHeight

LEMMA FitNameType == ASSUME NEW name PROVE FitName(name) \in NameSizes
  <1> DEFINE S == {s \in NameSizes : ~Overflows(s, name)} \cup {24}
  <1>1. S \in SUBSET NameSizes /\ S # {}
    BY DEF NameSizes
  <1>2. FitName(name) = Max(S)
    BY Zenon DEF FitName
  <1> HIDE DEF S
  <1>. QED
    BY <1>1, <1>2, MaxOfSizes

\* The lines of a name stay in the column and do not touch.
LEMMA NameInkIs ==
    ASSUME NEW l \in Badges
    PROVE  /\ \A b \in NameInk(l) : InColumn(b, 98, 184)
           /\ \A b, c \in NameInk(l) : b # c => Apart(b, c)
  <1>1. CASE l.lang = "zpl"
    <2>1. NameInk(l) = {[x |-> 16, y |-> 104, w |-> 249, h |-> 80]}
      BY <1>1 DEF NameInk, Box, TextLeft, TextWidth
    <2>. QED
      BY <2>1 DEF InColumn
  <1>2. CASE l.lang # "zpl"
    <2> DEFINE size == FitName(l.name)
               lines == Wrap(size, l.name)
               width(k) == Clip(Measure(size, l.name, lines[k][1], lines[k][2]))
               height == LineHeight(size)
    <2>0. l.name \in Names
      BY DEF Badges
    <2>1. size \in NameSizes
      BY FitNameType
    <2>2. NameInk(l) = {[x |-> 16, y |-> 98 + (k - 1) * height, w |-> width(k), h |-> size] :
                           k \in DOMAIN lines}
      BY <1>2 DEF NameInk, Box, TextLeft
    <2>3. size \in Nat /\ size <= 38 /\ height \in Nat /\ size <= height /\ height <= 42
      BY <2>1, SizesAre
    <2> HIDE DEF size, height
    <2>4. ASSUME NEW k \in DOMAIN lines PROVE k \in {1, 2} /\ width(k) \in Nat /\ width(k) <= 249
      <3>1. l.name # <<>>
        BY <2>4 DEF Wrap
      <3>2. PICK first \in 1..Len(l.name) :
               /\ first = Len(l.name) => lines = <<<<1, first>>>>
               /\ first # Len(l.name) =>
                    LET second == LineEnd(size, l.name, first + 1) IN
                      /\ first + 1 \in 1..Len(l.name) /\ second \in (first + 1)..Len(l.name)
                      /\ lines = <<<<1, first>>, <<first + 1, second>>>>
        BY <2>0, <2>1, <3>1, WrapIs
      <3>3. /\ k \in {1, 2} /\ lines[k][1] \in 1..Len(l.name)
            /\ lines[k][2] \in lines[k][1]..Len(l.name)
        <4>1. 1 \in 1..Len(l.name)
          BY <2>0, <3>2, NameIs
        <4>2. CASE first = Len(l.name)
          <5>1. lines = <<<<1, first>>>>
            BY <3>2, <4>2
          <5> HIDE DEF lines
          <5>. QED
            BY <2>4, <4>1, <5>1
        <4>3. CASE first # Len(l.name)
          <5> DEFINE second == LineEnd(size, l.name, first + 1)
          <5>1. /\ first + 1 \in 1..Len(l.name) /\ second \in (first + 1)..Len(l.name)
                /\ lines = <<<<1, first>>, <<first + 1, second>>>>
            BY <3>2, <4>3
          <5> HIDE DEF lines, second
          <5>. QED
            BY <2>4, <4>1, <5>1
        <4>. QED
          BY <4>2, <4>3
      <3>4. Measure(size, l.name, lines[k][1], lines[k][2]) \in Nat
        <4> HIDE DEF lines
        <4>. QED
          BY <2>0, <2>1, <3>3, MeasureType
      <3> DEFINE m == Measure(size, l.name, lines[k][1], lines[k][2])
      <3>5. Min({m, 249}) = IF m <= 249 THEN m ELSE 249
        <4> HIDE DEF m
        <4>1. m \in Int /\ 249 \in Int
          BY <3>4 DEF m
        <4>. QED
          BY <4>1, MinOfTwo
      <3>6. width(k) = Min({m, 249})
        BY DEF Clip, TextWidth
      <3> HIDE DEF m, width
      <3>7. m \in Nat
        BY <3>4 DEF m
      <3>. QED
        BY <3>3, <3>5, <3>6, <3>7
    <2> HIDE DEF width, lines
    <2>5. ASSUME NEW k \in DOMAIN lines
          PROVE  InColumn([x |-> 16, y |-> 98 + (k - 1) * height, w |-> width(k), h |-> size], 98, 184)
      <3>1. k = 1 \/ k = 2
        BY <2>4
      <3>2. (k - 1) * height = 0 \/ (k - 1) * height = height
        BY <2>3, <3>1
      <3>. QED
        BY <2>3, <2>4, <3>2 DEF InColumn
    <2>6. ASSUME NEW b \in NameInk(l), NEW c \in NameInk(l), b # c PROVE Apart(b, c)
      <3>1. PICK i \in DOMAIN lines :
               b = [x |-> 16, y |-> 98 + (i - 1) * height, w |-> width(i), h |-> size]
        BY <2>2
      <3>2. PICK j \in DOMAIN lines :
               c = [x |-> 16, y |-> 98 + (j - 1) * height, w |-> width(j), h |-> size]
        BY <2>2
      <3>3. i # j /\ i \in {1, 2} /\ j \in {1, 2}
        BY <2>4, <2>6, <3>1, <3>2
      <3>4. /\ b.y = 98 + (i - 1) * height /\ b.h = size
            /\ c.y = 98 + (j - 1) * height /\ c.h = size
        BY <3>1, <3>2
      <3>5. CASE i = 1 /\ j = 2
        <4>1. b.y = 98 /\ c.y = 98 + height
          BY <2>3, <3>4, <3>5
        <4>. QED
          BY <2>3, <3>4, <4>1 DEF Apart
      <3>6. CASE i = 2 /\ j = 1
        <4>1. c.y = 98 /\ b.y = 98 + height
          BY <2>3, <3>4, <3>6
        <4>. QED
          BY <2>3, <3>4, <4>1 DEF Apart
      <3>. QED
        BY <3>3, <3>5, <3>6
    <2>. QED
      BY <2>2, <2>5, <2>6
  <1>. QED
    BY <1>1, <1>2

\* The QR is at its place, at most a version-4 symbol.
LEMMA SymbolIs ==
    ASSUME NEW l \in Badges, HasQr(l)
    PROVE  /\ Symbol(l).x = 300 /\ Symbol(l).y = 131
           /\ Symbol(l).w \in Nat /\ Symbol(l).w <= 165 /\ Symbol(l).h = Symbol(l).w
  <1>1. Payload(l.qr) \in Nat /\ Payload(l.qr) <= 48
    BY DEF HasQr, Payload, Badges
  <1> DEFINE n == Payload(l.qr)
             v == Version(n)
  <1>2. DOMAIN Capacity = 1..5 /\ Capacity[1] = 16 /\ Capacity[2] = 29 /\ Capacity[3] = 47
        /\ Capacity[4] = 67 /\ Capacity[5] = 90
    BY DEF Capacity
  <1> HIDE DEF n
  <1>3. \E x \in DOMAIN Capacity : n <= Capacity[x] /\ \A u \in 1..(x - 1) : n > Capacity[u]
    <2>0. n \in Nat /\ n <= 48
      BY <1>1 DEF n
    <2>1. CASE n <= 16
      BY <1>2, <2>0, <2>1
    <2>2. CASE n > 16 /\ n <= 29
      <3>1. 2 \in DOMAIN Capacity /\ n <= Capacity[2] /\ \A u \in 1..(2 - 1) : n > Capacity[u]
        BY <1>2, <2>0, <2>2
      <3>. QED
        BY <3>1
    <2>3. CASE n > 29 /\ n <= 47
      <3>1. 3 \in DOMAIN Capacity /\ n <= Capacity[3] /\ \A u \in 1..(3 - 1) : n > Capacity[u]
        BY <1>2, <2>0, <2>3
      <3>. QED
        BY <3>1
    <2>4. CASE n > 47
      <3>1. 4 \in DOMAIN Capacity /\ n <= Capacity[4] /\ \A u \in 1..(4 - 1) : n > Capacity[u]
        BY <1>2, <2>0, <2>4
      <3>. QED
        BY <3>1
    <2>. QED
      BY <2>0, <2>1, <2>2, <2>3, <2>4
  <1>4. v \in DOMAIN Capacity /\ \A u \in 1..(v - 1) : n > Capacity[u]
    BY <1>3, Zenon DEF Version
  <1> HIDE DEF v
  <1>5. v \in 1..4
    <2>1. v = 5 => 4 \in 1..(v - 1)
      OBVIOUS
    <2>. QED
      BY <1>1, <1>2, <1>4, <2>1 DEF n
  <1>6. Symbol(l) = [x |-> 300, y |-> 131, w |-> (17 + 4 * v) * 5, h |-> (17 + 4 * v) * 5]
    BY DEF Symbol, v, n, QrBox, Box, QrMag
  <1>. QED
    BY <1>5, <1>6

\* The band's letters: no larger than the band, and as wide as the role needs.
LEMMA BandFontIs ==
    ASSUME NEW n \in Nat, NEW max \in {46, 50}
    PROVE  /\ BandFontSize(n, max) \in 28..50
           /\ n \in 1..25 => 62 * n * BandFontSize(n, max) <= 44800
  <1>1. CASE n = 0
    BY <1>1 DEF BandFontSize
  <1>2. CASE n # 0
    <2> DEFINE q == 44800 \div (62 * n)
               m == Min({max, q})
    <2>1. q \in Int
      BY <1>2
    <2>2. n \in 1..25 => 62 * n * q <= 44800
      BY <1>2
    <2>3. BandFontSize(n, max) = Max({28, m})
      BY <1>2 DEF BandFontSize
    <2> HIDE DEF q
    <2>4. m = IF max <= q THEN max ELSE q
      BY <2>1, MinOfTwo
    <2> HIDE DEF m
    <2>5. m \in Int /\ m <= q /\ m <= max
      BY <2>1, <2>4
    <2>6. BandFontSize(n, max) = IF 28 >= m THEN 28 ELSE m
      BY <2>3, <2>5, MaxOfTwo
    <2>7. BandFontSize(n, max) \in 28..50
      BY <2>5, <2>6
    <2>8. ASSUME n \in 1..25, m > 28 PROVE 62 * n * m <= 44800
      <3>1. 62 * n \in Nat /\ m \in Nat /\ q \in Nat
        BY <2>1, <2>5, <2>8
      <3>2. m * (62 * n) <= q * (62 * n)
        BY <2>5, <3>1, Widens
      <3>3. /\ m * (62 * n) = 62 * n * m /\ q * (62 * n) = 62 * n * q
            /\ m * (62 * n) \in Nat /\ q * (62 * n) \in Nat
        BY <3>1
      <3>. QED
        BY <2>2, <2>8, <3>2, <3>3
    <2>9. n \in 1..25 => 62 * n * 28 <= 44800
      OBVIOUS
    <2>. QED
      BY <2>5, <2>6, <2>7, <2>8, <2>9
  <1>. QED
    BY <1>1, <1>2

LEMMA BandFontType ==
    ASSUME NEW n \in Nat, NEW max \in {46, 50} PROVE BandFontSize(n, max) \in 28..50
  BY BandFontIs, SMTT(30)

LEMMA LanguageIs == ASSUME NEW l \in Badges PROVE BandMax(l.lang) \in {46, 50}
  BY DEF BandMax

LEMMA BandTextIs ==
    ASSUME NEW l \in Badges PROVE BandText(l.role) \in Nat /\ BandText(l.role) > 0
  BY DEF BandText, Badges

\* All the ink of a badge, by its place.
LEMMA InkIs ==
    ASSUME NEW l \in Badges, NEW b \in TextInk(l)
    PROVE  \/ b \in NameInk(l) /\ InColumn(b, 98, 184)
           \/ b \in CompanyInk(l) /\ InColumn(b, 196, 222)
           \/ b \in TitleInk(l) /\ InColumn(b, 230, 254)
  <1>1. CASE b \in NameInk(l)
    BY <1>1, NameInkIs
  <1>2. CASE b \in CompanyInk(l)
    BY <1>2 DEF CompanyInk, LineInk, Box, TextLeft, TextWidth, InColumn
  <1>3. CASE b \in TitleInk(l)
    BY <1>3 DEF TitleInk, LineInk, Box, TextLeft, TextWidth, InColumn
  <1>. QED
    BY <1>1, <1>2, <1>3 DEF TextInk

LEMMA TextApart ==
    ASSUME NEW l \in Badges, NEW b \in TextInk(l), NEW c \in TextInk(l), b # c
    PROVE  Apart(b, c)
  <1>1. \/ b \in NameInk(l) /\ InColumn(b, 98, 184)
        \/ b \in CompanyInk(l) /\ InColumn(b, 196, 222)
        \/ b \in TitleInk(l) /\ InColumn(b, 230, 254)
    BY InkIs
  <1>2. \/ c \in NameInk(l) /\ InColumn(c, 98, 184)
        \/ c \in CompanyInk(l) /\ InColumn(c, 196, 222)
        \/ c \in TitleInk(l) /\ InColumn(c, 230, 254)
    BY InkIs
  <1>3. CASE b \in NameInk(l) /\ c \in NameInk(l)
    BY <1>3, NameInkIs
  <1>4. ~(b \in CompanyInk(l) /\ c \in CompanyInk(l)) /\ ~(b \in TitleInk(l) /\ c \in TitleInk(l))
    BY DEF CompanyInk, TitleInk, LineInk
  <1>5. CASE ~(b \in NameInk(l) /\ c \in NameInk(l))
    <2>1. \/ InColumn(b, 98, 184) /\ InColumn(c, 196, 222)
          \/ InColumn(b, 98, 184) /\ InColumn(c, 230, 254)
          \/ InColumn(b, 196, 222) /\ InColumn(c, 98, 184)
          \/ InColumn(b, 196, 222) /\ InColumn(c, 230, 254)
          \/ InColumn(b, 230, 254) /\ InColumn(c, 98, 184)
          \/ InColumn(b, 230, 254) /\ InColumn(c, 196, 222)
      BY <1>1, <1>2, <1>4, <1>5, Zenon
    <2>2. CASE InColumn(b, 98, 184) /\ InColumn(c, 196, 222)
      <3>1. /\ b.y \in Nat /\ b.h \in Nat /\ c.y \in Nat /\ c.h \in Nat
            /\ b.y >= 98 /\ b.y + b.h <= 184 /\ c.y >= 196 /\ c.y + c.h <= 222
        BY <2>2 DEF InColumn
      <3>. QED
        BY <3>1 DEF Apart
    <2>3. CASE InColumn(b, 98, 184) /\ InColumn(c, 230, 254)
      <3>1. /\ b.y \in Nat /\ b.h \in Nat /\ c.y \in Nat /\ c.h \in Nat
            /\ b.y >= 98 /\ b.y + b.h <= 184 /\ c.y >= 230 /\ c.y + c.h <= 254
        BY <2>3 DEF InColumn
      <3>. QED
        BY <3>1 DEF Apart
    <2>4. CASE InColumn(b, 196, 222) /\ InColumn(c, 98, 184)
      <3>1. /\ b.y \in Nat /\ b.h \in Nat /\ c.y \in Nat /\ c.h \in Nat
            /\ b.y >= 196 /\ b.y + b.h <= 222 /\ c.y >= 98 /\ c.y + c.h <= 184
        BY <2>4 DEF InColumn
      <3>. QED
        BY <3>1 DEF Apart
    <2>5. CASE InColumn(b, 196, 222) /\ InColumn(c, 230, 254)
      <3>1. /\ b.y \in Nat /\ b.h \in Nat /\ c.y \in Nat /\ c.h \in Nat
            /\ b.y >= 196 /\ b.y + b.h <= 222 /\ c.y >= 230 /\ c.y + c.h <= 254
        BY <2>5 DEF InColumn
      <3>. QED
        BY <3>1 DEF Apart
    <2>6. CASE InColumn(b, 230, 254) /\ InColumn(c, 98, 184)
      <3>1. /\ b.y \in Nat /\ b.h \in Nat /\ c.y \in Nat /\ c.h \in Nat
            /\ b.y >= 230 /\ b.y + b.h <= 254 /\ c.y >= 98 /\ c.y + c.h <= 184
        BY <2>6 DEF InColumn
      <3>. QED
        BY <3>1 DEF Apart
    <2>7. CASE InColumn(b, 230, 254) /\ InColumn(c, 196, 222)
      <3>1. /\ b.y \in Nat /\ b.h \in Nat /\ c.y \in Nat /\ c.h \in Nat
            /\ b.y >= 230 /\ b.y + b.h <= 254 /\ c.y >= 196 /\ c.y + c.h <= 222
        BY <2>7 DEF InColumn
      <3>. QED
        BY <3>1 DEF Apart
    <2>. QED
      BY <2>1, <2>2, <2>3, <2>4, <2>5, <2>6, <2>7, Zenon
  <1>. QED
    BY <1>3, <1>5

LEMMA InkIsSafe ==
    ASSUME NEW l \in Badges
    PROVE  LET ink == Ink(l) IN
             /\ \A b \in ink : Within(b, Label)
             /\ \A b, c \in ink : b # c => Apart(b, c)
             /\ Within(BandInk(l), Band)
             /\ HasQr(l) => \A b \in ink \ {Symbol(l)} :
                    Apart(b, Around(Symbol(l), 4 * QrMag))
  <1>1. ASSUME NEW b \in TextInk(l)
        PROVE  /\ b.x = 16 /\ b.w \in Nat /\ b.w <= 249
               /\ b.y \in Nat /\ b.h \in Nat /\ b.y >= 98 /\ b.y + b.h <= 254
    BY <1>1, InkIs DEF InColumn
  <1>2. Band = [x |-> 0, y |-> 10, w |-> 480, h |-> 76]
    BY DEF Band, Box
  <1>3. Label = [x |-> 0, y |-> 0, w |-> 480, h |-> 320]
    BY DEF Label, Box
  <1>4. HasQr(l) => /\ Symbol(l).x = 300 /\ Symbol(l).y = 131 /\ Symbol(l).w \in Nat
                    /\ Symbol(l).w <= 165 /\ Symbol(l).h = Symbol(l).w
    BY SymbolIs
  <1>5. ASSUME NEW b \in Ink(l)
        PROVE  b \in TextInk(l) \/ b = Band \/ (HasQr(l) /\ b = Symbol(l))
    BY <1>5 DEF Ink
  <1>6. ASSUME NEW b \in Ink(l) PROVE Within(b, Label)
    BY <1>1, <1>2, <1>3, <1>4, <1>5, <1>6 DEF Within
  <1>7. ASSUME NEW b \in TextInk(l) PROVE Apart(b, Band) /\ Apart(Band, b)
    BY <1>1, <1>2, <1>7 DEF Apart
  <1>8. ASSUME NEW b \in TextInk(l), HasQr(l) PROVE Apart(b, Symbol(l)) /\ Apart(Symbol(l), b)
    BY <1>1, <1>4, <1>8 DEF Apart
  <1>9. HasQr(l) => Apart(Band, Symbol(l)) /\ Apart(Symbol(l), Band)
    BY <1>2, <1>4 DEF Apart
  <1>10. ASSUME NEW b \in Ink(l), NEW c \in Ink(l), b # c PROVE Apart(b, c)
    BY <1>5, <1>7, <1>8, <1>9, <1>10, TextApart
  <1>11. Within(BandInk(l), Band)
    <2> DEFINE size == BandFontSize(BandText(l.role), BandMax(l.lang))
    <2>1. size \in 28..50
      <3>1. BandText(l.role) \in Nat /\ BandMax(l.lang) \in {46, 50}
        BY BandTextIs, LanguageIs
      <3> DEFINE n == BandText(l.role)
                 max == BandMax(l.lang)
      <3>2. n \in Nat /\ max \in {46, 50}
        BY <3>1
      <3> HIDE DEF n, max
      <3>3. BandFontSize(n, max) \in 28..50
        BY <3>2, BandFontType, Zenon
      <3>. QED
        BY <3>3 DEF n, max
    <2>2. BandInk(l) = [x |-> 16, y |-> 10 + (76 - size + 1) \div 2, w |-> 448, h |-> size]
      BY DEF BandInk, Box, TextLeft
    <2> HIDE DEF size
    <2>3. /\ BandInk(l).x = 16 /\ BandInk(l).w = 448 /\ BandInk(l).h = size
          /\ BandInk(l).y = 10 + (76 - size + 1) \div 2
      BY <2>2
    <2>4. /\ 10 + (76 - size + 1) \div 2 >= 10
          /\ 10 + (76 - size + 1) \div 2 + size <= 86
      BY <2>1
    <2>. QED
      BY <1>2, <2>3, <2>4 DEF Within
  <1>12. ASSUME HasQr(l), NEW b \in Ink(l), b # Symbol(l)
         PROVE  Apart(b, Around(Symbol(l), 4 * QrMag))
    <2>1. /\ Around(Symbol(l), 4 * QrMag).x = 280 /\ Around(Symbol(l), 4 * QrMag).y = 111
          /\ Around(Symbol(l), 4 * QrMag).w = Symbol(l).w + 40
          /\ Around(Symbol(l), 4 * QrMag).h = Symbol(l).w + 40
      BY <1>4, <1>12 DEF Around, Box, QrMag
    <2> DEFINE around == Around(Symbol(l), 4 * QrMag)
    <2>2. around.x = 280 /\ around.y = 111
      BY <2>1
    <2> HIDE DEF around
    <2>3. ASSUME b \in TextInk(l) PROVE b.x + b.w <= around.x
      <3>1. b.x = 16 /\ b.w \in Nat /\ b.w <= 249
        BY <1>1, <2>3
      <3>. QED
        BY <2>2, <3>1
    <2>4. ASSUME b = Band PROVE b.y + b.h <= around.y
      <3>1. b.y = 10 /\ b.h = 76
        BY <1>2, <2>4
      <3>. QED
        BY <2>2, <3>1
    <2>. QED
      BY <1>5, <1>12, <2>3, <2>4, Zenon DEF around, Apart
  <1>. QED
    BY <1>6, <1>10, <1>11, <1>12

\* The size found is the largest at which some breaking of the name fits.
LEMMA LargestIs ==
    ASSUME NEW name \in Names, NEW sizes,
           sizes = {s \in NameSizes : Fitting(s, name) # {}}, sizes # {}
    PROVE  FitName(name) = Max(sizes) /\ FitName(name) \in sizes
  <1>1. sizes = {s \in NameSizes : ~Overflows(s, name)}
    BY WholeIs
  <1> DEFINE S == sizes \cup {24}
  <1>2. FitName(name) = Max(S)
    BY <1>1, Zenon DEF FitName
  <1>3. S \in SUBSET NameSizes /\ S # {} /\ sizes \in SUBSET NameSizes
    BY DEF NameSizes
  <1>4. \A s \in NameSizes : s \in Nat /\ s >= 24
    BY DEF NameSizes
  <1>5. Max(sizes) \in sizes /\ \A y \in sizes : Max(sizes) >= y
    BY <1>3, MaxOfSizes
  <1>6. Max(S) \in S /\ \A y \in S : Max(S) >= y
    <2> HIDE DEF S
    <2>. QED
      BY <1>3, MaxOfSizes
  <1> DEFINE m == Max(sizes)
             n == Max(S)
  <1>7. /\ m \in sizes /\ m \in Nat /\ m >= 24 /\ n \in Nat
        /\ n >= m /\ (n \in sizes \/ n = 24) /\ (n \in sizes => m >= n)
    BY <1>3, <1>4, <1>5, <1>6
  <1> HIDE DEF m, n
  <1>8. n = m
    BY <1>7
  <1>. QED
    BY <1>2, <1>7, <1>8 DEF m, n

\* A byte cut in two: what is above weight w, and the rest.
Split(byte, w, upper, lower) ==
    upper \in Nat /\ lower \in Nat /\ lower < w /\ byte = w * upper + lower

Bit(x) == x \in {0, 1}
Halves(w, v) == w \in {128, 64, 32, 16, 8, 4, 2, 1} /\ v = 2 * w

\* One dot more of a byte as it is packed: all the rest is still white.
LEMMA DotIs ==
    ASSUME NEW w, NEW v, Halves(w, v), NEW upper, NEW bit, Bit(bit),
           NEW byte, Split(byte, v, upper, v - 1)
    PROVE  Split(byte - (w - w * bit), w, 2 * upper + bit, w - 1)
  <1>1. upper \in Nat /\ byte = v * upper + (v - 1)
    BY DEF Split
  <1>2. (bit = 0 \/ bit = 1) /\ w \in {128, 64, 32, 16, 8, 4, 2, 1} /\ v = 2 * w
    BY DEF Bit, Halves
  <1>3. CASE w = 128
    <2>1. byte = 256 * upper + 255
      BY <1>1, <1>2, <1>3
    <2>2. CASE bit = 0
      BY <1>1, <1>3, <2>1, <2>2 DEF Split
    <2>3. CASE bit = 1
      BY <1>1, <1>3, <2>1, <2>3 DEF Split
    <2>. QED
      BY <1>2, <2>2, <2>3
  <1>4. CASE w = 64
    <2>1. byte = 128 * upper + 127
      BY <1>1, <1>2, <1>4
    <2>2. CASE bit = 0
      BY <1>1, <1>4, <2>1, <2>2 DEF Split
    <2>3. CASE bit = 1
      BY <1>1, <1>4, <2>1, <2>3 DEF Split
    <2>. QED
      BY <1>2, <2>2, <2>3
  <1>5. CASE w = 32
    <2>1. byte = 64 * upper + 63
      BY <1>1, <1>2, <1>5
    <2>2. CASE bit = 0
      BY <1>1, <1>5, <2>1, <2>2 DEF Split
    <2>3. CASE bit = 1
      BY <1>1, <1>5, <2>1, <2>3 DEF Split
    <2>. QED
      BY <1>2, <2>2, <2>3
  <1>6. CASE w = 16
    <2>1. byte = 32 * upper + 31
      BY <1>1, <1>2, <1>6
    <2>2. CASE bit = 0
      BY <1>1, <1>6, <2>1, <2>2 DEF Split
    <2>3. CASE bit = 1
      BY <1>1, <1>6, <2>1, <2>3 DEF Split
    <2>. QED
      BY <1>2, <2>2, <2>3
  <1>7. CASE w = 8
    <2>1. byte = 16 * upper + 15
      BY <1>1, <1>2, <1>7
    <2>2. CASE bit = 0
      BY <1>1, <1>7, <2>1, <2>2 DEF Split
    <2>3. CASE bit = 1
      BY <1>1, <1>7, <2>1, <2>3 DEF Split
    <2>. QED
      BY <1>2, <2>2, <2>3
  <1>8. CASE w = 4
    <2>1. byte = 8 * upper + 7
      BY <1>1, <1>2, <1>8
    <2>2. CASE bit = 0
      BY <1>1, <1>8, <2>1, <2>2 DEF Split
    <2>3. CASE bit = 1
      BY <1>1, <1>8, <2>1, <2>3 DEF Split
    <2>. QED
      BY <1>2, <2>2, <2>3
  <1>9. CASE w = 2
    <2>1. byte = 4 * upper + 3
      BY <1>1, <1>2, <1>9
    <2>2. CASE bit = 0
      BY <1>1, <1>9, <2>1, <2>2 DEF Split
    <2>3. CASE bit = 1
      BY <1>1, <1>9, <2>1, <2>3 DEF Split
    <2>. QED
      BY <1>2, <2>2, <2>3
  <1>10. CASE w = 1
    <2>1. byte = 2 * upper + 1
      BY <1>1, <1>2, <1>10
    <2>2. CASE bit = 0
      BY <1>1, <1>10, <2>1, <2>2 DEF Split
    <2>3. CASE bit = 1
      BY <1>1, <1>10, <2>1, <2>3 DEF Split
    <2>. QED
      BY <1>2, <2>2, <2>3
  <1>. QED
    BY <1>3, <1>4, <1>5, <1>6, <1>7, <1>8, <1>9, <1>10, <1>2

BitOf(byte, w) == (byte \div w) % 2

\* One bit read off a byte, and the cut moved above it.
LEMMA BitIs ==
    ASSUME NEW w, NEW v, Halves(w, v), NEW upper \in Nat,
           NEW bit, Bit(bit), NEW byte, NEW lower, Split(byte, w, 2 * upper + bit, lower)
    PROVE  BitOf(byte, w) = bit /\ Split(byte, v, upper, w * bit + lower)
  <1> DEFINE next == 2 * upper + bit
  <1>1. next \in Nat /\ next % 2 = bit
    BY DEF Bit
  <1>2. lower \in Nat /\ lower < w /\ byte = w * next + lower
    BY DEF Split
  <1>3. (bit = 0 \/ bit = 1) /\ w \in {128, 64, 32, 16, 8, 4, 2, 1} /\ v = 2 * w
    BY DEF Bit, Halves
  <1> HIDE DEF next
  <1>4. CASE w = 128
    <2>1. byte \div 128 = next
      BY <1>1, <1>2, <1>4
    <2>2. CASE bit = 0
      <3>1. next = 2 * upper
        BY <2>2 DEF next
      <3>. QED
        BY <1>1, <1>2, <1>3, <1>4, <2>1, <2>2, <3>1 DEF Split, BitOf
    <2>3. CASE bit = 1
      <3>1. next = 2 * upper + 1
        BY <2>3 DEF next
      <3>. QED
        BY <1>1, <1>2, <1>3, <1>4, <2>1, <2>3, <3>1 DEF Split, BitOf
    <2>. QED
      BY <1>3, <2>2, <2>3
  <1>5. CASE w = 64
    <2>1. byte \div 64 = next
      BY <1>1, <1>2, <1>5
    <2>2. CASE bit = 0
      <3>1. next = 2 * upper
        BY <2>2 DEF next
      <3>. QED
        BY <1>1, <1>2, <1>3, <1>5, <2>1, <2>2, <3>1 DEF Split, BitOf
    <2>3. CASE bit = 1
      <3>1. next = 2 * upper + 1
        BY <2>3 DEF next
      <3>. QED
        BY <1>1, <1>2, <1>3, <1>5, <2>1, <2>3, <3>1 DEF Split, BitOf
    <2>. QED
      BY <1>3, <2>2, <2>3
  <1>6. CASE w = 32
    <2>1. byte \div 32 = next
      BY <1>1, <1>2, <1>6
    <2>2. CASE bit = 0
      <3>1. next = 2 * upper
        BY <2>2 DEF next
      <3>. QED
        BY <1>1, <1>2, <1>3, <1>6, <2>1, <2>2, <3>1 DEF Split, BitOf
    <2>3. CASE bit = 1
      <3>1. next = 2 * upper + 1
        BY <2>3 DEF next
      <3>. QED
        BY <1>1, <1>2, <1>3, <1>6, <2>1, <2>3, <3>1 DEF Split, BitOf
    <2>. QED
      BY <1>3, <2>2, <2>3
  <1>7. CASE w = 16
    <2>1. byte \div 16 = next
      BY <1>1, <1>2, <1>7
    <2>2. CASE bit = 0
      <3>1. next = 2 * upper
        BY <2>2 DEF next
      <3>. QED
        BY <1>1, <1>2, <1>3, <1>7, <2>1, <2>2, <3>1 DEF Split, BitOf
    <2>3. CASE bit = 1
      <3>1. next = 2 * upper + 1
        BY <2>3 DEF next
      <3>. QED
        BY <1>1, <1>2, <1>3, <1>7, <2>1, <2>3, <3>1 DEF Split, BitOf
    <2>. QED
      BY <1>3, <2>2, <2>3
  <1>8. CASE w = 8
    <2>1. byte \div 8 = next
      BY <1>1, <1>2, <1>8
    <2>2. CASE bit = 0
      <3>1. next = 2 * upper
        BY <2>2 DEF next
      <3>. QED
        BY <1>1, <1>2, <1>3, <1>8, <2>1, <2>2, <3>1 DEF Split, BitOf
    <2>3. CASE bit = 1
      <3>1. next = 2 * upper + 1
        BY <2>3 DEF next
      <3>. QED
        BY <1>1, <1>2, <1>3, <1>8, <2>1, <2>3, <3>1 DEF Split, BitOf
    <2>. QED
      BY <1>3, <2>2, <2>3
  <1>9. CASE w = 4
    <2>1. byte \div 4 = next
      BY <1>1, <1>2, <1>9
    <2>2. CASE bit = 0
      <3>1. next = 2 * upper
        BY <2>2 DEF next
      <3>. QED
        BY <1>1, <1>2, <1>3, <1>9, <2>1, <2>2, <3>1 DEF Split, BitOf
    <2>3. CASE bit = 1
      <3>1. next = 2 * upper + 1
        BY <2>3 DEF next
      <3>. QED
        BY <1>1, <1>2, <1>3, <1>9, <2>1, <2>3, <3>1 DEF Split, BitOf
    <2>. QED
      BY <1>3, <2>2, <2>3
  <1>10. CASE w = 2
    <2>1. byte \div 2 = next
      BY <1>1, <1>2, <1>10
    <2>2. CASE bit = 0
      <3>1. next = 2 * upper
        BY <2>2 DEF next
      <3>. QED
        BY <1>1, <1>2, <1>3, <1>10, <2>1, <2>2, <3>1 DEF Split, BitOf
    <2>3. CASE bit = 1
      <3>1. next = 2 * upper + 1
        BY <2>3 DEF next
      <3>. QED
        BY <1>1, <1>2, <1>3, <1>10, <2>1, <2>3, <3>1 DEF Split, BitOf
    <2>. QED
      BY <1>3, <2>2, <2>3
  <1>11. CASE w = 1
    <2>1. byte \div 1 = next
      BY <1>1, <1>2, <1>11
    <2>2. CASE bit = 0
      <3>1. next = 2 * upper
        BY <2>2 DEF next
      <3>. QED
        BY <1>1, <1>2, <1>3, <1>11, <2>1, <2>2, <3>1 DEF Split, BitOf
    <2>3. CASE bit = 1
      <3>1. next = 2 * upper + 1
        BY <2>3 DEF next
      <3>. QED
        BY <1>1, <1>2, <1>3, <1>11, <2>1, <2>3, <3>1 DEF Split, BitOf
    <2>. QED
      BY <1>3, <2>2, <2>3
  <1>. QED
    BY <1>4, <1>5, <1>6, <1>7, <1>8, <1>9, <1>10, <1>11, <1>3

ByteOf(white) == 255 - (128 - 128 * white[1]) - (64 - 64 * white[2]) - (32 - 32 * white[3])
                     - (16 - 16 * white[4]) - (8 - 8 * white[5]) - (4 - 4 * white[6])
                     - (2 - 2 * white[7]) - (1 - 1 * white[8])

\* The eight bits of a byte: added from the left (upper) as it is packed, and read
\* off it from the right (lower).
LEMMA BitsAre ==
    ASSUME NEW white, \A j \in 1..8 : Bit(white[j])
    PROVE  /\ BitOf(ByteOf(white), 128) = white[1] /\ BitOf(ByteOf(white), 64) = white[2]
           /\ BitOf(ByteOf(white), 32) = white[3] /\ BitOf(ByteOf(white), 16) = white[4]
           /\ BitOf(ByteOf(white), 8) = white[5] /\ BitOf(ByteOf(white), 4) = white[6]
           /\ BitOf(ByteOf(white), 2) = white[7] /\ BitOf(ByteOf(white), 1) = white[8]
  <1>1. /\ Bit(white[1])
        /\ Bit(white[2])
        /\ Bit(white[3])
        /\ Bit(white[4])
        /\ Bit(white[5])
        /\ Bit(white[6])
        /\ Bit(white[7])
        /\ Bit(white[8])
    OBVIOUS
  <1> DEFINE p1 == 255 - (128 - 128 * white[1])
             p2 == p1 - (64 - 64 * white[2])
             p3 == p2 - (32 - 32 * white[3])
             p4 == p3 - (16 - 16 * white[4])
             p5 == p4 - (8 - 8 * white[5])
             p6 == p5 - (4 - 4 * white[6])
             p7 == p6 - (2 - 2 * white[7])
             p8 == p7 - (1 - 1 * white[8])
             h1 == 2 * 0 + white[1]
             h2 == 2 * h1 + white[2]
             h3 == 2 * h2 + white[3]
             h4 == 2 * h3 + white[4]
             h5 == 2 * h4 + white[5]
             h6 == 2 * h5 + white[6]
             h7 == 2 * h6 + white[7]
             h8 == 2 * h7 + white[8]
             l8 == 0
             l7 == 1 * white[8] + l8
             l6 == 2 * white[7] + l7
             l5 == 4 * white[6] + l6
             l4 == 8 * white[5] + l5
             l3 == 16 * white[4] + l4
             l2 == 32 * white[3] + l3
             l1 == 64 * white[2] + l2
  <1> DEFINE byte == ByteOf(white)
  <1>2. byte = p8
    BY DEF ByteOf
  <1> HIDE DEF byte
  <1>3. Split(p1, 128, h1, 127)
    <2>1. white[1] = 0 \/ white[1] = 1
      BY <1>1 DEF Bit
    <2>. QED
      BY <2>1 DEF Split
  <1>4. Split(p2, 64, h2, 63)
    <2>1. p2 = p1 - (64 - 64 * white[2]) /\ h2 = 2 * h1 + white[2]
      OBVIOUS
    <2> HIDE DEF p1, h1, p2, h2
    <2>2. 128 - 1 = 127 /\ 64 - 1 = 63 /\ Halves(64, 128)
      BY DEF Halves
    <2>3. Split(p1, 128, h1, 128 - 1)
      BY <1>3, <2>2, Zenon
    <2>4. Bit(white[2])
      BY <1>1
    <2>5. Split(p1 - (64 - 64 * white[2]), 64, 2 * h1 + white[2], 64 - 1)
      BY <2>4, <2>2, <2>3, DotIs
    <2>. QED
      BY <2>1, <2>2, <2>5, Zenon
  <1>5. Split(p3, 32, h3, 31)
    <2>1. p3 = p2 - (32 - 32 * white[3]) /\ h3 = 2 * h2 + white[3]
      OBVIOUS
    <2> HIDE DEF p2, h2, p3, h3
    <2>2. 64 - 1 = 63 /\ 32 - 1 = 31 /\ Halves(32, 64)
      BY DEF Halves
    <2>3. Split(p2, 64, h2, 64 - 1)
      BY <1>4, <2>2, Zenon
    <2>4. Bit(white[3])
      BY <1>1
    <2>5. Split(p2 - (32 - 32 * white[3]), 32, 2 * h2 + white[3], 32 - 1)
      BY <2>4, <2>2, <2>3, DotIs
    <2>. QED
      BY <2>1, <2>2, <2>5, Zenon
  <1>6. Split(p4, 16, h4, 15)
    <2>1. p4 = p3 - (16 - 16 * white[4]) /\ h4 = 2 * h3 + white[4]
      OBVIOUS
    <2> HIDE DEF p3, h3, p4, h4
    <2>2. 32 - 1 = 31 /\ 16 - 1 = 15 /\ Halves(16, 32)
      BY DEF Halves
    <2>3. Split(p3, 32, h3, 32 - 1)
      BY <1>5, <2>2, Zenon
    <2>4. Bit(white[4])
      BY <1>1
    <2>5. Split(p3 - (16 - 16 * white[4]), 16, 2 * h3 + white[4], 16 - 1)
      BY <2>4, <2>2, <2>3, DotIs
    <2>. QED
      BY <2>1, <2>2, <2>5, Zenon
  <1>7. Split(p5, 8, h5, 7)
    <2>1. p5 = p4 - (8 - 8 * white[5]) /\ h5 = 2 * h4 + white[5]
      OBVIOUS
    <2> HIDE DEF p4, h4, p5, h5
    <2>2. 16 - 1 = 15 /\ 8 - 1 = 7 /\ Halves(8, 16)
      BY DEF Halves
    <2>3. Split(p4, 16, h4, 16 - 1)
      BY <1>6, <2>2, Zenon
    <2>4. Bit(white[5])
      BY <1>1
    <2>5. Split(p4 - (8 - 8 * white[5]), 8, 2 * h4 + white[5], 8 - 1)
      BY <2>4, <2>2, <2>3, DotIs
    <2>. QED
      BY <2>1, <2>2, <2>5, Zenon
  <1>8. Split(p6, 4, h6, 3)
    <2>1. p6 = p5 - (4 - 4 * white[6]) /\ h6 = 2 * h5 + white[6]
      OBVIOUS
    <2> HIDE DEF p5, h5, p6, h6
    <2>2. 8 - 1 = 7 /\ 4 - 1 = 3 /\ Halves(4, 8)
      BY DEF Halves
    <2>3. Split(p5, 8, h5, 8 - 1)
      BY <1>7, <2>2, Zenon
    <2>4. Bit(white[6])
      BY <1>1
    <2>5. Split(p5 - (4 - 4 * white[6]), 4, 2 * h5 + white[6], 4 - 1)
      BY <2>4, <2>2, <2>3, DotIs
    <2>. QED
      BY <2>1, <2>2, <2>5, Zenon
  <1>9. Split(p7, 2, h7, 1)
    <2>1. p7 = p6 - (2 - 2 * white[7]) /\ h7 = 2 * h6 + white[7]
      OBVIOUS
    <2> HIDE DEF p6, h6, p7, h7
    <2>2. 4 - 1 = 3 /\ 2 - 1 = 1 /\ Halves(2, 4)
      BY DEF Halves
    <2>3. Split(p6, 4, h6, 4 - 1)
      BY <1>8, <2>2, Zenon
    <2>4. Bit(white[7])
      BY <1>1
    <2>5. Split(p6 - (2 - 2 * white[7]), 2, 2 * h6 + white[7], 2 - 1)
      BY <2>4, <2>2, <2>3, DotIs
    <2>. QED
      BY <2>1, <2>2, <2>5, Zenon
  <1>10. Split(p8, 1, h8, 0)
    <2>1. p8 = p7 - (1 - 1 * white[8]) /\ h8 = 2 * h7 + white[8]
      OBVIOUS
    <2> HIDE DEF p7, h7, p8, h8
    <2>2. 2 - 1 = 1 /\ 1 - 1 = 0 /\ Halves(1, 2)
      BY DEF Halves
    <2>3. Split(p7, 2, h7, 2 - 1)
      BY <1>9, <2>2, Zenon
    <2>4. Bit(white[8])
      BY <1>1
    <2>5. Split(p7 - (1 - 1 * white[8]), 1, 2 * h7 + white[8], 1 - 1)
      BY <2>4, <2>2, <2>3, DotIs
    <2>. QED
      BY <2>1, <2>2, <2>5, Zenon
  <1>11. Split(byte, 1, h8, l8)
    <2> HIDE DEF h8, p8
    <2>. QED
      BY <1>2, <1>10, Zenon
  <1>12. BitOf(byte, 1) = white[8] /\ Split(byte, 2, h7, l7)
    <2>1. h8 = 2 * h7 + white[8] /\ l7 = 1 * white[8] + l8
      OBVIOUS
    <2>2. h7 \in Nat
      <3> HIDE DEF h7, p7
      <3>. QED
        BY <1>9 DEF Split
    <2> HIDE DEF h7, h8, l7, l8
    <2>3. Halves(1, 2)
      BY DEF Halves
    <2>4. Split(byte, 1, 2 * h7 + white[8], l8)
      BY <1>11, <2>1, Zenon
    <2>5. BitOf(byte, 1) = white[8] /\ Split(byte, 2, h7, 1 * white[8] + l8)
      BY <1>1, <2>2, <2>3, <2>4, BitIs
    <2>. QED
      BY <2>1, <2>5, Zenon
  <1>13. BitOf(byte, 2) = white[7] /\ Split(byte, 4, h6, l6)
    <2>1. h7 = 2 * h6 + white[7] /\ l6 = 2 * white[7] + l7
      OBVIOUS
    <2>2. h6 \in Nat
      <3> HIDE DEF h6, p6
      <3>. QED
        BY <1>8 DEF Split
    <2> HIDE DEF h6, h7, l6, l7
    <2>3. Halves(2, 4)
      BY DEF Halves
    <2>4. Split(byte, 2, 2 * h6 + white[7], l7)
      BY <1>12, <2>1, Zenon
    <2>5. BitOf(byte, 2) = white[7] /\ Split(byte, 4, h6, 2 * white[7] + l7)
      BY <1>1, <2>2, <2>3, <2>4, BitIs
    <2>. QED
      BY <2>1, <2>5, Zenon
  <1>14. BitOf(byte, 4) = white[6] /\ Split(byte, 8, h5, l5)
    <2>1. h6 = 2 * h5 + white[6] /\ l5 = 4 * white[6] + l6
      OBVIOUS
    <2>2. h5 \in Nat
      <3> HIDE DEF h5, p5
      <3>. QED
        BY <1>7 DEF Split
    <2> HIDE DEF h5, h6, l5, l6
    <2>3. Halves(4, 8)
      BY DEF Halves
    <2>4. Split(byte, 4, 2 * h5 + white[6], l6)
      BY <1>13, <2>1, Zenon
    <2>5. BitOf(byte, 4) = white[6] /\ Split(byte, 8, h5, 4 * white[6] + l6)
      BY <1>1, <2>2, <2>3, <2>4, BitIs
    <2>. QED
      BY <2>1, <2>5, Zenon
  <1>15. BitOf(byte, 8) = white[5] /\ Split(byte, 16, h4, l4)
    <2>1. h5 = 2 * h4 + white[5] /\ l4 = 8 * white[5] + l5
      OBVIOUS
    <2>2. h4 \in Nat
      <3> HIDE DEF h4, p4
      <3>. QED
        BY <1>6 DEF Split
    <2> HIDE DEF h4, h5, l4, l5
    <2>3. Halves(8, 16)
      BY DEF Halves
    <2>4. Split(byte, 8, 2 * h4 + white[5], l5)
      BY <1>14, <2>1, Zenon
    <2>5. BitOf(byte, 8) = white[5] /\ Split(byte, 16, h4, 8 * white[5] + l5)
      BY <1>1, <2>2, <2>3, <2>4, BitIs
    <2>. QED
      BY <2>1, <2>5, Zenon
  <1>16. BitOf(byte, 16) = white[4] /\ Split(byte, 32, h3, l3)
    <2>1. h4 = 2 * h3 + white[4] /\ l3 = 16 * white[4] + l4
      OBVIOUS
    <2>2. h3 \in Nat
      <3> HIDE DEF h3, p3
      <3>. QED
        BY <1>5 DEF Split
    <2> HIDE DEF h3, h4, l3, l4
    <2>3. Halves(16, 32)
      BY DEF Halves
    <2>4. Split(byte, 16, 2 * h3 + white[4], l4)
      BY <1>15, <2>1, Zenon
    <2>5. BitOf(byte, 16) = white[4] /\ Split(byte, 32, h3, 16 * white[4] + l4)
      BY <1>1, <2>2, <2>3, <2>4, BitIs
    <2>. QED
      BY <2>1, <2>5, Zenon
  <1>17. BitOf(byte, 32) = white[3] /\ Split(byte, 64, h2, l2)
    <2>1. h3 = 2 * h2 + white[3] /\ l2 = 32 * white[3] + l3
      OBVIOUS
    <2>2. h2 \in Nat
      <3> HIDE DEF h2, p2
      <3>. QED
        BY <1>4 DEF Split
    <2> HIDE DEF h2, h3, l2, l3
    <2>3. Halves(32, 64)
      BY DEF Halves
    <2>4. Split(byte, 32, 2 * h2 + white[3], l3)
      BY <1>16, <2>1, Zenon
    <2>5. BitOf(byte, 32) = white[3] /\ Split(byte, 64, h2, 32 * white[3] + l3)
      BY <1>1, <2>2, <2>3, <2>4, BitIs
    <2>. QED
      BY <2>1, <2>5, Zenon
  <1>18. BitOf(byte, 64) = white[2] /\ Split(byte, 128, h1, l1)
    <2>1. h2 = 2 * h1 + white[2] /\ l1 = 64 * white[2] + l2
      OBVIOUS
    <2>2. h1 \in Nat
      <3> HIDE DEF h1, p1
      <3>. QED
        BY <1>3 DEF Split
    <2> HIDE DEF h1, h2, l1, l2
    <2>3. Halves(64, 128)
      BY DEF Halves
    <2>4. Split(byte, 64, 2 * h1 + white[2], l2)
      BY <1>17, <2>1, Zenon
    <2>5. BitOf(byte, 64) = white[2] /\ Split(byte, 128, h1, 64 * white[2] + l2)
      BY <1>1, <2>2, <2>3, <2>4, BitIs
    <2>. QED
      BY <2>1, <2>5, Zenon
  <1>19. BitOf(byte, 128) = white[1] /\ Split(byte, 256, 0, 128 * white[1] + l1)
    <2>1. h1 = 2 * 0 + white[1]
      OBVIOUS
    <2>2. 0 \in Nat
      OBVIOUS
    <2> HIDE DEF h1, l1
    <2>3. Halves(128, 256)
      BY DEF Halves
    <2>4. Split(byte, 128, 2 * 0 + white[1], l1)
      BY <1>18, <2>1, Zenon
    <2>5. BitOf(byte, 128) = white[1] /\ Split(byte, 256, 0, 128 * white[1] + l1)
      BY <1>1, <2>2, <2>3, <2>4, BitIs
    <2>. QED
      BY <2>1, <2>5, Zenon
  <1> HIDE DEF h1, l1, h2, l2, h3, l3, h4, l4, h5, l5, h6, l6, h7, l7, h8, l8
  <1>. QED
    BY <1>19, <1>18, <1>17, <1>16, <1>15, <1>14, <1>13, <1>12, Zenon DEF byte

LEMMA PackingIs == PackingKeepsDots
  <1> SUFFICES ASSUME NEW black \in SUBSET {<<x, 3>> : x \in 8..15}, NEW k \in 1..8
               PROVE  LeavesInk(PackByte(black, 3, 1), k) <=> <<7 + k, 3>> \in black
    BY DEF PackingKeepsDots
  <1> DEFINE white == [j \in 1..8 |-> IF <<7 + j, 3>> \in black THEN 0 ELSE 1]
             byte == PackByte(black, 3, 1)
  <1>1. (\A j \in 1..8 : Bit(white[j])) /\ (white[k] = 0 <=> <<7 + k, 3>> \in black)
    BY DEF Bit
  <1>2. Cleared(black, 3, 1, 1) = 128 - 128 * white[1]
    BY DEF Cleared, Weight
  <1>3. Cleared(black, 3, 1, 2) = 64 - 64 * white[2]
    BY DEF Cleared, Weight
  <1>4. Cleared(black, 3, 1, 3) = 32 - 32 * white[3]
    BY DEF Cleared, Weight
  <1>5. Cleared(black, 3, 1, 4) = 16 - 16 * white[4]
    BY DEF Cleared, Weight
  <1>6. Cleared(black, 3, 1, 5) = 8 - 8 * white[5]
    BY DEF Cleared, Weight
  <1>7. Cleared(black, 3, 1, 6) = 4 - 4 * white[6]
    BY DEF Cleared, Weight
  <1>8. Cleared(black, 3, 1, 7) = 2 - 2 * white[7]
    BY DEF Cleared, Weight
  <1>9. Cleared(black, 3, 1, 8) = 1 - 1 * white[8]
    BY DEF Cleared, Weight
  <1> HIDE DEF white
  <1>10. byte = ByteOf(white)
    BY <1>2, <1>3, <1>4, <1>5, <1>6, <1>7, <1>8, <1>9, Zenon DEF PackByte, ByteOf
  <1> HIDE DEF byte
  <1>11. /\ BitOf(byte, 128) = white[1] /\ BitOf(byte, 64) = white[2]
         /\ BitOf(byte, 32) = white[3] /\ BitOf(byte, 16) = white[4]
         /\ BitOf(byte, 8) = white[5] /\ BitOf(byte, 4) = white[6]
         /\ BitOf(byte, 2) = white[7] /\ BitOf(byte, 1) = white[8]
    BY <1>1, <1>10, BitsAre, Zenon
  <1>12. BitOf(byte, Weight[k]) = white[k]
    <2>1. ASSUME k = 1 PROVE BitOf(byte, Weight[k]) = white[k]
      <3>1. Weight[1] = 128
        BY DEF Weight
      <3>. QED
        BY <1>11, <2>1, <3>1, Zenon
    <2>2. ASSUME k = 2 PROVE BitOf(byte, Weight[k]) = white[k]
      <3>1. Weight[2] = 64
        BY DEF Weight
      <3>. QED
        BY <1>11, <2>2, <3>1, Zenon
    <2>3. ASSUME k = 3 PROVE BitOf(byte, Weight[k]) = white[k]
      <3>1. Weight[3] = 32
        BY DEF Weight
      <3>. QED
        BY <1>11, <2>3, <3>1, Zenon
    <2>4. ASSUME k = 4 PROVE BitOf(byte, Weight[k]) = white[k]
      <3>1. Weight[4] = 16
        BY DEF Weight
      <3>. QED
        BY <1>11, <2>4, <3>1, Zenon
    <2>5. ASSUME k = 5 PROVE BitOf(byte, Weight[k]) = white[k]
      <3>1. Weight[5] = 8
        BY DEF Weight
      <3>. QED
        BY <1>11, <2>5, <3>1, Zenon
    <2>6. ASSUME k = 6 PROVE BitOf(byte, Weight[k]) = white[k]
      <3>1. Weight[6] = 4
        BY DEF Weight
      <3>. QED
        BY <1>11, <2>6, <3>1, Zenon
    <2>7. ASSUME k = 7 PROVE BitOf(byte, Weight[k]) = white[k]
      <3>1. Weight[7] = 2
        BY DEF Weight
      <3>. QED
        BY <1>11, <2>7, <3>1, Zenon
    <2>8. ASSUME k = 8 PROVE BitOf(byte, Weight[k]) = white[k]
      <3>1. Weight[8] = 1
        BY DEF Weight
      <3>. QED
        BY <1>11, <2>8, <3>1, Zenon
    <2>. QED
      BY <2>1, <2>2, <2>3, <2>4, <2>5, <2>6, <2>7, <2>8
  <1>. QED
    BY <1>1, <1>12, Zenon DEF LeavesInk, BitOf, byte

\* Whatever was typed, in both languages, all the ink of a label is on it, no two
\* elements touch, the role stays in its band and the symbol's surroundings stay
\* blank (badge-layout.ts, badge-zpl.ts, badge-canvas.ts).
THEOREM LabelsAreSafe == BadgeSpec => []LabelIsSafe
  <1> DEFINE Typed == label \in Badges
  <1>1. BadgeInit => Typed
    BY LabelsAssumption DEF BadgeInit
  <1>2. Typed /\ [FALSE]_label => Typed'
    OBVIOUS
  <1>3. Typed => LabelIsSafe
    BY InkIsSafe, Zenon DEF LabelIsSafe
  <1>. QED
    BY <1>1, <1>2, <1>3, PTL DEF BadgeSpec

\* On the canvas a name that can be broken to fit at any size is printed whole at the
\* largest such size, and the picture survives the packing; in both languages a band
\* of up to 25 characters fits its room and is never blank (wrapText, fitName and
\* packBitmap of the Xprinter's labels, bandFontSize of both).
THEOREM LabelsAreWhole == BadgeSpec => []LabelIsWhole
  <1> DEFINE Typed == label \in Badges
  <1>1. BadgeInit => Typed
    BY LabelsAssumption DEF BadgeInit
  <1>2. Typed /\ [FALSE]_label => Typed'
    OBVIOUS
  <1>3. Typed => LabelIsWhole
    <2> SUFFICES ASSUME Typed PROVE LabelIsWhole
      OBVIOUS
    <2> DEFINE name == label.name
               sizes == {s \in NameSizes : Fitting(s, name) # {}}
               size == FitName(name)
               lines == Wrap(size, name)
               n == BandText(label.role)
               max == BandMax(label.lang)
               font == BandFontSize(n, max)
    <2>1. name \in Names
      BY DEF Badges
    <2>2. ASSUME sizes # {}
          PROVE  /\ size = Max(sizes) /\ Consumed(lines) = Len(name)
                 /\ \A k \in DOMAIN lines : FitsLine(size, name, lines[k][1], lines[k][2])
      <3> HIDE DEF name
      <3>1. size = Max(sizes) /\ size \in sizes
        <4> DEFINE S == sizes
        <4>1. S = {s \in NameSizes : Fitting(s, name) # {}} /\ S # {}
          BY <2>2
        <4> HIDE DEF S
        <4>2. FitName(name) = Max(S) /\ FitName(name) \in S
          BY <2>1, <4>1, LargestIs
        <4>. QED
          BY <4>2 DEF S
      <3> HIDE DEF size
      <3>2. size \in NameSizes /\ Fitting(size, name) # {}
        BY <3>1
      <3>. QED
        BY <2>1, <3>1, <3>2, WholeIs
    <2>3. n \in Nat /\ n > 0 /\ max \in {46, 50}
      BY BandTextIs, LanguageIs
    <2>4. n \in 1..25 => 62 * n * font <= 44800
      <3> HIDE DEF n, max
      <3>. QED
        BY <2>3, BandFontIs
    <2>5. /\ label.lang = "tspl" /\ sizes # {} =>
                /\ size = Max(sizes) /\ Consumed(lines) = Len(name)
                /\ \A k \in DOMAIN lines : FitsLine(size, name, lines[k][1], lines[k][2])
          /\ label.lang = "tspl" => PackingKeepsDots
          /\ n \in 1..25 => 62 * n * font <= 44800
          /\ n > 0
      <3> HIDE DEF name, sizes, size, lines, n, max, font
      <3>. QED
        BY <2>2, <2>3, <2>4, PackingIs
    <2>. QED
      BY <2>5 DEF LabelIsWhole
  <1>. QED
    BY <1>1, <1>2, <1>3, PTL DEF BadgeSpec
=============================================================================
