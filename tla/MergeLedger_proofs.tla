------------------------- MODULE MergeLedger_proofs -------------------------
(***************************************************************************)
(* Proofs about MergeLedger, for any number of orders, accounts and        *)
(* requests.                                                               *)
(***************************************************************************)
EXTENDS MergeLedger, TLAPS

USE DEF Owner

-----------------------------------------------------------------------------
(* The invariant, request by request *)

LocksHoldOf(r) ==
    \A o \in Orders : lock[o] = r =>
        /\ at[r] \in {"lock", "update"}
        /\ o \in job[r].orders \ todo[r]
        /\ at[r] = "lock" => seen[r][o] = owner[o]
        /\ at[r] = "update" => StillPlaced(r, o)

LocksAscendOf(r) ==
    \A o, p \in Orders : lock[o] = r /\ p \in todo[r] => o < p

JobMakesSense(r) ==
    /\ todo[r] \subseteq job[r].orders
    /\ at[r] = "idle" => todo[r] = {}
    /\ at[r] \in {"target", "event"} => todo[r] = job[r].orders
    /\ at[r] = "target" => job[r].kind \in Actors /\ job[r].user \in Accounts
    /\ at[r] = "lock" =>
          /\ job[r].kind \in Actors \cup {"detach"} /\ job[r].user \in Accounts
          /\ \A o \in job[r].orders \ todo[r] : lock[o] = r
    /\ at[r] \in {"event", "update"} =>
          /\ job[r].kind = "reverse" /\ job[r].event \in DOMAIN ledger
          /\ job[r].orders = ledger[job[r].event].orders

CheckStands(r) ==
    ~GrantsRace =>
        /\ at[r] = "lock" /\ job[r].kind \in Actors => job[r].user \notin staff
        /\ at[r] = "update" => ~RestoresToStaff(ledger[job[r].event])

RequestInv(r) ==
    LocksHoldOf(r) /\ LocksAscendOf(r) /\ JobMakesSense(r) /\ CheckStands(r)

LEMMA ByRequest ==
    LedgerInv <=> TypeOK /\ EventsMakeSense /\ \A r \in Requests : RequestInv(r)
  BY DEF LedgerInv, LocksHold, LocksAscend, JobsMakeSense, ChecksStand, RequestInv,
         LocksHoldOf, LocksAscendOf, JobMakesSense, CheckStands

LEMMA ByRequestNext ==
    ASSUME TypeOK', EventsMakeSense', \A r \in Requests : RequestInv(r)'
    PROVE  LedgerInv'
  BY DEF LedgerInv, LocksHold, LocksAscend, JobsMakeSense, ChecksStand, RequestInv,
         LocksHoldOf, LocksAscendOf, JobMakesSense, CheckStands

-----------------------------------------------------------------------------
(* The ledger only grows, and only the mark of a reversal ever changes *)

LedgerKept ==
    \A i \in DOMAIN ledger :
        /\ i \in DOMAIN ledger'
        /\ ledger'[i].user = ledger[i].user
        /\ ledger'[i].orders = ledger[i].orders
        /\ ledger'[i].from = ledger[i].from

\* What a new event leaves and adds.
LEMMA AppendEffect ==
    ASSUME ledger \in Seq(Event), NEW e \in Event, ledger' = Append(ledger, e)
    PROVE  /\ ledger' \in Seq(Event)
           /\ Len(ledger') = Len(ledger) + 1
           /\ DOMAIN ledger' \ DOMAIN ledger = {Len(ledger) + 1}
           /\ ledger'[Len(ledger) + 1] = e
           /\ \A i \in DOMAIN ledger : ledger'[i] = ledger[i]
           /\ LedgerKept
  BY DEF LedgerKept

\* What the mark of a reversal leaves.
LEMMA MarkEffect ==
    ASSUME ledger \in Seq(Event), NEW i \in DOMAIN ledger,
           ledger' = [ledger EXCEPT ![i] = [@ EXCEPT !.reversed = TRUE]]
    PROVE  /\ ledger' \in Seq(Event)
           /\ Len(ledger') = Len(ledger)
           /\ DOMAIN ledger' = DOMAIN ledger
           /\ ledger'[i].reversed
           /\ \A j \in DOMAIN ledger \ {i} : ledger'[j] = ledger[j]
           /\ LedgerKept
  <1>1. ledger[i] \in Event
    OBVIOUS
  <1>2. [ledger[i] EXCEPT !.reversed = TRUE] \in Event
    BY <1>1 DEF Event
  <1>3. ledger' = [ledger EXCEPT ![i] = [ledger[i] EXCEPT !.reversed = TRUE]]
    OBVIOUS
  <1>4. DOMAIN ledger' = DOMAIN ledger /\ Len(ledger') = Len(ledger)
    BY <1>3
  <1>5. ledger'[i] = [ledger[i] EXCEPT !.reversed = TRUE]
    BY <1>3
  <1>6. \A j \in DOMAIN ledger \ {i} : ledger'[j] = ledger[j]
    BY <1>3
  <1>7. ledger' \in Seq(Event)
    BY <1>2, <1>3
  <1> QED
    BY <1>1, <1>4, <1>5, <1>6, <1>7 DEF LedgerKept, Event

LEMMA SameLedger == ASSUME UNCHANGED ledger PROVE LedgerKept
  BY DEF LedgerKept

-----------------------------------------------------------------------------
(* Requests that do not move *)

\* A request is not disturbed by a step that leaves its own state, its locks and
\* the owners of its rows alone.
LEMMA Bystander ==
    ASSUME TypeOK, NEW s \in Requests, RequestInv(s), LedgerKept,
           at'[s] = at[s], job'[s] = job[s], todo'[s] = todo[s], seen'[s] = seen[s],
           \A o \in Orders : (lock'[o] = s) = (lock[o] = s),
           \A o \in Orders : lock[o] = s => owner'[o] = owner[o],
           staff' = staff \/ GrantsRace \/ at[s] = "idle"
    PROVE  RequestInv(s)'
  <1>1. at[s] \in {"event", "update"} =>
           /\ job[s].event \in DOMAIN ledger
           /\ ledger'[job[s].event].user = ledger[job[s].event].user
           /\ ledger'[job[s].event].orders = ledger[job[s].event].orders
           /\ ledger'[job[s].event].from = ledger[job[s].event].from
           /\ job[s].event \in DOMAIN ledger'
    BY DEF RequestInv, JobMakesSense, LedgerKept
  <1>2. LocksHoldOf(s)'
    BY <1>1 DEF RequestInv, LocksHoldOf, StillPlaced
  <1>3. LocksAscendOf(s)'
    BY DEF RequestInv, LocksAscendOf
  <1>4. JobMakesSense(s)'
    <2>1. job[s].orders \subseteq Orders
      BY DEF TypeOK, Job
    <2> QED
      BY <1>1, <2>1 DEF RequestInv, JobMakesSense
  <1>5. CheckStands(s)'
    BY <1>1 DEF RequestInv, CheckStands, RestoresToStaff
  <1> QED
    BY <1>2, <1>3, <1>4, <1>5 DEF RequestInv

\* A request that is done holds nothing and disturbs nobody.
LEMMA FinishKeepsRequests ==
    ASSUME LedgerInv, NEW r \in Requests, Finish(r), LedgerKept,
           \A o \in Orders : lock[o] # r => owner'[o] = owner[o]
    PROVE  \A s \in Requests : RequestInv(s)'
  <1>1. TypeOK /\ \A s \in Requests : RequestInv(s)
    BY ByRequest
  <1>2. \A o \in Orders : lock'[o] # r
    BY <1>1, RequestsAssumption DEF Finish, TypeOK
  <1>3. RequestInv(r)'
    <2>1. at'[r] = "idle" /\ todo'[r] = {} /\ job'[r] = NoJob
      BY <1>1 DEF Finish, TypeOK
    <2> QED
      BY <1>2, <2>1
      DEF RequestInv, LocksHoldOf, LocksAscendOf, JobMakesSense, CheckStands
  <1>4. ASSUME NEW s \in Requests, s # r PROVE RequestInv(s)'
    <2>1. RequestInv(s)
      BY <1>1
    <2>2. at'[s] = at[s] /\ job'[s] = job[s] /\ todo'[s] = todo[s] /\ seen'[s] = seen[s]
      BY <1>1, <1>4 DEF Finish, TypeOK
    <2>3. \A o \in Orders : (lock'[o] = s) = (lock[o] = s)
      BY <1>1, <1>4, RequestsAssumption DEF Finish
    <2>4. \A o \in Orders : lock[o] = s => owner'[o] = owner[o]
      BY <1>4
    <2>5. staff' = staff
      BY DEF Finish, world
    <2> QED
      BY <1>1, <2>1, <2>2, <2>3, <2>4, <2>5, Bystander
  <1> QED
    BY <1>3, <1>4

LEMMA FinishTypes ==
    ASSUME TypeOK, NEW r \in Requests, Finish(r), owner' \in [Orders -> Owner],
           ledger' \in Seq(Event), Len(ledger') >= Len(ledger)
    PROVE  TypeOK'
  <1>1. NoJob \in Job /\ Unread \in [Orders -> Owner]
    BY DEF NoJob, Job, Unread
  <1>2. lock' \in [Orders -> Requests \cup {Nobody}]
    BY DEF Finish, TypeOK
  <1>3. expired' \in 0..Len(ledger')
    <2>1. Len(ledger) \in Nat /\ Len(ledger') \in Nat /\ expired \in 0..Len(ledger)
      BY DEF TypeOK
    <2> QED
      BY <2>1 DEF Finish, world
  <1> QED
    BY <1>1, <1>2, <1>3 DEF Finish, TypeOK, world

\* A refusal or a rollback leaves the invariant alone.
LEMMA RefuseStep ==
    ASSUME LedgerInv, NEW r \in Requests, Refuse(r) PROVE LedgerInv'
  <1>1. TypeOK'
    <2>1. TypeOK /\ UNCHANGED <<owner, ledger>> /\ Finish(r)
      BY DEF LedgerInv, Refuse
    <2>2. Len(ledger) \in Nat /\ owner' \in [Orders -> Owner] /\ ledger' \in Seq(Event)
      BY <2>1 DEF TypeOK
    <2> QED
      BY <2>1, <2>2, FinishTypes
  <1>2. \A s \in Requests : RequestInv(s)'
    BY FinishKeepsRequests, SameLedger DEF Refuse
  <1>3. EventsMakeSense'
    BY DEF LedgerInv, Refuse, EventsMakeSense
  <1> QED
    BY <1>1, <1>2, <1>3, ByRequestNext

-----------------------------------------------------------------------------
(* Steps that begin, go on, or concern no request *)

GoodJob(step, j) ==
    /\ j \in Job
    /\ \/ step = "target" /\ j.kind \in Actors /\ j.user \in Accounts
       \/ step = "lock" /\ j.kind = "detach" /\ j.user \in Accounts
       \/ /\ step = "event" /\ j.kind = "reverse" /\ j.event \in DOMAIN ledger
          /\ j.orders = ledger[j.event].orders

WorldTypes ==
    /\ mail' = mail /\ staff' = staff /\ expired' = expired
    /\ fresh' \subseteq Orders /\ verified' \subseteq Accounts

LEMMA BeginStep ==
    ASSUME LedgerInv, WorldTypes, NEW r \in Requests, NEW step, NEW j,
           Begin(r, step, j), GoodJob(step, j)
    PROVE  LedgerInv'
  <1>1. TypeOK /\ \A s \in Requests : RequestInv(s)
    BY ByRequest
  <1>2. /\ at'[r] = step /\ job'[r] = j /\ todo'[r] = j.orders
        /\ \A s \in Requests \ {r} :
              at'[s] = at[s] /\ job'[s] = job[s] /\ todo'[s] = todo[s]
    BY <1>1 DEF Begin, TypeOK
  <1>3. \A o \in Orders : lock[o] # r
    BY <1>1 DEF RequestInv, LocksHoldOf, Begin, Idle
  <1>4. TypeOK'
    BY <1>1 DEF TypeOK, Begin, GoodJob, WorldTypes, Job
  <1>5. RequestInv(r)'
    BY <1>2, <1>3
    DEF Begin, GoodJob, RequestInv, LocksHoldOf, LocksAscendOf, JobMakesSense,
        CheckStands, Actors
  <1>6. ASSUME NEW s \in Requests, s # r PROVE RequestInv(s)'
    BY <1>1, <1>2, <1>6, Bystander, SameLedger DEF Begin, WorldTypes
  <1>7. EventsMakeSense'
    BY DEF LedgerInv, EventsMakeSense, Begin
  <1> QED
    BY <1>4, <1>5, <1>6, <1>7, ByRequestNext

\* What is asked of a request makes a good job, or changes the surroundings only.
LEMMA AskBegins ==
    ASSUME TypeOK, NEW r \in Requests, Ask(r)
    PROVE  /\ WorldTypes
           /\ \/ UNCHANGED <<owner, ledger, lock, at, job, todo, seen>>
              \/ \E step, j : Begin(r, step, j) /\ GoodJob(step, j)
  <1>1. ASSUME NEW a \in Actors, NEW u \in Accounts, NEW os \in SUBSET Orders
        PROVE  GoodJob("target", LinkJob(a, u, os))
    BY DEF GoodJob, LinkJob, Job
  <1>2. ASSUME NEW i \in DOMAIN ledger PROVE GoodJob("event", ReverseJob(i))
    <2>1. ledger[i] \in Event /\ i \in Nat
      BY DEF TypeOK
    <2> QED
      BY <2>1 DEF GoodJob, ReverseJob, Job, Event
  <1>3. UNCHANGED world => WorldTypes
    BY DEF world, WorldTypes, TypeOK
  <1>4. ASSUME NEW u \in Accounts, NEW o \in Orders,
               ClaimOrderFromToken(r, u, o) \/ LinkOrderByEmail(r, u, o)
        PROVE  WorldTypes /\ \E step, j : Begin(r, step, j) /\ GoodJob(step, j)
    BY <1>1, <1>3, <1>4 DEF ClaimOrderFromToken, LinkOrderByEmail, Actors
  <1>5. ASSUME NEW u \in {mail[o] : o \in Orders} \ {Nobody},
               ClaimOrdersForVerifiedEmail(r, u)
        PROVE  /\ WorldTypes
               /\ \/ UNCHANGED <<owner, ledger, lock, at, job, todo, seen>>
                  \/ \E step, j : Begin(r, step, j) /\ GoodJob(step, j)
    <2>1. u \in Accounts
      BY DEF TypeOK
    <2>2. WorldTypes
      BY <1>5, <2>1 DEF ClaimOrdersForVerifiedEmail, WorldTypes, TypeOK
    <2>3. GoodJob("target", LinkJob("self_claim", u, Unclaimed(u)))
      BY <1>1, <2>1 DEF Actors, Unclaimed
    <2> QED
      BY <1>5, <2>2, <2>3 DEF ClaimOrdersForVerifiedEmail
  <1>6. ASSUME NEW o \in Orders, ApplyForwardLink(r, o)
        PROVE  WorldTypes /\ \E step, j : Begin(r, step, j) /\ GoodJob(step, j)
    <2>1. mail[o] \in Accounts /\ WorldTypes
      BY <1>6 DEF ApplyForwardLink, TypeOK, WorldTypes
    <2>2. GoodJob("target", LinkJob("system", mail[o], {o}))
      BY <1>1, <2>1 DEF Actors
    <2> QED
      BY <1>6, <2>1, <2>2 DEF ApplyForwardLink
  <1>7. ASSUME NEW o \in Orders, UnlinkByReversal(r, o)
        PROVE  WorldTypes /\ \E step, j : Begin(r, step, j) /\ GoodJob(step, j)
    BY <1>2, <1>3, <1>7 DEF UnlinkByReversal, OpenLinks
  <1>8. ASSUME NEW o \in Orders, UnlinkByDetach(r, o)
        PROVE  WorldTypes /\ \E step, j : Begin(r, step, j) /\ GoodJob(step, j)
    <2> DEFINE j == [kind |-> "detach", user |-> owner[o], orders |-> {o}, event |-> 0]
    <2>1. owner[o] \in Accounts
      BY <1>8 DEF UnlinkByDetach, TypeOK
    <2>2. GoodJob("lock", j)
      BY <2>1 DEF GoodJob, Job
    <2> QED
      BY <1>3, <1>8, <2>2 DEF UnlinkByDetach
  <1>9. ASSUME NEW i \in DOMAIN ledger, ReverseFromLedger(r, i)
        PROVE  WorldTypes /\ \E step, j : Begin(r, step, j) /\ GoodJob(step, j)
    BY <1>2, <1>3, <1>9 DEF ReverseFromLedger
  <1> QED
    BY <1>4, <1>5, <1>6, <1>7, <1>8, <1>9 DEF Ask

\* Steps of the surroundings.
LEMMA WorldStep ==
    ASSUME LedgerInv, UNCHANGED <<owner, ledger, lock, at, job, todo, seen>>, TypeOK',
           staff' = staff \/ GrantsRace \/ \A r \in Requests : Idle(r)
    PROVE  LedgerInv'
  <1>1. \A s \in Requests : RequestInv(s)'
    BY ByRequest, Bystander, SameLedger DEF Idle
  <1>2. EventsMakeSense'
    BY DEF LedgerInv, EventsMakeSense
  <1> QED
    BY <1>1, <1>2, ByRequestNext

LEMMA AskStep == ASSUME LedgerInv, NEW r \in Requests, Ask(r) PROVE LedgerInv'
  <1>1. TypeOK
    BY DEF LedgerInv
  <1>2. CASE UNCHANGED <<owner, ledger, lock, at, job, todo, seen>>
    <2>1. TypeOK' /\ staff' = staff
      BY <1>1, <1>2, AskBegins DEF TypeOK, WorldTypes
    <2> QED
      BY <1>2, <2>1, WorldStep
  <1>3. CASE \E step, j : Begin(r, step, j) /\ GoodJob(step, j)
    BY <1>1, <1>3, AskBegins, BeginStep
  <1> QED
    BY <1>1, <1>2, <1>3, AskBegins

-----------------------------------------------------------------------------
(* Steps inside a transaction *)

\* A step that only advances one request and may take a free row for it.
LEMMA AdvanceStep ==
    ASSUME LedgerInv, NEW r \in Requests, UNCHANGED <<world, owner, ledger, job>>,
           TypeOK', RequestInv(r)',
           \A s \in Requests \ {r} :
              /\ at'[s] = at[s] /\ todo'[s] = todo[s] /\ seen'[s] = seen[s]
              /\ \A o \in Orders : (lock'[o] = s) = (lock[o] = s)
    PROVE  LedgerInv'
  <1>1. ASSUME NEW s \in Requests, s # r PROVE RequestInv(s)'
    BY <1>1, ByRequest, Bystander, SameLedger DEF world
  <1>2. EventsMakeSense'
    BY DEF LedgerInv, EventsMakeSense
  <1> QED
    BY <1>1, <1>2, ByRequestNext

LEMMA CheckTargetStep ==
    ASSUME LedgerInv, NEW r \in Requests, LinkCheckTarget(r) PROVE LedgerInv'
  <1>1. TypeOK /\ RequestInv(r)
    BY ByRequest
  <1>2. CASE Refuse(r)
    BY <1>2, RefuseStep
  <1>3. CASE ~Refuse(r)
    <2>1. /\ at' = [at EXCEPT ![r] = "lock"] /\ at[r] = "target"
          /\ job[r].user \notin staff
          /\ UNCHANGED <<world, owner, ledger, lock, job, todo, seen>>
      BY <1>3 DEF LinkCheckTarget
    <2>2. TypeOK'
      BY <1>1, <2>1 DEF TypeOK, world
    <2>3. at'[r] = "lock" /\ \A o \in Orders : lock[o] # r
      BY <1>1, <2>1 DEF TypeOK, RequestInv, LocksHoldOf
    <2>4. todo[r] = job[r].orders
      BY <1>1, <2>1 DEF RequestInv, JobMakesSense
    <2>5. RequestInv(r)'
      BY <1>1, <2>1, <2>3, <2>4
      DEF RequestInv, LocksHoldOf, LocksAscendOf, JobMakesSense, CheckStands, world
    <2>6. \A s \in Requests \ {r} : at'[s] = at[s]
      BY <1>1, <2>1 DEF TypeOK
    <2> QED
      BY <2>1, <2>2, <2>5, <2>6, AdvanceStep
  <1> QED
    BY <1>2, <1>3

LEMMA LockRowStep ==
    ASSUME LedgerInv, NEW r \in Requests, NEW o \in Orders, LockRow(r, o)
    PROVE  LedgerInv'
  <1>1. TypeOK /\ RequestInv(r)
    BY ByRequest
  <1>2. /\ at[r] = "lock" /\ NextToLock(todo[r], o) /\ lock[o] = Nobody
        /\ lock' = [lock EXCEPT ![o] = r]
        /\ todo' = [todo EXCEPT ![r] = todo[r] \ {o}]
        /\ seen' = [seen EXCEPT ![r] = [seen[r] EXCEPT ![o] = owner[o]]]
        /\ UNCHANGED <<world, owner, ledger, at, job>>
    BY DEF LockRow, Lockable
  <1>3. TypeOK'
    BY <1>1, <1>2 DEF TypeOK, world
  <1>4. /\ todo'[r] = todo[r] \ {o}
        /\ lock'[o] = r /\ \A p \in Orders \ {o} : lock'[p] = lock[p]
        /\ seen'[r][o] = owner[o] /\ \A p \in Orders \ {o} : seen'[r][p] = seen[r][p]
    BY <1>1, <1>2 DEF TypeOK
  <1>5. o \in todo[r] /\ o \in job[r].orders /\ job[r].orders \subseteq Orders
    BY <1>1, <1>2 DEF NextToLock, RequestInv, JobMakesSense, TypeOK, Job
  <1>6. LocksHoldOf(r)'
    BY <1>1, <1>2, <1>4, <1>5 DEF RequestInv, LocksHoldOf
  <1>7. LocksAscendOf(r)'
    <2>1. \A p \in todo[r] \ {o} : p \in Nat /\ o \in Nat /\ o <= p /\ o # p
      BY <1>1, <1>2, OrdersAssumption DEF NextToLock, TypeOK
    <2>2. \A p \in todo[r] \ {o} : o < p
      BY <2>1
    <2> QED
      BY <1>1, <1>4, <2>2 DEF RequestInv, LocksAscendOf
  <1>8. JobMakesSense(r)'
    BY <1>1, <1>2, <1>4, <1>5 DEF RequestInv, JobMakesSense
  <1>9. CheckStands(r)'
    BY <1>1, <1>2 DEF RequestInv, CheckStands, RestoresToStaff, world
  <1>10. \A s \in Requests \ {r} :
            /\ todo'[s] = todo[s] /\ seen'[s] = seen[s]
            /\ \A p \in Orders : (lock'[p] = s) = (lock[p] = s)
    BY <1>1, <1>2, <1>4, RequestsAssumption DEF TypeOK
  <1> QED
    BY <1>2, <1>3, <1>6, <1>7, <1>8, <1>9, <1>10, AdvanceStep DEF RequestInv

LEMMA ReadEventStep ==
    ASSUME LedgerInv, NEW r \in Requests, ReverseReadEvent(r) PROVE LedgerInv'
  <1>1. TypeOK /\ RequestInv(r)
    BY ByRequest
  <1>2. CASE Refuse(r)
    BY <1>2, RefuseStep
  <1>3. CASE ~Refuse(r)
    <2>1. /\ at' = [at EXCEPT ![r] = "update"] /\ at[r] = "event"
          /\ ~RestoresToStaff(ledger[job[r].event])
          /\ UNCHANGED <<world, owner, ledger, lock, job, todo, seen>>
      BY <1>3 DEF ReverseReadEvent
    <2>2. TypeOK'
      BY <1>1, <2>1 DEF TypeOK, world
    <2>3. at'[r] = "update" /\ \A o \in Orders : lock[o] # r
      BY <1>1, <2>1 DEF TypeOK, RequestInv, LocksHoldOf
    <2>4. RequestInv(r)'
      BY <1>1, <2>1, <2>3
      DEF RequestInv, LocksHoldOf, LocksAscendOf, JobMakesSense, CheckStands,
          RestoresToStaff, world
    <2>5. \A s \in Requests \ {r} : at'[s] = at[s]
      BY <1>1, <2>1 DEF TypeOK
    <2> QED
      BY <2>1, <2>2, <2>4, <2>5, AdvanceStep
  <1> QED
    BY <1>2, <1>3

LEMMA UpdateRowStep ==
    ASSUME LedgerInv, NEW r \in Requests, NEW o \in Orders, ReverseUpdateRow(r, o)
    PROVE  LedgerInv'
  <1>1. TypeOK /\ RequestInv(r)
    BY ByRequest
  <1>2. /\ at[r] = "update" /\ NextEntity(todo[r], o) /\ lock[o] = Nobody
        /\ lock' = IF StillPlaced(r, o) THEN [lock EXCEPT ![o] = r] ELSE lock
        /\ todo' = [todo EXCEPT ![r] = todo[r] \ {o}]
        /\ UNCHANGED <<world, owner, ledger, at, job, seen>>
    BY DEF ReverseUpdateRow, Lockable
  <1>3. TypeOK'
    BY <1>1, <1>2 DEF TypeOK, world
  <1>4. /\ todo'[r] = todo[r] \ {o}
        /\ lock'[o] = r => StillPlaced(r, o)
        /\ \A p \in Orders \ {o} : lock'[p] = lock[p]
    BY <1>1, <1>2, RequestsAssumption DEF TypeOK
  <1>5. o \in todo[r] /\ o \in job[r].orders
    BY <1>1, <1>2 DEF NextEntity, RequestInv, JobMakesSense
  <1>6. LocksHoldOf(r)'
    BY <1>1, <1>2, <1>4, <1>5 DEF RequestInv, LocksHoldOf, StillPlaced
  <1>7. LocksAscendOf(r)'
    <2>1. \A p \in todo[r] \ {o} : p \in Nat /\ o \in Nat /\ o <= p /\ o # p
      BY <1>1, <1>2, OrdersAssumption DEF NextEntity, TypeOK
    <2>2. \A p \in todo[r] \ {o} : o < p
      BY <2>1
    <2> QED
      BY <1>1, <1>4, <2>2 DEF RequestInv, LocksAscendOf
  <1>8. JobMakesSense(r)'
    BY <1>1, <1>2, <1>4 DEF RequestInv, JobMakesSense
  <1>9. CheckStands(r)'
    BY <1>1, <1>2 DEF RequestInv, CheckStands, RestoresToStaff, world
  <1>10. \A s \in Requests \ {r} :
            /\ todo'[s] = todo[s]
            /\ \A p \in Orders : (lock'[p] = s) = (lock[p] = s)
    BY <1>1, <1>2, RequestsAssumption DEF TypeOK
  <1> QED
    BY <1>2, <1>3, <1>6, <1>7, <1>8, <1>9, <1>10, AdvanceStep DEF RequestInv

-----------------------------------------------------------------------------
(* Steps that write *)

\* What a link is about to write: every row of it is locked and was read as it is.
LEMMA LinkFacts ==
    ASSUME LedgerInv, NEW r \in Requests, at[r] = "lock", todo[r] = {}
    PROVE  /\ job[r].orders \subseteq Orders /\ job[r].user \in Accounts
           /\ \A o \in job[r].orders : lock[o] = r /\ seen[r][o] = owner[o]
           /\ Movable(r) \subseteq job[r].orders
  <1>1. TypeOK /\ RequestInv(r)
    BY ByRequest
  <1>2. job[r].orders \subseteq Orders
    BY <1>1 DEF TypeOK, Job
  <1> QED
    BY <1>1, <1>2 DEF RequestInv, LocksHoldOf, JobMakesSense, Movable

\* What a reversal is about to write.
LEMMA ReverseFacts ==
    ASSUME LedgerInv, NEW r \in Requests, at[r] = "update"
    PROVE  LET e == ledger[job[r].event] IN
           /\ job[r].event \in DOMAIN ledger /\ e \in Event
           /\ \A o \in Orders : lock[o] = r => o \in e.orders /\ owner[o] = e.user
  <1>1. TypeOK /\ RequestInv(r)
    BY ByRequest
  <1>2. job[r].event \in DOMAIN ledger /\ job[r].orders = ledger[job[r].event].orders
    BY <1>1 DEF RequestInv, JobMakesSense
  <1>3. ledger[job[r].event] \in Event
    BY <1>1, <1>2 DEF TypeOK
  <1> QED
    BY <1>1, <1>2, <1>3 DEF RequestInv, LocksHoldOf, StillPlaced

\* A step that appends one sensible event and is done.
LEMMA AppendStep ==
    ASSUME LedgerInv, NEW r \in Requests, Finish(r), NEW e \in Event,
           ledger' = Append(ledger, e), owner' \in [Orders -> Owner],
           ~e.reversed => \A o \in e.orders : e.from[o] # e.user,
           \A o \in Orders : lock[o] # r => owner'[o] = owner[o]
    PROVE  LedgerInv'
  <1>1. TypeOK /\ ledger \in Seq(Event)
    BY DEF LedgerInv, TypeOK
  <1>2. /\ ledger' \in Seq(Event) /\ LedgerKept
        /\ Len(ledger') = Len(ledger) + 1
        /\ DOMAIN ledger' \ DOMAIN ledger = {Len(ledger) + 1}
        /\ ledger'[Len(ledger) + 1] = e
        /\ \A i \in DOMAIN ledger : ledger'[i] = ledger[i]
    BY <1>1, AppendEffect
  <1>3. TypeOK'
    <2>1. Len(ledger') >= Len(ledger)
      BY <1>1, <1>2
    <2> QED
      BY <1>1, <1>2, <2>1, FinishTypes
  <1>4. \A s \in Requests : RequestInv(s)'
    BY <1>2, FinishKeepsRequests
  <1>5. EventsMakeSense'
    <2>1. \A i \in DOMAIN ledger' : i \in DOMAIN ledger \/ ledger'[i] = e
      BY <1>2
    <2> QED
      BY <1>2, <2>1 DEF LedgerInv, EventsMakeSense
  <1> QED
    BY <1>3, <1>4, <1>5, ByRequestNext

LEMMA LinkStep ==
    ASSUME LedgerInv, NEW r \in Requests, LinkOrdersToUser(r) PROVE LedgerInv'
  <1>1. TypeOK
    BY DEF LedgerInv
  <1>2. CASE Refuse(r)
    BY <1>2, RefuseStep
  <1>3. CASE ~Refuse(r)
    <2> DEFINE moved == Movable(r)
               e == [user |-> job[r].user, actor |-> job[r].kind, orders |-> moved,
                     from |-> [o \in Orders |-> IF o \in moved THEN seen[r][o] ELSE Nobody],
                     reversed |-> FALSE]
    <2>1. Link(r) /\ at[r] = "lock" /\ todo[r] = {} /\ job[r].kind \in Actors
      BY <1>3 DEF LinkOrdersToUser
    <2>2. /\ job[r].user \in Accounts /\ moved \subseteq Orders
          /\ \A o \in moved : lock[o] = r /\ seen[r][o] # job[r].user
      BY <2>1, LinkFacts DEF Movable
    <2>3. e \in Event
      <3>1. e.from \in [Orders -> Owner]
        BY <1>1 DEF TypeOK
      <3> QED
        BY <2>1, <2>2, <3>1 DEF Event
    <2>4. \A o \in e.orders : e.from[o] # e.user
      BY <2>2
    <2>5. /\ owner' \in [Orders -> Owner]
          /\ \A o \in Orders : lock[o] # r => owner'[o] = owner[o]
      BY <1>1, <2>1, <2>2 DEF Link, TypeOK
    <2>6. Finish(r) /\ ledger' = Append(ledger, e)
      BY <2>1 DEF Link
    <2> HIDE DEF e
    <2> QED
      BY <2>3, <2>4, <2>5, <2>6, AppendStep
  <1> QED
    BY <1>2, <1>3

LEMMA DetachStep ==
    ASSUME LedgerInv, NEW r \in Requests, Detach(r) PROVE LedgerInv'
  <1>1. TypeOK
    BY DEF LedgerInv
  <1>2. CASE Refuse(r)
    BY <1>2, RefuseStep
  <1>3. CASE ~Refuse(r)
    <2>1. PICK o \in job[r].orders :
             /\ owner' = [owner EXCEPT ![o] = Nobody]
             /\ ledger' = Append(ledger,
                   [user |-> job[r].user, actor |-> "staff_override", orders |-> {o},
                    from |-> [Unread EXCEPT ![o] = job[r].user], reversed |-> TRUE])
             /\ Finish(r)
      BY <1>3 DEF Detach
    <2> DEFINE e == [user |-> job[r].user, actor |-> "staff_override", orders |-> {o},
                     from |-> [Unread EXCEPT ![o] = job[r].user], reversed |-> TRUE]
    <2>2. o \in Orders /\ job[r].user \in Accounts /\ lock[o] = r
      BY LinkFacts DEF Detach
    <2>3. e \in Event /\ e.reversed
      <3>1. e.from \in [Orders -> Owner]
        BY <2>2 DEF Unread
      <3> QED
        BY <2>2, <3>1 DEF Event, Actors
    <2>4. /\ owner' \in [Orders -> Owner]
          /\ \A p \in Orders : lock[p] # r => owner'[p] = owner[p]
      BY <1>1, <2>1, <2>2 DEF TypeOK
    <2>5. Finish(r) /\ ledger' = Append(ledger, e)
      BY <2>1
    <2> HIDE DEF e
    <2> QED
      BY <2>3, <2>4, <2>5, AppendStep
  <1> QED
    BY <1>2, <1>3

LEMMA ReverseStep ==
    ASSUME LedgerInv, NEW r \in Requests, ReverseMergeEvent(r) PROVE LedgerInv'
  <1>1. TypeOK /\ ledger \in Seq(Event)
    BY DEF LedgerInv, TypeOK
  <1>2. CASE Refuse(r)
    BY <1>2, RefuseStep
  <1>3. CASE ~Refuse(r)
    <2> DEFINE i == job[r].event
    <2>1. /\ owner' = [o \in Orders |-> IF lock[o] = r THEN ledger[i].from[o] ELSE owner[o]]
          /\ ledger' = [ledger EXCEPT ![i] = [@ EXCEPT !.reversed = TRUE]]
          /\ Finish(r)
      BY <1>3 DEF ReverseMergeEvent
    <2>2. i \in DOMAIN ledger /\ ledger[i] \in Event
      BY ReverseFacts DEF ReverseMergeEvent
    <2>3. /\ owner' \in [Orders -> Owner]
          /\ \A o \in Orders : lock[o] # r => owner'[o] = owner[o]
      BY <1>1, <2>1, <2>2 DEF TypeOK, Event
    <2>4. /\ ledger' \in Seq(Event) /\ LedgerKept
          /\ Len(ledger') = Len(ledger) /\ DOMAIN ledger' = DOMAIN ledger
          /\ ledger'[i].reversed
          /\ \A j \in DOMAIN ledger \ {i} : ledger'[j] = ledger[j]
      BY <1>1, <2>1, <2>2, MarkEffect
    <2>5. TypeOK'
      <3>1. Len(ledger') >= Len(ledger)
        BY <1>1, <2>4
      <3> QED
        BY <1>1, <2>1, <2>3, <2>4, <3>1, FinishTypes
    <2>6. \A s \in Requests : RequestInv(s)'
      BY <2>1, <2>3, <2>4, FinishKeepsRequests
    <2>7. EventsMakeSense'
      BY <2>4 DEF LedgerInv, EventsMakeSense
    <2> QED
      BY <2>5, <2>6, <2>7, ByRequestNext
  <1> QED
    BY <1>2, <1>3

-----------------------------------------------------------------------------
(* The invariant *)

LEMMA LedgerInit == ASSUME Init PROVE LedgerInv
  <1>1. TypeOK
    <2>1. owner \in [Orders -> Owner] /\ mail \in [Orders -> Owner]
      BY AddressesAssumption, LegacyAssumption DEF Init
    <2>2. NoJob \in Job /\ Unread \in [Orders -> Owner]
      BY DEF NoJob, Job, Unread
    <2> QED
      BY <2>1, <2>2 DEF Init, TypeOK
  <1> QED
    BY <1>1, RequestsAssumption
    DEF Init, LedgerInv, LocksHold, LocksAscend, JobsMakeSense, EventsMakeSense, ChecksStand

LEMMA LedgerStep == ASSUME LedgerInv, [Next]_vars PROVE LedgerInv'
  <1>1. CASE UNCHANGED vars
    BY <1>1, WorldStep DEF vars, LedgerInv, TypeOK
  <1>2. ASSUME NEW r \in Requests, Serve(r) PROVE LedgerInv'
    BY <1>2, CheckTargetStep, LinkStep, DetachStep, ReadEventStep, ReverseStep,
       LockRowStep, UpdateRowStep DEF Serve
  <1>3. ASSUME NEW r \in Requests, Abort(r) PROVE LedgerInv'
    BY <1>3, RefuseStep DEF Abort
  <1>4. ASSUME NEW u \in Promotable, GrantMembership(u) PROVE LedgerInv'
    <2>1. TypeOK'
      BY <1>4, AccountsAssumption DEF GrantMembership, LedgerInv, TypeOK
    <2> QED
      BY <1>4, <2>1, WorldStep DEF GrantMembership
  <1>5. ASSUME DeadlinePasses PROVE LedgerInv'
    <2>1. TypeOK'
      BY <1>5 DEF DeadlinePasses, LedgerInv, TypeOK
    <2> QED
      BY <1>5, <2>1, WorldStep DEF DeadlinePasses
  <1> QED
    BY <1>1, <1>2, <1>3, <1>4, <1>5, AskStep DEF Next

\* Locks, jobs and events fit together in every reachable state of the ledger,
\* and every variable has its type.
THEOREM LedgerCorrect == Spec => []LedgerInv
  BY LedgerInit, LedgerStep, PTL DEF Spec

\* Two transactions never wait for each other: whoever waits for a row wants one
\* with a larger id than those it holds.
THEOREM NoTwoTransactionsDeadlock == Spec => []NoLockCycle
  <1>1. LedgerInv => NoLockCycle
    <2> SUFFICES ASSUME LedgerInv, NEW r \in Requests, NEW s \in Requests,
                        NEW o \in Orders, NEW p \in Orders,
                        Wants(r, o), lock[o] = s, Wants(s, p), lock[p] = r
                 PROVE  FALSE
      BY DEF NoLockCycle, Waits
    <2>1. o \in todo[r] /\ p \in todo[s]
      BY DEF Wants, NextToLock, NextEntity
    <2>2. p < o /\ o < p
      BY <2>1 DEF LedgerInv, LocksAscend
    <2> QED
      BY <2>2, OrdersAssumption
  <1> QED
    BY <1>1, LedgerCorrect, PTL

-----------------------------------------------------------------------------
(* What a step may do to owners and ledger *)

NewEvent(e) ==
    /\ DOMAIN ledger' \ DOMAIN ledger = {Len(ledger) + 1}
    /\ ledger'[Len(ledger) + 1] = e
    /\ \A i \in DOMAIN ledger : ledger'[i] = ledger[i]

\* A new link moves exactly its orders, from the owners it names, to an account
\* that has been checked, and takes no owned order unless an operator or the
\* system asked.
Linked ==
    \E e \in Event :
        /\ NewEvent(e) /\ ~e.reversed
        /\ \A o \in e.orders : /\ e.from[o] = owner[o] /\ e.user # owner[o]
                               /\ owner'[o] = e.user
                               /\ e.actor = "self_claim" =>
                                     owner[o] = Nobody /\ mail[o] # Nobody
        /\ \A o \in Orders \ e.orders : owner'[o] = owner[o]
        /\ ~GrantsRace => e.user \notin staff

Detached ==
    \E e \in Event :
        /\ NewEvent(e) /\ e.reversed /\ e.actor = "staff_override"
        /\ \A o \in e.orders :
              e.from[o] = owner[o] /\ owner[o] # Nobody /\ owner'[o] = Nobody
        /\ \A o \in Orders \ e.orders : owner'[o] = owner[o]

Reversed ==
    \E i \in DOMAIN ledger :
        LET e == ledger[i] IN
        /\ DOMAIN ledger' = DOMAIN ledger /\ ledger'[i].reversed
        /\ \A j \in DOMAIN ledger \ {i} : ledger'[j] = ledger[j]
        /\ \E o \in e.orders : owner[o] = e.user /\ owner'[o] = e.from[o]
        /\ \A o \in Orders : owner'[o] # owner[o] =>
              o \in e.orders /\ owner[o] = e.user /\ owner'[o] = e.from[o]
        /\ ~GrantsRace => ~RestoresToStaff(e)

LEMMA LinkWrites ==
    ASSUME LedgerInv, NEW r \in Requests, at[r] = "lock", todo[r] = {},
           job[r].kind \in Actors, ~LinkRefused(r), Link(r)
    PROVE  Linked
  <1> DEFINE moved == Movable(r)
             e == [user |-> job[r].user, actor |-> job[r].kind, orders |-> moved,
                   from |-> [o \in Orders |-> IF o \in moved THEN seen[r][o] ELSE Nobody],
                   reversed |-> FALSE]
  <1>1. TypeOK /\ RequestInv(r)
    BY ByRequest
  <1>2. /\ job[r].user \in Accounts /\ moved \subseteq Orders /\ moved \subseteq job[r].orders
        /\ \A o \in moved : seen[r][o] = owner[o] /\ seen[r][o] # job[r].user
    BY LinkFacts DEF Movable
  <1>3. e \in Event
    <2>1. e.from \in [Orders -> Owner]
      BY <1>1 DEF TypeOK
    <2> QED
      BY <1>2, <2>1 DEF Event
  <1>4. ledger' = Append(ledger, e) /\ ledger \in Seq(Event)
    BY <1>1 DEF Link, TypeOK
  <1>5. NewEvent(e)
    <2> HIDE DEF e
    <2> QED
      BY <1>3, <1>4, AppendEffect DEF NewEvent
  <1>6. \A o \in Orders : owner'[o] = IF o \in moved THEN job[r].user ELSE owner[o]
    BY DEF Link
  <1>7. \A o \in moved : job[r].kind = "self_claim" => owner[o] = Nobody /\ mail[o] # Nobody
    BY <1>2 DEF LinkRefused, OwnedElsewhere
  <1>8. ~GrantsRace => job[r].user \notin staff
    BY <1>1 DEF RequestInv, CheckStands
  <1> QED
    BY <1>2, <1>3, <1>5, <1>6, <1>7, <1>8 DEF Linked

LEMMA DetachWrites ==
    ASSUME LedgerInv, NEW r \in Requests, Detach(r), ~Refuse(r) PROVE Detached
  <1>1. PICK o \in job[r].orders :
           /\ owner' = [owner EXCEPT ![o] = Nobody]
           /\ ledger' = Append(ledger,
                 [user |-> job[r].user, actor |-> "staff_override", orders |-> {o},
                  from |-> [Unread EXCEPT ![o] = job[r].user], reversed |-> TRUE])
           /\ seen[r][o] = job[r].user
    BY DEF Detach
  <1> DEFINE e == [user |-> job[r].user, actor |-> "staff_override", orders |-> {o},
                   from |-> [Unread EXCEPT ![o] = job[r].user], reversed |-> TRUE]
  <1>2. o \in Orders /\ job[r].user \in Accounts /\ owner[o] = job[r].user
    BY <1>1, LinkFacts DEF Detach
  <1>3. e \in Event /\ e.from[o] = owner[o]
    <2>1. e.from \in [Orders -> Owner] /\ e.from[o] = owner[o]
      BY <1>2 DEF Unread
    <2> QED
      BY <1>2, <2>1 DEF Event, Actors
  <1>4. ledger' = Append(ledger, e) /\ ledger \in Seq(Event)
    BY <1>1 DEF LedgerInv, TypeOK
  <1>5. NewEvent(e)
    <2> HIDE DEF e
    <2> QED
      BY <1>3, <1>4, AppendEffect DEF NewEvent
  <1>6. owner'[o] = Nobody /\ \A p \in Orders \ {o} : owner'[p] = owner[p]
    BY <1>1, <1>2 DEF LedgerInv, TypeOK
  <1> QED
    BY <1>2, <1>3, <1>5, <1>6, AccountsAssumption DEF Detached

LEMMA ReverseWrites ==
    ASSUME LedgerInv, NEW r \in Requests, ReverseMergeEvent(r), ~Refuse(r)
    PROVE  Reversed
  <1> DEFINE i == job[r].event
  <1>1. /\ owner' = [o \in Orders |-> IF lock[o] = r THEN ledger[i].from[o] ELSE owner[o]]
        /\ ledger' = [ledger EXCEPT ![i] = [@ EXCEPT !.reversed = TRUE]]
        /\ at[r] = "update" /\ ~NothingRestored(r)
    BY DEF ReverseMergeEvent
  <1>2. /\ i \in DOMAIN ledger
        /\ \A o \in Orders : lock[o] = r => o \in ledger[i].orders /\ owner[o] = ledger[i].user
    BY <1>1, ReverseFacts
  <1>3. /\ DOMAIN ledger' = DOMAIN ledger /\ ledger'[i].reversed
        /\ \A j \in DOMAIN ledger \ {i} : ledger'[j] = ledger[j]
    BY <1>1, <1>2, MarkEffect DEF LedgerInv, TypeOK
  <1>4. PICK o \in Orders : lock[o] = r
    BY <1>1 DEF NothingRestored, Restored
  <1>5. ~GrantsRace => ~RestoresToStaff(ledger[i])
    BY <1>1, ByRequest DEF RequestInv, CheckStands
  <1> QED
    BY <1>1, <1>2, <1>3, <1>4, <1>5 DEF Reversed

LEMMA StepWrites ==
    ASSUME LedgerInv, [Next]_vars
    PROVE  UNCHANGED <<owner, ledger>> \/ Linked \/ Detached \/ Reversed
  <1>1. CASE UNCHANGED vars
    BY <1>1 DEF vars
  <1>2. ASSUME NEW r \in Requests, Ask(r) PROVE UNCHANGED <<owner, ledger>>
    BY <1>2, AskBegins DEF Begin, LedgerInv
  <1>3. ASSUME NEW r \in Requests, Serve(r)
        PROVE  UNCHANGED <<owner, ledger>> \/ Linked \/ Detached \/ Reversed
    <2>1. CASE LinkCheckTarget(r) \/ ReverseReadEvent(r) \/ Refuse(r)
      BY <2>1 DEF LinkCheckTarget, ReverseReadEvent, Refuse
    <2>2. CASE \E o \in Orders : LockRow(r, o) \/ ReverseUpdateRow(r, o)
      BY <2>2 DEF LockRow, ReverseUpdateRow
    <2>3. CASE LinkOrdersToUser(r) /\ ~Refuse(r)
      BY <2>3, LinkWrites DEF LinkOrdersToUser
    <2> QED
      BY <1>3, <2>1, <2>2, <2>3, DetachWrites, ReverseWrites DEF Serve
  <1>4. ASSUME NEW r \in Requests, Abort(r) PROVE UNCHANGED <<owner, ledger>>
    BY <1>4 DEF Abort, Refuse
  <1>5. ASSUME NEW u \in Promotable, GrantMembership(u) PROVE UNCHANGED <<owner, ledger>>
    BY <1>5 DEF GrantMembership
  <1>6. DeadlinePasses => UNCHANGED <<owner, ledger>>
    BY DEF DeadlinePasses
  <1> QED
    BY <1>1, <1>2, <1>3, <1>4, <1>5, <1>6 DEF Next

\* Every change of an owner is explained by the ledger, by an event that names
\* the owner the order really had.
THEOREM LedgerExplainsOwners == Spec => MovesAreRecorded
  <1>1. ASSUME LedgerInv, [Next]_vars, NEW o \in Orders, owner'[o] # owner[o]
        PROVE  MoveRecorded(o)
    <2>1. CASE Linked
      BY <1>1, <2>1 DEF Linked, NewEvent, MoveRecorded
    <2>2. CASE Detached
      BY <1>1, <2>2 DEF Detached, NewEvent, MoveRecorded
    <2>3. CASE Reversed
      BY <1>1, <2>3 DEF Reversed, MoveRecorded
    <2> QED
      BY <1>1, <2>1, <2>2, <2>3, StepWrites
  <1>2. LedgerInv /\ [Next]_vars
           => [\A o \in Orders : owner'[o] # owner[o] => MoveRecorded(o)]_vars
    BY <1>1
  <1> QED
    BY <1>2, LedgerCorrect, PTL DEF Spec, MovesAreRecorded

\* The ledger tells of no move that did not happen.
THEOREM LedgerOnlyTellsMoves == Spec => RecordsAreMoves
  <1> DEFINE A ==
        /\ \A i \in DOMAIN ledger' \ DOMAIN ledger :
              \A o \in ledger'[i].orders : owner'[o] # owner[o]
        /\ \A i \in DOMAIN ledger :
              ~ledger[i].reversed /\ ledger'[i].reversed =>
                  \E o \in ledger[i].orders : owner'[o] # owner[o]
  <1>1. ASSUME LedgerInv, [Next]_vars PROVE A
    <2>1. CASE UNCHANGED <<owner, ledger>>
      BY <2>1
    <2>2. CASE Linked
      BY <2>2 DEF Linked, NewEvent
    <2>3. CASE Detached
      BY <2>3 DEF Detached, NewEvent
    <2>4. CASE Reversed
      BY <1>1, <2>4 DEF Reversed, LedgerInv, EventsMakeSense
    <2> QED
      BY <1>1, <2>1, <2>2, <2>3, <2>4, StepWrites
  <1>2. LedgerInv /\ [Next]_vars => [A]_vars
    BY <1>1
  <1> HIDE DEF A
  <1>3. Spec => [][A]_vars
    BY <1>2, LedgerCorrect, PTL DEF Spec
  <1> QED
    BY <1>3 DEF A, RecordsAreMoves

\* Together: every move of an order is recorded, and only moves are.
THEOREM LedgerIsTheMoves == Spec => LedgerTellsMoves
  BY LedgerExplainsOwners, LedgerOnlyTellsMoves DEF LedgerTellsMoves

\* A claim without an operator never takes an owned order or one without an
\* address, whatever was read before its transaction.
THEOREM ClaimsSpareOwned == Spec => SelfClaimSparesOwned
  <1>1. ASSUME LedgerInv, [Next]_vars, NEW o \in Orders, SelfClaimed(o)
        PROVE  owner[o] = Nobody /\ mail[o] # Nobody
    <2>1. CASE Linked
      BY <1>1, <2>1 DEF Linked, NewEvent, SelfClaimed
    <2>2. CASE ~Linked
      BY <1>1, <2>2, StepWrites DEF Detached, Reversed, NewEvent, SelfClaimed
    <2> QED
      BY <2>1, <2>2
  <1>2. LedgerInv /\ [Next]_vars
           => [\A o \in Orders : SelfClaimed(o) => owner[o] = Nobody /\ mail[o] # Nobody]_vars
    BY <1>1
  <1> QED
    BY <1>2, LedgerCorrect, PTL DEF Spec, SelfClaimSparesOwned

\* If memberships are granted between requests, no order ever moves to a member.
THEOREM MembersReceiveNothing == ~GrantsRace => (Spec => StaffReceiveNothing)
  <1> SUFFICES ASSUME ~GrantsRace PROVE Spec => StaffReceiveNothing
    OBVIOUS
  <1>1. ASSUME LedgerInv, [Next]_vars, NEW o \in Orders, owner'[o] # owner[o]
        PROVE  owner'[o] \notin staff
    <2>1. CASE Linked
      BY <1>1, <2>1 DEF Linked
    <2>2. CASE Detached
      BY <1>1, <2>2, AccountsAssumption DEF Detached, LedgerInv, TypeOK
    <2>3. CASE Reversed
      BY <1>1, <2>3 DEF Reversed, RestoresToStaff
    <2> QED
      BY <1>1, <2>1, <2>2, <2>3, StepWrites
  <1>2. LedgerInv /\ [Next]_vars
           => [\A o \in Orders : owner'[o] # owner[o] => owner'[o] \notin staff]_vars
    BY <1>1
  <1> QED
    BY <1>2, LedgerCorrect, PTL DEF Spec, StaffReceiveNothing
=============================================================================
