-------------------------------- MODULE Door --------------------------------
(***************************************************************************)
(* The door's server half (lib/checkin/service.ts): check-ins by order     *)
(* code, ticket secret or badge, reprints, corrections and the print log,  *)
(* next to the two other writers of that log, the external API and the     *)
(* pretix checkin webhook.                                                 *)
(*                                                                         *)
(* pretix alone knows who is in, once per check-in list (one list per      *)
(* day).  A badge carries a code that must never change once printed: it   *)
(* is minted at the first print, by whichever station gets there first.    *)
(* A request may lose its reply, or die, after any await.                  *)
(***************************************************************************)
EXTENDS Naturals, FiniteSets, Sequences

CONSTANTS
    Orders,     \* issued registrations of one event
    Lists,      \* pretix check-in lists, one per day
    Codes,      \* badge codes generateBadgeSlug may draw
    Stations,   \* screens and API clients, one request each at a time
    Patches,    \* role corrections a form may send: tag, label or both
    NoCode,     \* badgeSlug = null
    MaxRequests,\* bound on the requests that answer no prompt
    MaxLost     \* bound on the replies that get lost

ASSUME CodeAssumption == NoCode \notin Codes
ASSUME ListsAssumption == Lists # {}
ASSUME PatchAssumption ==
    Patches \subseteq [{"tag"} -> {"fixed", "other"}] \cup [{"label"} -> BOOLEAN]
                     \cup [tag : {"fixed", "other"}, label : BOOLEAN]
ASSUME DoorBounds == MaxRequests \in Nat /\ MaxLost \in Nat

VARIABLES
    attendee,   \* attendee_orders: state, badge code and badge role
    redeemed,   \* order and list of every check-in pretix holds
    hooks,      \* pretix.event.checkin deliveries not yet answered with 200
    log,        \* badge_print_logs, oldest first
    request,    \* what each station's request is doing
    screen,     \* what each station last saw
    begun,      \* requests started so far
    lost        \* replies lost so far

doorVars == <<attendee, redeemed, hooks, log, request, screen, begun, lost>>

-----------------------------------------------------------------------------
Role == [tag : {"fixed", "other"}, label : BOOLEAN]   \* label: a text is stored
Attendee == [state : {"issued", "canceled"},
             code : Codes \cup {NoCode}, role : Role]
Visit == Orders \X Lists

\* handed and code record what reached the screen (what the printer then did,
\* confirmedAt and failureReason, is read by nobody); visit names the order and,
\* for the properties, the list.
Log == [visit : Visit, by : {"door", "api", "hook"}, reprint : BOOLEAN,
        handed : BOOLEAN, code : Codes \cup {NoCode}]

Idle == [op |-> "none", at |-> "none"]
Request == [op : {"checkin", "reprint", "api", "hook", "correct"},
            at : {"redeem", "log", "mint", "reread", "update"},
            visit : Visit, seen : Attendee, tries : 0..3,
            id : Nat, prior : BOOLEAN, role : Role]

Blank == [kind |-> "blank"]
Screen == [kind : {"lost", "already"}, visit : Visit]

TypeOK ==
    /\ attendee \in [Orders -> Attendee]
    /\ redeemed \subseteq Visit
    /\ hooks \subseteq Visit
    /\ log \in Seq(Log)
    /\ request \in [Stations -> Request \cup {Idle}]
    /\ screen \in [Stations -> Screen \cup {Blank}]
    /\ begun \in 0..MaxRequests
    /\ lost \in 0..MaxLost

\* register() may store an "other" without a text, for a ticket mapped to it.
DoorInit ==
    /\ attendee = [o \in Orders |->
          [state |-> "issued", code |-> NoCode,
           role |-> [tag |-> "other", label |-> FALSE]]]
    /\ redeemed = {} /\ hooks = {}
    /\ log = <<>>
    /\ request = [s \in Stations |-> Idle]
    /\ screen = [s \in Stations |-> Blank]
    /\ begun = 0 /\ lost = 0

-----------------------------------------------------------------------------
(* What every request shares. *)

Order(s) == request[s].visit[1]

\* checkinEligibility, of the row that was read.
Eligible(a) == a.state = "issued"

\* A station whose screen asks for nothing may start something new.
Fresh(s) == screen[s] = Blank /\ begun < MaxRequests /\ begun' = begun + 1

\* The request has read the row of its order and will next do the step at.
Start(s, op, at, v, prior, role) ==
    /\ request[s] = Idle
    /\ request' = [request EXCEPT ![s] =
          [op |-> op, at |-> at, visit |-> v, seen |-> attendee[v[1]],
           tries |-> 0, id |-> 0, prior |-> prior, role |-> role]]

Read(s, op, at, v) == Start(s, op, at, v, FALSE, attendee[v[1]].role)

At(s, op, at) == request[s].op = op /\ request[s].at = at

Return(s) == request' = [request EXCEPT ![s] = Idle]

Show(s, kind) == screen' = [screen EXCEPT ![s] =
                               [kind |-> kind, visit |-> request[s].visit]]

\* The row of the print log, and the step that follows it.
WriteLog(s, by, reprint) ==
    log' = Append(log, [visit |-> request[s].visit, by |-> by,
                        reprint |-> reprint, handed |-> FALSE, code |-> NoCode])

ThenMint(s) == request' = [request EXCEPT ![s].at = "mint",
                                          ![s].id = Len(log) + 1]

-----------------------------------------------------------------------------
(* checkInOrder, checkInBySecret -> checkInResolvedOrder; POST /checkins *)

\* By order code or ticket secret; the refusal of an ineligible row changes
\* nothing.
CheckIn(s, v) ==
    /\ Eligible(attendee[v[1]])
    /\ Read(s, "checkin", "redeem", v)
    /\ UNCHANGED <<attendee, redeemed, hooks, log, lost>>

CheckInByCode(s, v) == Fresh(s) /\ CheckIn(s, v) /\ UNCHANGED screen

\* By the code on a printed badge, looked up when no secret matches.
CheckInByBadge(s, i, l) ==
    /\ log[i].handed /\ log[i].code # NoCode
    /\ \E o \in Orders : attendee[o].code = log[i].code
                         /\ CheckInByCode(s, <<o, l>>)

\* The external API checks the same and redeems on the list it resolved.
ApiCheckIn(s, v) ==
    /\ Eligible(attendee[v[1]])
    /\ Fresh(s) /\ Read(s, "api", "redeem", v)
    /\ UNCHANGED <<attendee, redeemed, hooks, log, screen, lost>>

\* pretix accepts a visit once.
Accepts(v) == v \notin redeemed

Accept(v) == /\ redeemed' = redeemed \cup {v}
             /\ hooks' = hooks \cup ({v} \ redeemed)

\* Fault: the refusal is only a text.
NobodyNamed(s) == UNCHANGED screen

\* alreadyCheckedIn: the refusal that names who is in, and offers a reprint.
Name(s) == IF request[s].op = "checkin" THEN Show(s, "already")
                                        ELSE UNCHANGED screen

Redeem(s) ==
    LET v == request[s].visit IN
    /\ request[s].op \in {"checkin", "api"} /\ request[s].at = "redeem"
    /\ \/ /\ Accepts(v)
          /\ Accept(v)
          /\ request' = [request EXCEPT ![s].at = "log"]
          /\ UNCHANGED <<screen, lost>>
       \/ /\ ~Accepts(v)                  \* "already redeemed", named
          /\ Return(s)
          /\ Name(s)
          /\ UNCHANGED <<redeemed, hooks, lost>>
       \/ /\ v \notin redeemed            \* refused for another reason
          /\ Return(s)
          /\ UNCHANGED <<redeemed, hooks, screen, lost>>
       \/ /\ lost < MaxLost               \* pretix acted, we never hear of it
          /\ lost' = lost + 1
          /\ Accept(v)
          /\ Return(s)
          /\ IF request[s].op = "checkin" THEN Show(s, "lost")
                                          ELSE UNCHANGED screen
    /\ UNCHANGED <<attendee, log, begun>>

LogCheckIn(s) ==
    /\ \/ /\ At(s, "checkin", "log")
          /\ WriteLog(s, "door", FALSE)
          /\ ThenMint(s)
       \/ /\ At(s, "api", "log")
          /\ WriteLog(s, "api", FALSE)
          /\ Return(s)
    /\ UNCHANGED <<attendee, redeemed, hooks, screen, begun, lost>>

-----------------------------------------------------------------------------
(* reprintBadge: no redemption, a print marked as a reprint *)

Reprint(s, v) ==
    /\ Eligible(attendee[v[1]])
    /\ Read(s, "reprint", "log", v)
    /\ UNCHANGED <<attendee, redeemed, hooks, log, lost>>

\* From the list of recent check-ins, or after a correction.
ReprintRecent(s, v) ==
    /\ \E i \in DOMAIN log : log[i].visit = v /\ log[i].handed
    /\ Fresh(s) /\ Reprint(s, v) /\ UNCHANGED screen

LogReprint(s) ==
    /\ At(s, "reprint", "log")
    /\ WriteLog(s, "door", TRUE)
    /\ ThenMint(s)
    /\ UNCHANGED <<attendee, redeemed, hooks, screen, begun, lost>>

-----------------------------------------------------------------------------
(* ensureBadgeSlug, then the badge handed to the screen *)

Hand(s, c) ==
    /\ log' = [log EXCEPT ![request[s].id].handed = TRUE,
                          ![request[s].id].code = c]
    /\ Return(s)

\* The row already had its code when it was read.
KeepCode(s) ==
    /\ request[s].at = "mint" /\ request[s].seen.code # NoCode
    /\ Hand(s, request[s].seen.code)
    /\ UNCHANGED <<attendee, redeemed, hooks, screen, begun, lost>>

\* The compare-and-set's where-clause.
Codeless(o) == attendee[o].code = NoCode

Taken(c) == \E o \in Orders : attendee[o].code = c

MintCode(s) ==
    LET o == Order(s) IN
    /\ request[s].at = "mint" /\ request[s].seen.code = NoCode
    /\ \E c \in Codes :
         \/ /\ ~Taken(c) /\ Codeless(o)
            /\ attendee' = [attendee EXCEPT ![o].code = c]
            /\ Hand(s, c)
         \/ /\ Taken(c) \/ ~Codeless(o)       \* P2002, or no row matched
            /\ request' = [request EXCEPT ![s].at = "reread",
                                          ![s].tries = @ + 1]
            /\ UNCHANGED <<attendee, log>>
    /\ UNCHANGED <<redeemed, hooks, screen, begun, lost>>

\* The code that won; after three attempts without one, a badge without a code.
RereadCode(s) ==
    LET c == attendee[Order(s)].code IN
    /\ request[s].at = "reread"
    /\ IF c # NoCode \/ request[s].tries = 3 THEN Hand(s, c)
       ELSE /\ request' = [request EXCEPT ![s].at = "mint"]
            /\ UNCHANGED log
    /\ UNCHANGED <<attendee, redeemed, hooks, screen, begun, lost>>

\* Any other failure of the database is swallowed: entry is worth more.
MintFails(s) ==
    /\ request[s].at \in {"mint", "reread"} /\ request[s].seen.code = NoCode
    /\ Hand(s, NoCode)
    /\ UNCHANGED <<attendee, redeemed, hooks, screen, begun, lost>>

-----------------------------------------------------------------------------
(* Losses, and what the operator does about them *)

\* The request dies, or its answer is lost on the way; the screen says so.
Lose(s) ==
    /\ request[s].op \in {"checkin", "reprint"} /\ request[s].at # "redeem"
    /\ lost < MaxLost /\ lost' = lost + 1
    /\ Show(s, "lost")
    /\ Return(s)
    /\ UNCHANGED <<attendee, redeemed, hooks, log, begun>>

\* "Try again": the same check-in once more.
Retry(s) ==
    /\ screen[s] # Blank /\ screen[s].kind = "lost"
    /\ CheckIn(s, screen[s].visit)
    /\ screen' = [screen EXCEPT ![s] = Blank]
    /\ UNCHANGED begun

\* "Already in": the prompt is confirmed and a replacement printed.
ConfirmReprint(s) ==
    /\ screen[s] # Blank /\ screen[s].kind = "already"
    /\ Reprint(s, screen[s].visit)
    /\ screen' = [screen EXCEPT ![s] = Blank]
    /\ UNCHANGED begun

-----------------------------------------------------------------------------
(* updateAttendeeDetails: the badge role; no badge, no print, no redemption *)

\* Fault: a text typed for "other" stays behind a fixed role.
LeftoverLabel(r) == r

\* resolveRoleLabel: only "other" keeps a text, and must have one.
ResolveRole(r) == IF r.tag = "other" THEN r ELSE [r EXCEPT !.label = FALSE]

\* The halves that were not sent are taken from the row that was read.
Correct(s, o, patch) ==
    LET half(k) == IF k \in DOMAIN patch THEN patch[k] ELSE attendee[o].role[k]
        role == [tag |-> half("tag"), label |-> half("label")]
    IN /\ DOMAIN patch # {}
       /\ role.tag = "other" => role.label
       /\ Fresh(s)
       /\ Start(s, "correct", "update", <<o, CHOOSE l \in Lists : TRUE>>, FALSE,
                ResolveRole(role))
       /\ UNCHANGED <<attendee, redeemed, hooks, log, screen, lost>>

\* Both columns are written, whatever the row has become.
WriteCorrection(s) ==
    /\ At(s, "correct", "update")
    /\ attendee' = [attendee EXCEPT ![Order(s)].role = request[s].role]
    /\ Return(s)
    /\ UNCHANGED <<redeemed, hooks, log, screen, begun, lost>>

-----------------------------------------------------------------------------
(* pretix and the other parts of the platform *)

\* A scan in pretixSCAN, outside this door.
PretixScan(v) ==
    /\ attendee[v[1]].state = "issued" /\ Accepts(v)
    /\ begun < MaxRequests /\ begun' = begun + 1
    /\ Accept(v)
    /\ UNCHANGED <<attendee, log, request, screen, lost>>

\* handleCheckinCreated: an ineligible order is ignored; the others' earlier
\* prints are counted, and the delivery is answered once its row is written.
HookRead(s, v) ==
    /\ v \in hooks
    /\ Eligible(attendee[v[1]])
    /\ Start(s, "hook", "log", v,
             \E i \in DOMAIN log : log[i].visit[1] = v[1],
             attendee[v[1]].role)
    /\ hooks' = hooks \ {v}
    /\ UNCHANGED <<attendee, redeemed, log, screen, begun, lost>>

HookLog(s) ==
    /\ At(s, "hook", "log")
    /\ WriteLog(s, "hook", request[s].prior)
    /\ \/ UNCHANGED <<hooks, lost>>
       \/ /\ lost < MaxLost /\ lost' = lost + 1     \* the 200 is lost
          /\ hooks' = hooks \cup {request[s].visit}
    /\ Return(s)
    /\ UNCHANGED <<attendee, redeemed, screen, begun>>

HookIgnored(v) ==
    /\ v \in hooks /\ ~Eligible(attendee[v[1]])
    /\ hooks' = hooks \ {v}
    /\ UNCHANGED <<attendee, redeemed, log, request, screen, begun, lost>>

\* A cancellation or a rejection (OrderLifecycle).
Cancel(o) ==
    /\ attendee[o].state = "issued"
    /\ attendee' = [attendee EXCEPT ![o].state = "canceled"]
    /\ UNCHANGED <<redeemed, hooks, log, request, screen, begun, lost>>

-----------------------------------------------------------------------------
Serve(s) == Redeem(s) \/ LogCheckIn(s) \/ LogReprint(s) \/ KeepCode(s)
            \/ MintCode(s) \/ RereadCode(s) \/ WriteCorrection(s) \/ HookLog(s)

DoorNext ==
    \/ \E s \in Stations :
         \/ Serve(s) \/ MintFails(s) \/ Lose(s) \/ Retry(s)
         \/ ConfirmReprint(s)
         \/ \E v \in Visit : CheckInByCode(s, v) \/ ApiCheckIn(s, v)
                             \/ ReprintRecent(s, v) \/ HookRead(s, v)
         \/ \E i \in DOMAIN log, l \in Lists : CheckInByBadge(s, i, l)
         \/ \E o \in Orders, p \in Patches : Correct(s, o, p)
    \/ \E v \in Visit : PretixScan(v) \/ HookIgnored(v)
    \/ \E o \in Orders : Cancel(o)

\* A request the server has taken runs to its end; a screen that asks for
\* something gets its answer.
DoorFairness ==
    \A s \in Stations : WF_doorVars(Serve(s)) /\ WF_doorVars(Retry(s))
                        /\ WF_doorVars(ConfirmReprint(s))

DoorSpec == DoorInit /\ [][DoorNext]_doorVars /\ DoorFairness

-----------------------------------------------------------------------------
(* Properties *)

Printed(i, v) == log[i].visit = v /\ log[i].handed

\* The code a badge carries is its order's only code for good, and no other
\* order's: two stations that print the first badges of one person, or draw
\* the same code for two, end with badges that find their owner on day two
\* (ensureBadgeSlug's compare-and-set, unique index and re-read).
OneBadgeCode ==
    /\ \A i \in DOMAIN log :
         log[i].code # NoCode => attendee[log[i].visit[1]].code = log[i].code
    /\ \A o, p \in Orders :
         attendee[o].code = attendee[p].code /\ attendee[o].code # NoCode => o = p

\* Whatever is retried, raced or lost, one visit has at most one log row of the
\* door or the API that is not a reprint, and pretix holds that visit: the
\* dashboard counts those rows as check-ins (checkInResolvedOrder, POST
\* /checkins: the row follows a redemption that pretix grants once).
FirstPrintOnce ==
    LET first == {i \in DOMAIN log : log[i].by # "hook" /\ ~log[i].reprint} IN
    /\ \A i, j \in first : log[i].visit = log[j].visit => i = j
    /\ \A i \in first : log[i].visit \in redeemed

\* Corrections that race each other (each writes both columns from the row it
\* read) never leave a text behind a fixed role, where it would come back as a
\* deliberate answer (updateAttendeeDetails, resolveRoleLabel).
LabelOnlyForOther ==
    \A o \in Orders : attendee[o].role.label => attendee[o].role.tag = "other"

\* Everyone the door has redeemed, or may have redeemed when the reply was
\* lost, gets a badge of that visit unless the order is canceled: the retry is
\* refused by pretix, the refusal names the person, and the reprint prints
\* (alreadyCheckedIn, reprintBadge).
RedeemedGetsBadge ==
    \A s \in Stations, v \in Visit :
        /\ request[s].op = "checkin" /\ request[s].visit = v
        /\ v \in redeemed
        ~> \/ \E i \in DOMAIN log : Printed(i, v)
           \/ ~Eligible(attendee[v[1]])

\* A visit whose first row is still to be written has none.
DueOnce(s) ==
    request[s].at = "log" /\ request[s].op \in {"checkin", "api"} =>
        /\ request[s].visit \in redeemed
        /\ \A i \in DOMAIN log :
             log[i].visit = request[s].visit => log[i].by = "hook" \/ log[i].reprint
        /\ \A t \in Stations :
             /\ request[t].at = "log" /\ request[t].op \in {"checkin", "api"}
             /\ request[t].visit = request[s].visit
             => t = s

\* A request that prints a badge owns a row of its own.
OwnRow(s) ==
    request[s].at \in {"mint", "reread"} =>
        /\ request[s].id \in DOMAIN log
        /\ log[request[s].id].visit = request[s].visit
        /\ ~log[request[s].id].handed
        /\ \A t \in Stations :
             request[t].at \in {"mint", "reread"} /\ request[t].id = request[s].id
             => t = s

\* The code a request has read does not change any more.
FirmCode(s) ==
    request[s].op # "none" /\ request[s].seen.code # NoCode
        => attendee[Order(s)].code = request[s].seen.code

WholeRole(s) ==
    request[s].op = "correct" => (request[s].role.label
                                  => request[s].role.tag = "other")

\* The inductive invariant behind OneBadgeCode, FirstPrintOnce and
\* LabelOnlyForOther: what each pending request may still do to the log, the
\* code and the role (checkInResolvedOrder, ensureBadgeSlug, and the
\* corrections between their read and their update).
DoorInv ==
    /\ TypeOK
    /\ OneBadgeCode /\ FirstPrintOnce /\ LabelOnlyForOther
    /\ \A s \in Stations : DueOnce(s) /\ OwnRow(s) /\ FirmCode(s) /\ WholeRole(s)
=============================================================================
