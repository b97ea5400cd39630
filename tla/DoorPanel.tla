------------------------------ MODULE DoorPanel ------------------------------
(***************************************************************************)
(* The door's screen (checkin-panel.tsx): one component in one browser tab, *)
(* where a keyboard that is also a scanner, a search answered late, requests *)
(* to the server, prints that overlap and two forms all write to one banner *)
(* and one search box.  What the server does is module Door; here it is an  *)
(* outcome.  React applies the updates of one handler together, and the     *)
(* effects that follow them belong to the same action.                      *)
(***************************************************************************)
EXTENDS Naturals, FiniteSets, Sequences

CONSTANTS
    People,       \* registered orders
    Texts,        \* what may stand in the search box
    Scannable,    \* texts that look like a code (looksScannable)
    SlugLike,     \* texts that could be a name or a badge code
    Found,        \* the people a text finds, when it is searched for
    Nothing,      \* no text, no person, no request
    Lanes,        \* check-in lists this tab is switched between
    RecentLimit,  \* length of the list of recent check-ins
    MaxAdmitted   \* bound on the badges one tab prints

ASSUME PanelConstants ==
    /\ Scannable \subseteq Texts /\ SlugLike \subseteq Texts \ Scannable
    /\ Found \in [Texts -> SUBSET People]
    /\ Nothing \notin Texts \cup People /\ IsFiniteSet(People)
ASSUME PanelBounds == RecentLimit \in Nat \ {0} /\ MaxAdmitted \in Nat

VARIABLES
    box, asked,     \* the search box; and as it was at the last dispatch
    rows, answers,  \* the results shown, and the text they answer (rowsQuery)
    search,         \* the search of the box: waiting for its debounce, or out
    searching, searchFailed,
    pending,        \* the request of the check-in transition
    banner, confirm,\* the result shown; whom a reprint is offered for
    owners,         \* who was printed for, in order: the last owns the screen
    prints,         \* prints that have not resolved
    latch,          \* qzUnreachable: the printer is not dialled any more
    fallback,       \* whose badge the browser print offers
    walkIn,         \* the walk-in form: "closed", "open" or "submitting"
    edit,           \* the Fix form
    lane, recent, stored

searchVars == <<box, rows, answers, search, searching, searchFailed>>
printVars == <<owners, prints, latch, fallback>>
laneVars == <<lane, recent, stored>>
formVars == <<walkIn, edit>>
panelVars == <<searchVars, asked, pending, banner, confirm, printVars, formVars,
               laneVars>>

-----------------------------------------------------------------------------
Maybe(S) == S \cup {Nothing}
Banner(kind, who) == [kind |-> kind, who |-> who]
NoBanner == Banner("none", Nothing)
Working == Banner("working", Nothing)
NoEdit == [open |-> Nothing, opening |-> Nothing, saving |-> Nothing,
           step |-> "none"]

PanelTypeOK ==
    /\ box \in Maybe(Texts) /\ asked \in Maybe(Texts)
    /\ rows \subseteq People /\ answers \in Maybe(Texts)
    /\ search \in {"none", "debounce", "flight"}
    /\ searching \in BOOLEAN /\ searchFailed \in BOOLEAN
    /\ pending \in {Nothing} \cup [kind : {"in", "reprint"}, who : Maybe(People)]
    /\ banner \in [kind : {"none", "working", "ok", "warn", "err", "auth"},
                   who : Maybe(People)]
    /\ confirm \in Maybe(People)
    /\ owners \in Seq(People)
    /\ prints \subseteq [ticket : Nat, who : People, dialled : BOOLEAN]
    /\ latch \in BOOLEAN /\ fallback \in Maybe(People)
    /\ walkIn \in {"closed", "open", "submitting"}
    /\ edit \in [open : Maybe(People), opening : Maybe(People),
                 saving : Maybe(People), step : {"none", "save", "reprint"}]
    /\ lane \in Lanes
    /\ recent \in Seq(People \X Lanes)
    /\ stored \in [Lanes -> Seq(People \X Lanes)]

PanelInit ==
    /\ box = Nothing /\ asked = Nothing
    /\ rows = {} /\ answers = Nothing /\ search = "debounce"
    /\ searching = FALSE /\ searchFailed = FALSE
    /\ pending = Nothing /\ banner = NoBanner /\ confirm = Nothing
    /\ owners = <<>> /\ prints = {} /\ latch = FALSE /\ fallback = Nothing
    /\ walkIn = "closed" /\ edit = NoEdit
    /\ lane \in Lanes
    /\ recent = <<>> /\ stored = [l \in Lanes |-> <<>>]

-----------------------------------------------------------------------------
(* The search box *)

\* What the box holds, and the search effect its change restarts: the search of
\* an older text is cancelled, and none starts while the walk-in form is open.
Fill(text, form) ==
    /\ box' = text
    /\ search' = IF form # "closed" THEN "none"
                 ELSE IF text # box \/ walkIn # "closed" THEN "debounce"
                 ELSE search

\* A keystroke, a paste, or a scanner that types.
Type(text) ==
    /\ walkIn = "closed"
    /\ Fill(text, walkIn)
    /\ UNCHANGED <<rows, answers, searching, searchFailed, asked, pending,
                   banner, confirm, printVars, formVars, laneVars>>

\* 220 ms later: an empty box and a code are not searched for.
Debounced ==
    /\ search = "debounce"
    /\ IF box \in Texts \ Scannable
       THEN /\ search' = "flight" /\ searching' = TRUE
            /\ UNCHANGED <<rows, answers, searchFailed>>
       ELSE /\ search' = "none" /\ searching' = FALSE
            /\ rows' = {} /\ answers' = box /\ searchFailed' = FALSE
    /\ UNCHANGED <<box, asked, pending, banner, confirm, printVars, formVars,
                   laneVars>>

\* The answer to the text in the box; those to older texts are dropped.
SearchAnswers(outcome) ==
    /\ search = "flight" /\ search' = "none" /\ searching' = FALSE
    /\ \/ /\ outcome = "ok"
          /\ rows' = Found[box] /\ answers' = box /\ searchFailed' = FALSE
          /\ banner' = IF banner.kind = "auth" THEN NoBanner ELSE banner
       \/ /\ outcome \in {"auth", "err"}
          /\ rows' = {} /\ answers' = box /\ searchFailed' = TRUE
          /\ banner' = Banner(outcome, Nothing)
       \/ /\ outcome = "lost"            \* the call rejects: nothing is set
          /\ UNCHANGED <<rows, answers, searchFailed, banner>>
    /\ confirm' = IF outcome = "auth" THEN Nothing ELSE confirm
    /\ UNCHANGED <<box, asked, pending, printVars, formVars, laneVars>>

-----------------------------------------------------------------------------
(* Dispatching: one request at a time *)

Dispatch(kind, who) ==
    /\ pending = Nothing
    /\ pending' = [kind |-> kind, who |-> who]
    /\ asked' = box
    /\ banner' = Working
    /\ UNCHANGED <<printVars, formVars, laneVars>>

\* decideEnter, for text t over results found that answer text a.
DecideEnter(t, a, found) ==
    IF t = Nothing THEN "none"
    ELSE IF t \in Scannable THEN "scan"
    ELSE IF a = t /\ Cardinality(found) = 1 THEN "checkIn"
    ELSE IF t \in SlugLike /\ a = t /\ found = {} THEN "scan"
    ELSE "none"

\* Enter on the only match.
EnterChecksIn(o) ==
    /\ walkIn = "closed"
    /\ DecideEnter(box, answers, rows) = "checkIn" /\ o \in rows

EnterCheckIn(o) ==
    /\ EnterChecksIn(o)
    /\ Dispatch("in", o)
    /\ UNCHANGED <<searchVars, confirm>>

\* Enter on a code empties the box at once.
EnterScan ==
    /\ walkIn = "closed" /\ DecideEnter(box, answers, rows) = "scan"
    /\ pending = Nothing /\ pending' = [kind |-> "in", who |-> Nothing]
    /\ Fill(Nothing, walkIn) /\ rows' = {} /\ answers' = Nothing
    /\ asked' = box
    /\ banner' = Working
    /\ UNCHANGED <<searching, searchFailed, confirm, printVars, formVars,
                   laneVars>>

CameraScan == Dispatch("in", Nothing) /\ UNCHANGED <<searchVars, confirm>>

RowCheckIn(o) ==
    /\ walkIn = "closed" /\ o \in rows
    /\ Dispatch("in", o) /\ UNCHANGED <<searchVars, confirm>>

\* Every reprint is asked for first.
OfferReprint(o) ==
    /\ pending = Nothing
    /\ \E i \in DOMAIN recent : recent[i][1] = o
    /\ banner.kind = "none"                  \* the list yields to a banner
    /\ confirm' = o
    /\ UNCHANGED <<searchVars, asked, pending, banner, printVars, formVars,
                   laneVars>>

PrintReplacement ==
    /\ confirm # Nothing
    /\ Dispatch("reprint", confirm)
    /\ confirm' = Nothing
    /\ UNCHANGED searchVars

CancelReprint ==
    /\ confirm # Nothing /\ pending = Nothing
    /\ confirm' = Nothing
    /\ UNCHANGED <<searchVars, asked, pending, banner, printVars, formVars,
                   laneVars>>

-----------------------------------------------------------------------------
(* handleResult *)

\* Remembered, and saved, under the lane on the screen.
Remember(o) ==
    /\ recent' = SubSeq(<<<<o, lane>>>> \o recent, 1,
                        IF Len(recent) < RecentLimit THEN Len(recent) + 1
                                                     ELSE RecentLimit)
    /\ stored' = [stored EXCEPT ![lane] = recent']
    /\ UNCHANGED lane

\* A badge came back: its print owns the screen, and the box is emptied if it
\* still holds what it held when the request went out.
Admit(o, form) ==
    /\ Len(owners) < MaxAdmitted
    /\ owners' = Append(owners, o)
    /\ prints' = prints \cup {[ticket |-> Len(owners) + 1, who |-> o,
                               dialled |-> ~latch]}
    /\ fallback' = Nothing /\ confirm' = Nothing /\ banner' = Working
    /\ Remember(o)
    /\ IF box = asked THEN Fill(Nothing, form) /\ rows' = {}
                      ELSE Fill(box, form) /\ UNCHANGED rows
    /\ UNCHANGED <<latch, answers, searching, searchFailed, asked>>

SessionEnded == confirm' = Nothing /\ banner' = Banner("auth", Nothing)

NoBadge == UNCHANGED <<searchVars, asked, printVars, laneVars>>

\* Whom the request was about: a scanned code may be anyone's.
Subject(o) == pending.who \in {o, Nothing}

ReplyBadge(o) ==
    /\ pending # Nothing /\ Subject(o) /\ pending' = Nothing
    /\ Admit(o, walkIn)
    /\ UNCHANGED formVars

ReplyAlready(o) ==
    /\ pending # Nothing /\ pending.kind = "in" /\ Subject(o)
    /\ pending' = Nothing
    /\ confirm' = o /\ banner' = Banner("warn", o)
    /\ NoBadge /\ UNCHANGED formVars

\* Refused, expired, or lost on the way: each ends the request.
\* Fault: a rejected call ends in no handler.
OnlyReplies(outcome) == outcome # "lost"

Finally(outcome) == outcome \in {"err", "auth", "lost"}

ReplyNone(outcome) ==
    /\ pending # Nothing
    /\ pending' = IF Finally(outcome) THEN Nothing ELSE pending
    /\ IF outcome = "auth" THEN SessionEnded
       ELSE confirm' = Nothing /\ banner' = Banner("err", Nothing)
    /\ NoBadge /\ UNCHANGED formVars

-----------------------------------------------------------------------------
(* Prints, which overlap, and the banner *)

\* print-ownership: only the newest claim does.
Owns(p) == p.ticket = Len(owners)

PrintEnds(p, outcome) ==
    /\ p \in prints /\ prints' = prints \ {p}
    /\ outcome \in {"printed", "unreachable"} => p.dialled
    /\ latch' = (latch \/ outcome = "unreachable")
    /\ IF ~Owns(p) THEN UNCHANGED <<fallback, banner>>
       ELSE IF outcome = "printed"
       THEN fallback' = Nothing /\ banner' = Banner("ok", p.who)
       ELSE fallback' = p.who /\ banner' = Banner("warn", p.who)
    /\ UNCHANGED <<searchVars, asked, pending, confirm, owners, formVars,
                   laneVars>>

\* A probe finds the printer again; or the operator says so, on the fallback.
Rearm ==
    /\ latch \/ fallback # Nothing
    /\ latch' = FALSE /\ fallback' = Nothing
    /\ UNCHANGED <<searchVars, asked, pending, banner, confirm, owners, prints,
                   formVars, laneVars>>

\* Only a success clears itself.
BannerExpires ==
    /\ banner.kind = "ok" /\ banner' = NoBanner
    /\ UNCHANGED <<searchVars, asked, pending, confirm, printVars, formVars,
                   laneVars>>

\* A form and the reprint prompt own Escape while they are open.
Escape ==
    /\ walkIn = "closed" /\ edit.open = Nothing
    /\ IF confirm # Nothing
       THEN confirm' = Nothing /\ UNCHANGED <<box, search, rows, banner>>
       ELSE /\ Fill(Nothing, walkIn) /\ rows' = {} /\ banner' = NoBanner
            /\ UNCHANGED confirm
    /\ UNCHANGED <<answers, searching, searchFailed, asked, pending, printVars,
                   formVars, laneVars>>

-----------------------------------------------------------------------------
(* Fix: load, save, then the ordinary reprint *)

OpenEdit(o) ==
    /\ pending = Nothing /\ edit.opening = Nothing /\ edit.saving = Nothing
    /\ \E i \in DOMAIN recent : recent[i][1] = o
    /\ banner.kind = "none"
    /\ edit' = [edit EXCEPT !.open = Nothing, !.opening = o]
    /\ UNCHANGED <<searchVars, asked, pending, banner, confirm, printVars,
                   walkIn, laneVars>>

EditOpens(outcome) ==
    /\ edit.opening # Nothing
    /\ edit' = [edit EXCEPT
          !.opening = IF Finally(outcome) \/ outcome = "ok" THEN Nothing ELSE @,
          !.open = IF outcome = "ok" THEN edit.opening ELSE @]
    /\ CASE outcome = "ok" -> UNCHANGED <<banner, confirm>>
         [] outcome = "auth" -> SessionEnded
         [] OTHER -> banner' = Banner("err", Nothing) /\ UNCHANGED confirm
    /\ NoBadge /\ UNCHANGED <<pending, walkIn>>

SaveEdit ==
    /\ edit.open # Nothing /\ edit.saving = Nothing
    /\ edit' = [edit EXCEPT !.saving = edit.open, !.step = "save"]
    /\ UNCHANGED <<searchVars, asked, pending, banner, confirm, printVars,
                   walkIn, laneVars>>

CancelEdit ==
    /\ edit.open # Nothing /\ edit.saving = Nothing
    /\ edit' = [edit EXCEPT !.open = Nothing]
    /\ UNCHANGED <<searchVars, asked, pending, banner, confirm, printVars,
                   walkIn, laneVars>>

\* The dialog closes only if it is still the one that was saved.
EditSaved ==
    /\ edit.step = "save"
    /\ edit' = [edit EXCEPT
          !.step = "reprint",
          !.open = IF @ = edit.saving THEN Nothing ELSE @]
    /\ UNCHANGED <<searchVars, asked, pending, banner, confirm, printVars,
                   walkIn, laneVars>>

EditDone(outcome) ==
    edit' = IF Finally(outcome) \/ outcome = "ok"
            THEN [edit EXCEPT !.saving = Nothing, !.step = "none"] ELSE edit

EditFails(outcome) ==
    /\ edit.saving # Nothing
    /\ EditDone(outcome)
    /\ CASE outcome = "auth" -> SessionEnded
         [] outcome = "err" /\ edit.step = "reprint" ->
               banner' = Banner("warn", edit.saving) /\ UNCHANGED confirm
         [] OTHER -> banner' = Banner("err", Nothing) /\ UNCHANGED confirm
    /\ NoBadge /\ UNCHANGED <<pending, walkIn>>

EditReprints ==
    /\ edit.step = "reprint"
    /\ EditDone("ok")
    /\ Admit(edit.saving, walkIn)
    /\ UNCHANGED <<pending, walkIn>>

-----------------------------------------------------------------------------
(* A walk-in: registered, checked in and printed by one call *)

SearchUsable == banner.kind # "auth" /\ ~searchFailed

\* "No one matches: register them", or the quiet button below the results.
OpenWalkIn ==
    /\ walkIn = "closed" /\ pending = Nothing
    /\ SearchUsable
    /\ walkIn' = "open" /\ search' = "none"
    /\ UNCHANGED <<box, rows, answers, searching, searchFailed, asked, pending,
                   banner, confirm, printVars, edit, laneVars>>

CloseWalkIn ==
    /\ walkIn = "open" /\ walkIn' = "closed"
    /\ Fill(box, walkIn')
    /\ UNCHANGED <<rows, answers, searching, searchFailed, asked, pending,
                   banner, confirm, printVars, edit, laneVars>>

SubmitWalkIn ==
    /\ walkIn = "open" /\ walkIn' = "submitting"
    /\ UNCHANGED <<searchVars, asked, pending, banner, confirm, printVars, edit,
                   laneVars>>

WalkInAdmitted(o) ==
    /\ walkIn = "submitting" /\ walkIn' = "closed"
    /\ Admit(o, walkIn')
    /\ UNCHANGED <<pending, edit>>

\* Registered, but not checked in: the form closes, and the new order's code
\* (a text that finds it) goes into the box.
WalkInRegistered(o, code) ==
    /\ walkIn = "submitting" /\ walkIn' = "closed"
    /\ code \in Texts /\ Found[code] = {o}
    /\ Fill(code, walkIn')
    /\ banner' = Banner("warn", o)
    /\ UNCHANGED <<rows, answers, searching, searchFailed, asked, pending,
                   confirm, printVars, edit, laneVars>>

\* Otherwise the form stays open, to be submitted again.
WalkInFails(outcome) ==
    /\ walkIn = "submitting"
    /\ walkIn' = IF Finally(outcome) THEN "open" ELSE walkIn
    /\ IF outcome = "auth" THEN SessionEnded
       ELSE banner' = Banner("err", Nothing) /\ UNCHANGED confirm
    /\ NoBadge /\ UNCHANGED <<pending, edit>>

-----------------------------------------------------------------------------
(* Lanes and reloads *)

\* Fault: a lane without a history leaves the list alone.
KeepIfEmpty(l) == IF stored[l] = <<>> THEN recent ELSE stored[l]

\* The restore is unconditional; the save that follows writes it back.
Restored(l) == stored[l]

\* The day switcher keeps the panel, its forms and its requests.
SwitchLane(l) ==
    /\ l # lane /\ lane' = l
    /\ recent' = Restored(l)
    /\ stored' = [stored EXCEPT ![l] = recent']
    /\ UNCHANGED <<searchVars, asked, pending, banner, confirm, printVars,
                   formVars>>

\* The tab reloads: only what is stored survives.
Reload ==
    /\ box' = Nothing /\ asked' = Nothing
    /\ rows' = {} /\ answers' = Nothing /\ search' = "debounce"
    /\ searching' = FALSE /\ searchFailed' = FALSE
    /\ pending' = Nothing /\ banner' = NoBanner /\ confirm' = Nothing
    /\ owners' = <<>> /\ prints' = {} /\ latch' = FALSE /\ fallback' = Nothing
    /\ walkIn' = "closed" /\ edit' = NoEdit
    /\ recent' = Restored(lane)
    /\ UNCHANGED <<lane, stored>>

-----------------------------------------------------------------------------
\* How a call to the server ends without a result: refused or failed, with no
\* session behind it any more, or rejected on the way.
Failed == {"err", "auth", "lost"}

\* searchAction never takes an expired session or a failed query for "nobody".
SearchResult == {"ok"} \cup Failed

Reply == (\E o \in People : ReplyBadge(o) \/ ReplyAlready(o))
         \/ \E f \in Failed : ReplyNone(f)
EditReply == EditSaved \/ EditReprints
             \/ (\E f \in Failed \cup {"ok"} : EditOpens(f))
             \/ \E f \in Failed : EditFails(f)
WalkInReply == (\E o \in People : WalkInAdmitted(o)
                                  \/ \E c \in Texts : WalkInRegistered(o, c))
               \/ \E f \in Failed : WalkInFails(f)

PanelNext ==
    \/ \E t \in Maybe(Texts) : Type(t)
    \/ Debounced \/ \E f \in SearchResult : SearchAnswers(f)
    \/ \E o \in People : EnterCheckIn(o) \/ RowCheckIn(o) \/ OfferReprint(o)
                         \/ OpenEdit(o)
    \/ EnterScan \/ CameraScan \/ PrintReplacement \/ CancelReprint
    \/ Reply \/ EditReply \/ WalkInReply
    \/ \E p \in prints, r \in {"printed", "jam", "unreachable"} : PrintEnds(p, r)
    \/ Rearm \/ BannerExpires \/ Escape
    \/ SaveEdit \/ CancelEdit
    \/ OpenWalkIn \/ CloseWalkIn \/ SubmitWalkIn
    \/ \E l \in Lanes : SwitchLane(l)
    \/ Reload

\* Every call to the server returns or rejects.
PanelFairness == WF_panelVars(Reply) /\ WF_panelVars(EditReply)
                 /\ WF_panelVars(WalkInReply)

PanelSpec == PanelInit /\ [][PanelNext]_panelVars /\ PanelFairness

-----------------------------------------------------------------------------
(* Properties *)

\* The results on the screen are those of the text they claim to answer.
RowsAnswer == rows # {} => answers # Nothing /\ rows = Found[answers]

\* Enter, which a scanner presses too, checks in only the one person whom the
\* text now in the box finds, never the match of a text typed before it
\* (decideEnter over rows and rowsQuery, written by a search answered late).
EnterIsExact == \A o \in People : EnterChecksIn(o) => Found[box] = {o}

\* A green banner, and the browser print, are about the person admitted last,
\* however late the prints of the people before them resolve
\* (createPrintOwnership, handleResult).
ScreenIsNewest ==
    /\ banner.kind = "ok" => owners # <<>> /\ banner.who = owners[Len(owners)]
    /\ fallback # Nothing => owners # <<>> /\ fallback = owners[Len(owners)]

\* A lane lists, and stores, only the people remembered while it was on the
\* screen, across switches of the day and reloads (the restore and save effects
\* of the recent list, recent-store.ts).
LaneKeepsItsOwn ==
    /\ \A i \in DOMAIN recent : recent[i][2] = lane
    /\ \A l \in Lanes : \A i \in DOMAIN stored[l] : stored[l][i][2] = l

\* Types, rows, Enter, owned screen and lanes together: inductive.  The lists of recent
\* check-ins survive lane switches and reloads unmixed, no code is ever searched for,
\* and a correction that is reprinted is somebody's (checkin-panel.tsx).
PanelInv ==
    /\ PanelTypeOK
    /\ RowsAnswer /\ EnterIsExact /\ ScreenIsNewest /\ LaneKeepsItsOwn
    /\ \A l \in Lanes : Len(stored[l]) <= RecentLimit
    /\ Len(recent) <= RecentLimit /\ Len(owners) <= MaxAdmitted
    /\ \A p \in prints : p.ticket \in DOMAIN owners /\ owners[p.ticket] = p.who
    /\ edit.step = "none" <=> edit.saving = Nothing
    /\ search = "flight" => box \in Texts \ Scannable

\* No form and no button stays dead: whatever is lost on the way, the request
\* ends and its flag is released (connectionLost, and the catch and finally of
\* openEdit, the correction and the walk-in).
NothingLatches ==
    /\ []<>(pending = Nothing)
    /\ []<>(edit.opening = Nothing) /\ []<>(edit.saving = Nothing)
    /\ []<>(walkIn # "submitting")
=============================================================================
