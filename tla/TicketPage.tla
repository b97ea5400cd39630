----------------------------- MODULE TicketPage -----------------------------
(***************************************************************************)
(* The pages an attendee opens after registering (attendee-state-view.tsx, *)
(* t/[token], confirmation, payment-pending), the links that open them     *)
(* (registration/access.ts, tokens/magic-link.ts), the button that mails   *)
(* the link again and the contact card behind a badge (c/[slug]).          *)
(*                                                                         *)
(* A registration moves as RegistrationView lets it.  A page shows what the *)
(* server read when it was opened and, while the ticket is awaited, asks    *)
(* again every tick; the symbol is drawn later than the page.               *)
(***************************************************************************)
EXTENDS Naturals, FiniteSets

CONSTANTS
    Tickets,      \* orders of one event
    Tabs,         \* tabs of one browser
    Ips,          \* addresses requests come from; the browser has Home
    Home,
    Storage,      \* localStorage: it may refuse writes, or everything
    WatchLimit,   \* WATCH_LIMIT
    LookupLimit,  \* ORDER_LOOKUP_LIMIT
    IpMails,      \* 3 mails asked for per address and ten minutes
    OrderMails,   \* 3 per order and hour
    Guess,        \* an order code no order has
    Rotators,     \* requests that make a fresh link, at the same time or later
    MaxVersion    \* bound on the links of one order

ASSUME HomeAssumption == Home \in Ips
ASSUME StorageAssumption == Storage \subseteq {"works", "read only", "blocked"}
ASSUME LimitsAssumption ==
    {WatchLimit, LookupLimit, IpMails, OrderMails, MaxVersion} \subseteq Nat
ASSUME GuessAssumption == Guess \notin Tickets

VARIABLES
    stage,     \* registrationState of each order's row
    link,      \* magicLinkVersion and magicLinkRevokedAt of each row, and the
               \* newest version a link was ever handed out for
    rotation,  \* what each rotation has read: its order and the version after it
    tab,       \* what each tab shows
    storage,   \* what this browser's localStorage does
    seen,      \* orders localStorage remembers as opened
    played,    \* how often the reveal has played for each order
    lookups,   \* order pages opened from Home in this minute
    ipAsked,   \* mails asked for from each address in its window
    codeAsked, \* mails asked for each code in its window
    mailed     \* mails sent for each code in that window

pageVars == <<stage, link, rotation, tab, storage, seen, played, lookups>>
mailVars == <<ipAsked, codeAsked, mailed>>
ticketVars == <<stage, link, rotation, tab, storage, seen, played, lookups,
                ipAsked, codeAsked, mailed>>

Registered == INSTANCE RegistrationView WITH Orders <- Tickets, state <- stage

NoTab == [route |-> "none", ticket |-> Guess, version |-> 0, shows |-> "nothing",
          visible |-> FALSE, spent |-> 0, asking |-> FALSE, first |-> FALSE,
          qr |-> "none", sheen |-> FALSE]
NoRotation == [of |-> Guess, to |-> 0]
Codes == Tickets \cup {Guess}

TicketInit ==
    /\ Registered!ViewInit
    /\ link = [t \in Tickets |-> [version |-> 0, revoked |-> FALSE, minted |-> 0]]
    /\ rotation = [q \in Rotators |-> NoRotation]
    /\ tab = [b \in Tabs |-> NoTab]
    /\ storage \in Storage
    /\ seen = {} /\ played = [t \in Tickets |-> 0]
    /\ lookups = 0
    /\ ipAsked = [i \in Ips |-> 0]
    /\ codeAsked = [c \in Codes |-> 0] /\ mailed = [c \in Codes |-> 0]

-----------------------------------------------------------------------------
(* The links.                                                              *)

\* A token verifies only as one of those signed for the order, with the version
\* it was signed for; whether it still opens is for the row to say.
verifyMagicLinkClaims(t, v) == v <= link[t].minted

getOrderByToken(t, v) == ~link[t].revoked /\ link[t].version = v

RowMoves(t) ==
    /\ Registered!Move(t)
    /\ UNCHANGED <<link, rotation, tab, storage, seen, played, lookups, mailVars>>

revokeOrderMagicLink(t) ==
    /\ link' = [link EXCEPT ![t].revoked = TRUE]
    /\ UNCHANGED <<stage, rotation, tab, storage, seen, played, lookups, mailVars>>

\* A plausible bug: signing again without the bump mints the very same link.
SameVersion(t) == link[t].version

NextVersion(t) == link[t].version + 1

\* The row is read and the new token signed; nothing keeps a second request from
\* reading the same row, or a revocation from coming between.
BeginRotation(q, t) ==
    /\ rotation[q] = NoRotation /\ NextVersion(t) <= MaxVersion
    /\ rotation' = [rotation EXCEPT ![q] = [of |-> t, to |-> NextVersion(t)]]
    /\ UNCHANGED <<stage, link, tab, storage, seen, played, lookups, mailVars>>

Later(v, w) == IF v > w THEN v ELSE w

\* The version computed then is written over the row, and clears its revocation;
\* or the update throws, and no link is handed out.
rotateOrderMagicLink(q) ==
    LET t == rotation[q].of
        v == rotation[q].to
    IN  /\ rotation[q] # NoRotation
        /\ rotation' = [rotation EXCEPT ![q] = NoRotation]
        /\ link' \in {link, [link EXCEPT ![t] = [version |-> v, revoked |-> FALSE,
                                                minted |-> Later(@.minted, v)]]}
        /\ UNCHANGED <<stage, tab, storage, seen, played, lookups, mailVars>>

-----------------------------------------------------------------------------
(* A page is opened: by the mailed link, or by a code anyone may type.     *)

\* rateLimit: a count within a window, refused once it passes the limit.
Counted(n, limit) == IF n > limit THEN n ELSE n + 1
Allowed(n, limit) == n < limit

shouldShowTicketQr(s, canReveal) == canReveal /\ s = "issued"

\* A plausible bug: a page that waits for the organiser does not watch.
WatchesPaymentOnly(s) == s = "pending_payment"

shouldWatchForTicket(s) == s \in {"pending_payment", "pending_approval"}

\* A plausible bug: a first view that could not be written down is one still.
ClaimsUnwritten(t) == storage # "blocked" /\ t \notin seen

claimFirstView(t) == storage = "works" /\ t \notin seen

NewTab(route, t, v) ==
    [NoTab EXCEPT !.route = route, !.ticket = t, !.version = v, !.visible = TRUE]

Refusal == {"not found", "too many"}
MayReveal(b) == tab[b].route = "link"

\* The view mounts: the reveal plays at once unless a symbol must be drawn.
Mounted(new, s, qr, first) ==
    [new EXCEPT !.shows = s, !.first = first, !.sheen = first /\ ~qr,
                !.qr = IF qr THEN "loading" ELSE "none"]

Mount(b, new) ==
    LET s     == stage[new.ticket]
        qr    == shouldShowTicketQr(s, new.route = "link")
        first == claimFirstView(new.ticket)
    IN  /\ tab' = [tab EXCEPT ![b] = Mounted(new, s, qr, first)]
        /\ seen' = IF storage = "works" THEN seen \cup {new.ticket} ELSE seen
        /\ played' = [played EXCEPT ![new.ticket] = @ + IF first /\ ~qr THEN 1 ELSE 0]

\* notFound() and TooManyRequests carry no view: nothing ticks any more.
Refuse(b, new, why) ==
    /\ tab' = [tab EXCEPT ![b] = [new EXCEPT !.shows = why]]
    /\ UNCHANGED <<seen, played>>

OpenLink(b, t, v) ==
    LET new == NewTab("link", t, v)
    IN  /\ verifyMagicLinkClaims(t, v)
        /\ IF getOrderByToken(t, v) THEN Mount(b, new)
                                    ELSE Refuse(b, new, "not found")
        /\ UNCHANGED <<stage, link, rotation, storage, lookups, mailVars>>

\* The confirmation and payment-pending pages: any state, never the symbol.
OpenCode(b, t) ==
    LET new == NewTab("code", t, 0)
    IN  /\ IF Allowed(lookups, LookupLimit) THEN Mount(b, new)
                                            ELSE Refuse(b, new, "too many")
        /\ lookups' = Counted(lookups, LookupLimit)
        /\ UNCHANGED <<stage, link, rotation, storage, mailVars>>

\* Where the wizard sends the browser once register() has answered.
postRegisterPath(b, t) ==
    IF stage[t] = "issued" THEN OpenLink(b, t, link[t].version)
                           ELSE OpenCode(b, t)

AnotherLookup ==
    /\ lookups <= LookupLimit /\ lookups' = Counted(lookups, LookupLimit)
    /\ UNCHANGED <<stage, link, rotation, tab, storage, seen, played, mailVars>>

LookupWindowEnds ==
    /\ lookups > 0 /\ lookups' = 0
    /\ UNCHANGED <<stage, link, rotation, tab, storage, seen, played, mailVars>>

-----------------------------------------------------------------------------
(* An open page: the symbol, the interval and its refreshes.               *)

Open(b) == tab[b] # NoTab

\* toDataURL answers, or fails and the code is shown as text: both settle.
Draw(b) ==
    /\ Open(b) /\ tab[b].qr = "loading"
    /\ \E outcome \in {"ready", "error"} :
          tab' = [tab EXCEPT ![b].qr = outcome, ![b].sheen = tab[b].first]
    /\ played' = [played EXCEPT ![tab[b].ticket] =
                     @ + IF tab[b].first /\ ~tab[b].sheen THEN 1 ELSE 0]
    /\ UNCHANGED <<stage, link, rotation, storage, seen, lookups, mailVars>>

Glance(b) ==
    /\ Open(b) /\ tab' = [tab EXCEPT ![b].visible = ~@]
    /\ UNCHANGED <<stage, link, rotation, storage, seen, played, lookups, mailVars>>

Watching(b) == /\ Open(b) /\ shouldWatchForTicket(tab[b].shows)
               /\ tab[b].spent <= WatchLimit

\* Only a visible tab spends its looks; the one past the limit stops the clock.
Tick(b) ==
    /\ Watching(b) /\ tab[b].visible /\ ~tab[b].asking
    /\ tab' = [tab EXCEPT ![b].spent = @ + 1,
                          ![b].asking = tab[b].spent < WatchLimit]
    /\ UNCHANGED <<stage, link, rotation, storage, seen, played, lookups, mailVars>>

Unmounted(b, why) ==
    tab' = [tab EXCEPT ![b].shows = why, ![b].asking = FALSE,
                       ![b].qr = "none", ![b].sheen = FALSE, ![b].first = FALSE]

\* The refreshed props meet the mounted view: its refs keep what they hold, so
\* a symbol that appears now has the reveal behind it.
Rerender(b) ==
    tab' = [tab EXCEPT ![b].shows = stage[tab[b].ticket], ![b].asking = FALSE,
                       ![b].qr = IF shouldShowTicketQr(stage[tab[b].ticket], MayReveal(b))
                                 THEN IF @ = "none" THEN "loading" ELSE @
                                 ELSE "none"]

Refreshed(b) ==
    /\ Open(b) /\ tab[b].asking
    /\ \/ /\ tab[b].route = "link"
          /\ IF getOrderByToken(tab[b].ticket, tab[b].version)
             THEN Rerender(b) ELSE Unmounted(b, "not found")
          /\ UNCHANGED lookups
       \/ /\ tab[b].route = "code"
          /\ IF Allowed(lookups, LookupLimit)
             THEN Rerender(b) ELSE Unmounted(b, "too many")
          /\ lookups' = Counted(lookups, LookupLimit)
    /\ UNCHANGED <<stage, link, rotation, storage, seen, played, mailVars>>

RefreshLost(b) ==
    /\ Open(b) /\ tab[b].asking /\ tab' = [tab EXCEPT ![b].asking = FALSE]
    /\ UNCHANGED <<stage, link, rotation, storage, seen, played, lookups, mailVars>>

-----------------------------------------------------------------------------
(* "Email me my ticket link", by someone who holds a code or guesses one.  *)

\* The reply is the same sentence whether a mail went out or not; only an
\* address that asks too often is told so, before anything is looked up.
resendTicketLinkAction(ip, code) ==
    LET heard == Allowed(ipAsked[ip], IpMails)
        found == heard /\ Allowed(codeAsked[code], OrderMails)
                       /\ code \in Tickets /\ stage[code] = "issued"
    IN  /\ ipAsked' = [ipAsked EXCEPT ![ip] = Counted(@, IpMails)]
        /\ codeAsked' = IF heard
                        THEN [codeAsked EXCEPT ![code] = Counted(@, OrderMails)]
                        ELSE codeAsked
        /\ mailed' = [mailed EXCEPT ![code] = @ + IF found THEN 1 ELSE 0]
        /\ UNCHANGED pageVars

IpWindowEnds(ip) ==
    /\ ipAsked[ip] > 0 /\ ipAsked' = [ipAsked EXCEPT ![ip] = 0]
    /\ UNCHANGED <<codeAsked, mailed, pageVars>>

CodeWindowEnds(code) ==
    /\ codeAsked[code] > 0
    /\ codeAsked' = [codeAsked EXCEPT ![code] = 0]
    /\ mailed' = [mailed EXCEPT ![code] = 0]
    /\ UNCHANGED <<ipAsked, pageVars>>

-----------------------------------------------------------------------------
TabNext(b) ==
    \/ \E t \in Tickets : OpenCode(b, t) \/ postRegisterPath(b, t)
    \/ \E t \in Tickets, v \in 0..MaxVersion : OpenLink(b, t, v)
    \/ Draw(b) \/ Glance(b) \/ Tick(b) \/ Refreshed(b) \/ RefreshLost(b)

LinkNext ==
    \/ \E t \in Tickets : RowMoves(t) \/ revokeOrderMagicLink(t)
                          \/ \E q \in Rotators : BeginRotation(q, t)
    \/ \E q \in Rotators : rotateOrderMagicLink(q)
    \/ AnotherLookup \/ LookupWindowEnds

PageNext == LinkNext \/ \E b \in Tabs : TabNext(b)

MailNext ==
    \/ \E ip \in Ips, code \in Codes : resendTicketLinkAction(ip, code)
    \/ \E ip \in Ips : IpWindowEnds(ip)
    \/ \E code \in Codes : CodeWindowEnds(code)

TicketNext == PageNext \/ MailNext

\* A visible tab's timer fires, the server answers, the symbol is drawn.
TicketFairness ==
    \A b \in Tabs : /\ WF_ticketVars(Tick(b))
                    /\ WF_ticketVars(Refreshed(b))
                    /\ WF_ticketVars(Draw(b))

TicketSpec == TicketInit /\ [][TicketNext]_ticketVars /\ TicketFairness

-----------------------------------------------------------------------------
(* The properties.                                                         *)

TypeOK_Ticket ==
    /\ \A b \in Tabs : tab[b] = NoTab \/
          /\ tab[b].route \in {"link", "code"} /\ tab[b].ticket \in Tickets
          /\ tab[b].shows \in Registered!State \cup Refusal
          /\ tab[b].spent \in 0..(WatchLimit + 1)
    /\ seen \subseteq Tickets /\ lookups \in 0..(LookupLimit + 1)
    /\ \A t \in Tickets : {link[t].version, link[t].minted} \subseteq 0..MaxVersion

\* The reveal plays once per order in a browser whose memory works, and never
\* where it does not, however many tabs open the ticket, drawn or not.
RevealOnce ==
    \A t \in Tickets : played[t] <= IF storage = "works" THEN 1 ELSE 0

\* A symbol is on screen only behind a link, on a page that says "registered".
SymbolBehindLink ==
    \A b \in Tabs : Open(b) /\ tab[b].qr # "none" =>
        tab[b].route = "link" /\ tab[b].shows = "issued"

\* However many addresses ask, an order's holder gets OrderMails mails a window.
MailsAreCapped == \A c \in Codes : mailed[c] <= OrderMails

TicketInv == TypeOK_Ticket /\ RevealOnce /\ SymbolBehindLink /\ MailsAreCapped

\* A link no newer than the row's that does not open, while whatever rotation is
\* under way is making a newer one.
ShutForGood(t, v) ==
    /\ v <= link[t].version /\ ~getOrderByToken(t, v)
    /\ \A q \in Rotators : rotation[q].of = t => v < rotation[q].to

\* A link that was revoked or replaced never opens again, however many rotations,
\* overlapping or not, and revocations follow: only a rotation that had read the
\* row before that version was shut can bring it back, and only while it runs.
LinksStayShut ==
    [][\A t \in Tickets, v \in 0..MaxVersion :
          ShutForGood(t, v) => ShutForGood(t, v)']_ticketVars

LinkOpens(b) == getOrderByToken(tab[b].ticket, tab[b].version)

\* A visible page that waits behind a working link shows the ticket's symbol, or
\* its code as text, once the ticket is out: whether it waited for the organiser,
\* for the payment or for one after the other, and whatever refreshes were lost,
\* unless it has spent its looks first.
TicketArrives ==
    \A b \in Tabs : \A t \in Tickets :
        (/\ Open(b) /\ tab[b].route = "link" /\ tab[b].ticket = t
         /\ tab[b].shows \in {"pending_approval", "pending_payment"}
         /\ stage[t] = "issued")
        ~> (\/ tab[b].qr \in {"ready", "error"}
            \/ ~tab[b].visible \/ tab[b].spent > WatchLimit
            \/ tab[b].route = "code" \/ tab[b].ticket # t
            \/ ~LinkOpens(b) \/ tab[b].shows = "not found" \/ stage[t] = "canceled")
=============================================================================
