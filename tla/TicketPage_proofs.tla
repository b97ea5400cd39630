-------------------------- MODULE TicketPage_proofs --------------------------
(***************************************************************************)
(* Proofs about TicketPage, for any number of orders, tabs and addresses,   *)
(* whatever limits are chosen and whatever localStorage does; and about     *)
(* ContactCard, for every text an attendee may type.                        *)
(***************************************************************************)
EXTENDS MCTicket, TLAPS, WellFoundedInduction

-----------------------------------------------------------------------------
(* The links.                                                              *)

LinkType == link \in [Tickets -> [version : 0..MaxVersion, revoked : BOOLEAN,
                                 minted : 0..MaxVersion]]

\* A rotation under way is that of an order, to a version that may be written.
RotationType ==
    rotation \in [Rotators -> {NoRotation} \cup [of : Tickets, to : 0..MaxVersion]]

LinkInv == LinkType /\ RotationType

LEMMA LinkInit == TicketInit => LinkInv
  BY LimitsAssumption DEF TicketInit, LinkInv, LinkType, RotationType

\* What a step may do to the links: nothing, begin a rotation, revoke a link, or
\* end a rotation that had begun, its version written or not.
Revokes(t) ==
    link' = [link EXCEPT ![t].revoked = TRUE] /\ UNCHANGED rotation
Begins(q, t) ==
    /\ link[t].version + 1 <= MaxVersion
    /\ rotation' = [rotation EXCEPT ![q] = [of |-> t, to |-> link[t].version + 1]]
    /\ UNCHANGED link
RowTakes(t, v) ==
    link' = [link EXCEPT ![t] = [version |-> v, revoked |-> FALSE,
                                 minted |-> Later(link[t].minted, v)]]
Ends(q) ==
    /\ rotation[q] # NoRotation
    /\ rotation' = [rotation EXCEPT ![q] = NoRotation]
    /\ link' = link \/ RowTakes(rotation[q].of, rotation[q].to)

LEMMA LinkSteps ==
    ASSUME [TicketNext]_ticketVars
    PROVE  \/ UNCHANGED <<link, rotation>>
           \/ \E t \in Tickets : Revokes(t)
           \/ \E q \in Rotators, t \in Tickets : Begins(q, t)
           \/ \E q \in Rotators : Ends(q)
  <1>1. CASE UNCHANGED ticketVars
    BY <1>1 DEF ticketVars
  <1>2. CASE MailNext
    BY <1>2 DEF MailNext, resendTicketLinkAction, IpWindowEnds, CodeWindowEnds, pageVars
  <1>3. ASSUME NEW q \in Rotators, rotateOrderMagicLink(q)
        PROVE  Ends(q)
    BY <1>3 DEF rotateOrderMagicLink, Ends, RowTakes
  <1>4. CASE LinkNext
    BY <1>3, <1>4 DEF LinkNext, RowMoves, revokeOrderMagicLink, BeginRotation, NextVersion,
                      AnotherLookup, LookupWindowEnds, Revokes, Begins
  <1>5. CASE \E b \in Tabs : TabNext(b)
    BY <1>5 DEF TabNext, OpenCode, OpenLink, postRegisterPath, Draw, Glance, Tick,
                Refreshed, RefreshLost
  <1>. QED
    BY <1>1, <1>2, <1>4, <1>5 DEF TicketNext, PageNext

\* A rotation that ends with its version written leaves the row at that version.
LEMMA EndsAre ==
    ASSUME LinkInv, NEW q \in Rotators, Ends(q)
    PROVE  /\ rotation[q].of \in Tickets /\ rotation[q].to \in 0..MaxVersion
           /\ LinkInv'
           /\ \A p \in Rotators : rotation'[p] = rotation[p] \/ rotation'[p] = NoRotation
           /\ link' = link \/
                 /\ link'[rotation[q].of].version = rotation[q].to
                 /\ ~link'[rotation[q].of].revoked
                 /\ \A t \in Tickets \ {rotation[q].of} : link'[t] = link[t]
  <1> DEFINE s == rotation[q].of
             n == rotation[q].to
  <1>1. /\ s \in Tickets /\ n \in 0..MaxVersion
    BY DEF LinkInv, RotationType, Ends
  <1>2. /\ RotationType'
        /\ \A p \in Rotators : rotation'[p] = rotation[p] \/ rotation'[p] = NoRotation
    BY DEF LinkInv, RotationType, Ends
  <1>3. link' = link \/ RowTakes(s, n)
    BY DEF Ends
  <1> HIDE DEF s, n
  <1>4. ASSUME RowTakes(s, n)
        PROVE  /\ LinkType' /\ link'[s].version = n /\ ~link'[s].revoked
               /\ \A t \in Tickets \ {s} : link'[t] = link[t]
    <2>1. link[s].minted \in 0..MaxVersion
      BY <1>1 DEF LinkInv, LinkType
    <2>2. Later(link[s].minted, n) \in 0..MaxVersion
      BY <1>1, <2>1 DEF Later
    <2>. QED
      BY <1>1, <1>4, <2>2 DEF RowTakes, LinkInv, LinkType
  <1>5. LinkType'
    BY <1>3, <1>4 DEF LinkInv, LinkType
  <1>. QED
    BY <1>1, <1>2, <1>3, <1>4, <1>5 DEF LinkInv, s, n

LEMMA LinkStep ==
    ASSUME LinkInv, [TicketNext]_ticketVars
    PROVE  LinkInv'
  <1>1. CASE UNCHANGED <<link, rotation>>
    BY <1>1 DEF LinkInv, LinkType, RotationType
  <1>2. ASSUME NEW t \in Tickets, Revokes(t)
        PROVE  LinkInv'
    BY <1>2 DEF Revokes, LinkInv, LinkType, RotationType
  <1>3. ASSUME NEW q \in Rotators, NEW t \in Tickets, Begins(q, t)
        PROVE  LinkInv'
    <2>1. link[t].version + 1 \in 0..MaxVersion
      BY <1>3, LimitsAssumption DEF LinkInv, LinkType, Begins
    <2>. QED
      BY <1>3, <2>1 DEF Begins, LinkInv, LinkType, RotationType
  <1>4. ASSUME NEW q \in Rotators, Ends(q)
        PROVE  LinkInv'
    BY <1>4, EndsAre
  <1>. QED
    BY <1>1, <1>2, <1>3, <1>4, LinkSteps

\* No rotation that begins once a link is shut for good makes one that old, so
\* none that ends writes it.
LEMMA StaysShutForGood ==
    ASSUME LinkInv, [TicketNext]_ticketVars, NEW t \in Tickets, NEW v \in 0..MaxVersion,
           ShutForGood(t, v)
    PROVE  ShutForGood(t, v)'
  <1>1. v \in Int /\ link[t].version \in Int /\ v <= link[t].version
    BY LimitsAssumption DEF LinkInv, LinkType, ShutForGood
  <1>2. CASE UNCHANGED <<link, rotation>>
    BY <1>2 DEF ShutForGood, getOrderByToken
  <1>3. ASSUME NEW s \in Tickets, Revokes(s)
        PROVE  ShutForGood(t, v)'
    BY <1>3 DEF Revokes, ShutForGood, getOrderByToken, LinkInv, LinkType
  <1>4. ASSUME NEW q \in Rotators, NEW s \in Tickets, Begins(q, s)
        PROVE  ShutForGood(t, v)'
    <2>1. /\ rotation'[q].of = s /\ rotation'[q].to = link[s].version + 1
          /\ \A p \in Rotators \ {q} : rotation'[p] = rotation[p]
      BY <1>4 DEF Begins, LinkInv, RotationType
    <2>2. v < link[t].version + 1
      BY <1>1
    <2>3. \A p \in Rotators : rotation'[p].of = t => v < rotation'[p].to
      BY <2>1, <2>2 DEF ShutForGood
    <2>. QED
      BY <1>4, <2>3 DEF Begins, ShutForGood, getOrderByToken
  <1>5. ASSUME NEW q \in Rotators, Ends(q)
        PROVE  ShutForGood(t, v)'
    <2>1. \A p \in Rotators : rotation'[p].of = t => v < rotation'[p].to
      BY <1>5, EndsAre, GuessAssumption DEF NoRotation, ShutForGood
    <2>2. CASE link' = link
      BY <2>1, <2>2 DEF ShutForGood, getOrderByToken
    <2>3. CASE link' # link /\ rotation[q].of = t
      <3>1. /\ link'[t].version = rotation[q].to /\ v < rotation[q].to
            /\ rotation[q].to \in Int
        BY <1>5, <2>3, EndsAre DEF ShutForGood
      <3>2. v <= link'[t].version /\ link'[t].version # v
        BY <1>1, <3>1
      <3>. QED
        BY <2>1, <3>2 DEF ShutForGood, getOrderByToken
    <2>4. CASE link' # link /\ rotation[q].of # t
      <3>1. link'[t] = link[t]
        BY <1>5, <2>4, EndsAre
      <3>. QED
        BY <2>1, <3>1 DEF ShutForGood, getOrderByToken
    <2>. QED
      BY <2>2, <2>3, <2>4
  <1>. QED
    BY <1>2, <1>3, <1>4, <1>5, LinkSteps

\* However many rotations overlap, and wherever revocations fall between them: a
\* link that is shut, while each rotation under way is making a newer one, is shut
\* for good.  (Only a rotation that had read the row before the link was shut can
\* open it again: revokeOrderMagicLink and rotateOrderMagicLink in
\* registration/access.ts take no lock.)
THEOREM DeadLinksStayDead == TicketSpec => LinksStayShut
  <1>1. LinkInv /\ [TicketNext]_ticketVars =>
            [\A t \in Tickets, v \in 0..MaxVersion :
                ShutForGood(t, v) => ShutForGood(t, v)']_ticketVars
    BY StaysShutForGood
  <1>. QED
    BY LinkInit, LinkStep, <1>1, PTL DEF TicketSpec, LinksStayShut

\* The same over all the steps that follow: it never opens again.
THEOREM NeverOpensAgain ==
    ASSUME NEW t \in Tickets, NEW v \in 0..MaxVersion
    PROVE  TicketSpec => [](ShutForGood(t, v) => []~getOrderByToken(t, v))
  <1>1. LinkInv /\ ShutForGood(t, v) /\ [TicketNext]_ticketVars => ShutForGood(t, v)'
    BY StaysShutForGood
  <1>2. ShutForGood(t, v) => ~getOrderByToken(t, v)
    BY DEF ShutForGood
  <1>3. ShutForGood(t, v) /\ UNCHANGED ticketVars => ShutForGood(t, v)'
    BY DEF ShutForGood, getOrderByToken, ticketVars
  <1>. QED
    BY LinkInit, LinkStep, <1>1, <1>2, <1>3, PTL DEF TicketSpec

-----------------------------------------------------------------------------
(* The pages.                                                              *)

Shown == Registered!State \cup Refusal
TabType ==
    [route : {"none", "link", "code"}, ticket : Codes, version : Nat,
     shows : Shown \cup {"nothing"}, visible : BOOLEAN, spent : 0..(WatchLimit + 1),
     asking : BOOLEAN, first : BOOLEAN,
     qr : {"none", "loading", "ready", "error"}, sheen : BOOLEAN]

\* Tabs that show something show a pg of an order.
TabsOK ==
    /\ tab \in [Tabs -> TabType]
    /\ \A b \in Tabs : Open(b) =>
          tab[b].route \in {"link", "code"} /\ tab[b].ticket \in Tickets
                                            /\ tab[b].shows \in Shown
    /\ stage \in [Tickets -> Registered!State]
    /\ lookups \in 0..(LookupLimit + 1)

\* The one tab that claimed an order's first view may play its reveal, and has
\* not played it as long as it has not swept.
RevealInv ==
    /\ played \in [Tickets -> Nat] /\ seen \subseteq Tickets
    /\ storage # "works" => /\ \A b \in Tabs : ~tab[b].first
                            /\ \A t \in Tickets : played[t] = 0
    /\ \A t \in Tickets : t \notin seen =>
          played[t] = 0 /\ \A b \in Tabs : tab[b].ticket = t => ~tab[b].first
    /\ \A b, c \in Tabs : b # c /\ tab[b].ticket = tab[c].ticket =>
          ~tab[b].first \/ ~tab[c].first
    /\ \A b \in Tabs : tab[b].first /\ ~tab[b].sheen => played[tab[b].ticket] = 0
    /\ \A t \in Tickets : played[t] <= 1

PagesOK == TabsOK /\ SymbolBehindLink /\ RevealInv

LEMMA PagesInit == TicketInit => PagesOK
  BY LimitsAssumption
  DEF TicketInit, PagesOK, TabsOK, SymbolBehindLink, RevealInv, TabType, Shown,
      NoTab, Codes, Open, Registered!ViewInit, Registered!State

\* A tab that has just been opened.
LEMMA NewTabIs ==
    ASSUME NEW route \in {"link", "code"}, NEW t \in Tickets, NEW v \in Nat
    PROVE  /\ NewTab(route, t, v) \in TabType
           /\ NewTab(route, t, v).route = route /\ NewTab(route, t, v).ticket = t
           /\ ~NewTab(route, t, v).first /\ NewTab(route, t, v).qr = "none"
  <1>1. NoTab \in TabType
    BY LimitsAssumption DEF NoTab, TabType, Codes
  <1>2. t \in Codes
    BY DEF Codes
  <1>3. ~NoTab.first /\ NoTab.qr = "none"
    BY DEF NoTab
  <1>4. QED
    BY <1>1, <1>2, <1>3 DEF NewTab, TabType

\* What it shows once the view has mounted.
LEMMA MountedIs ==
    ASSUME NEW new \in TabType, NEW s \in Shown, NEW qr \in BOOLEAN, NEW first \in BOOLEAN
    PROVE  LET n == Mounted(new, s, qr, first)
           IN  /\ n \in TabType
               /\ n.route = new.route /\ n.ticket = new.ticket /\ n.shows = s
               /\ n.first = first /\ (n.sheen <=> first /\ ~qr)
               /\ (n.qr # "none" => qr)
  BY DEF TabType, Mounted

\* A tab changes without claiming a first view and without playing anything.
Quietly(b) ==
    /\ \E new \in TabType :
          /\ tab' = [tab EXCEPT ![b] = new]
          /\ new.first => /\ tab[b].first /\ new.ticket = tab[b].ticket
                          /\ new.sheen = tab[b].sheen
          /\ new # NoTab => /\ new.route \in {"link", "code"}
                            /\ new.ticket \in Tickets /\ new.shows \in Shown
          /\ new.qr # "none" => new.route = "link" /\ new.shows = "issued"
    /\ lookups' \in 0..(LookupLimit + 1)
    /\ UNCHANGED <<stage, seen, played, storage>>

LEMMA QuietlyStep ==
    ASSUME PagesOK, NEW b \in Tabs, Quietly(b)
    PROVE  PagesOK'
  <1>1. PICK new \in TabType : /\ tab' = [tab EXCEPT ![b] = new]
                               /\ new.first => /\ tab[b].first /\ new.ticket = tab[b].ticket
                                               /\ new.sheen = tab[b].sheen
                               /\ new # NoTab => /\ new.route \in {"link", "code"}
                                                 /\ new.ticket \in Tickets
                                                 /\ new.shows \in Shown
                               /\ new.qr # "none" =>
                                     new.route = "link" /\ new.shows = "issued"
    BY DEF Quietly
  <1>2. TabsOK' /\ SymbolBehindLink'
    BY <1>1 DEF PagesOK, TabsOK, SymbolBehindLink, Open, Quietly
  <1>3. RevealInv'
    BY <1>1 DEF PagesOK, TabsOK, RevealInv, Quietly
  <1>4. QED
    BY <1>2, <1>3 DEF PagesOK

\* Counting never passes the limit by more than one.
LEMMA CountedBound ==
    ASSUME lookups \in 0..(LookupLimit + 1)
    PROVE  Counted(lookups, LookupLimit) \in 0..(LookupLimit + 1)
  BY LimitsAssumption DEF Counted

LEMMA MountStep ==
    ASSUME PagesOK, NEW b \in Tabs, NEW new \in TabType, new.ticket \in Tickets,
           new.route \in {"link", "code"}, Mount(b, new),
           lookups' \in 0..(LookupLimit + 1), UNCHANGED <<stage, storage>>
    PROVE  PagesOK'
  <1> DEFINE t == new.ticket
             qr == shouldShowTicketQr(stage[t], new.route = "link")
             first == claimFirstView(t)
             n == Mounted(new, stage[t], qr, first)
  <1>1. /\ tab' = [tab EXCEPT ![b] = n]
        /\ seen' = IF storage = "works" THEN seen \cup {t} ELSE seen
        /\ played' = [played EXCEPT ![t] = @ + IF first /\ ~qr THEN 1 ELSE 0]
    BY DEF Mount
  <1>2. /\ qr \in BOOLEAN /\ (qr => new.route = "link" /\ stage[t] = "issued")
    BY DEF shouldShowTicketQr
  <1>3. first \in BOOLEAN /\ (first <=> storage = "works" /\ t \notin seen)
    BY DEF claimFirstView
  <1>4. stage[t] \in Shown
    BY DEF Shown, PagesOK, TabsOK
  <1>5. /\ n \in TabType /\ n.ticket = t /\ n.route = new.route /\ n.shows = stage[t]
        /\ n.first = first /\ (n.sheen <=> first /\ ~qr) /\ (n.qr # "none" => qr)
    <2> HIDE DEF first, qr
    <2>1. QED
      BY <1>2, <1>3, <1>4, MountedIs
  <1> HIDE DEF n, qr, first, t
  <1>6. t \in Tickets
    BY DEF t
  <1>7. TabsOK' /\ SymbolBehindLink'
    BY <1>1, <1>2, <1>4, <1>5, <1>6 DEF PagesOK, TabsOK, SymbolBehindLink, Open
  <1>8. RevealInv'
    BY <1>1, <1>2, <1>3, <1>4, <1>5, <1>6 DEF PagesOK, TabsOK, RevealInv
  <1>9. QED
    BY <1>7, <1>8 DEF PagesOK
\* A refusal shows no symbol and plays nothing.
LEMMA RefuseStep ==
    ASSUME PagesOK, NEW b \in Tabs, NEW new \in TabType, NEW why \in Refusal,
           new.ticket \in Tickets, new.route \in {"link", "code"},
           ~new.first, new.qr = "none", Refuse(b, new, why),
           lookups' \in 0..(LookupLimit + 1), UNCHANGED <<stage, storage>>
    PROVE  PagesOK'
  <1> DEFINE n == [new EXCEPT !.shows = why]
  <1>1. why \in Shown
    BY DEF Shown
  <1>2. /\ n \in TabType /\ ~n.first /\ n.qr = "none" /\ n.shows = why
        /\ n.route = new.route /\ n.ticket = new.ticket
    BY <1>1 DEF TabType
  <1>3. tab' = [tab EXCEPT ![b] = n] /\ UNCHANGED <<seen, played>>
    BY DEF Refuse
  <1> HIDE DEF n
  <1>4. Quietly(b)
    BY <1>1, <1>2, <1>3 DEF Quietly
  <1>5. QED
    BY <1>4, QuietlyStep

\* The symbol is drawn: the reveal behind it plays if it has not played before.
LEMMA DrawStep ==
    ASSUME PagesOK, NEW b \in Tabs, Draw(b)
    PROVE  PagesOK'
  <1> DEFINE t == tab[b].ticket
  <1>1. PICK outcome \in {"ready", "error"} :
           tab' = [tab EXCEPT ![b].qr = outcome, ![b].sheen = tab[b].first]
    BY DEF Draw
  <1> DEFINE n == [tab[b] EXCEPT !.qr = outcome, !.sheen = tab[b].first]
  <1>2. /\ t \in Tickets /\ tab[b].route = "link" /\ tab[b].shows = "issued"
        /\ tab[b].shows \in Shown /\ tab[b] \in TabType
    BY DEF Draw, PagesOK, TabsOK, SymbolBehindLink
  <1>3. tab[b].first \in BOOLEAN
    BY <1>2 DEF TabType
  <1>4. /\ n \in TabType /\ n.ticket = t /\ n.route = "link" /\ n.shows = "issued"
        /\ n.first = tab[b].first /\ n.sheen = tab[b].first /\ n.qr = outcome
    BY <1>2, <1>3 DEF TabType
  <1>5. tab' = [tab EXCEPT ![b] = n]
    BY <1>1
  <1>6. /\ played' = [played EXCEPT ![t] = @ + IF tab[b].first /\ ~tab[b].sheen THEN 1 ELSE 0]
        /\ UNCHANGED <<stage, storage, seen, lookups>>
    BY DEF Draw
  <1> HIDE DEF n, t
  <1>7. TabsOK' /\ SymbolBehindLink'
    BY <1>2, <1>4, <1>5, <1>6 DEF PagesOK, TabsOK, SymbolBehindLink, Open
  <1>8. t = tab[b].ticket
    BY DEF t
  <1>9. RevealInv'
    BY <1>2, <1>3, <1>4, <1>5, <1>6, <1>8 DEF PagesOK, TabsOK, RevealInv
  <1>10. QED
    BY <1>7, <1>9 DEF PagesOK

\* What a pg does between its mount and its end.
LEMMA PageMoves ==
    ASSUME PagesOK, NEW b \in Tabs, Glance(b) \/ Tick(b) \/ RefreshLost(b)
    PROVE  PagesOK'
  <1> DEFINE pg == tab[b]
  <1>1. /\ pg \in TabType /\ pg.ticket \in Tickets /\ pg.shows \in Shown
        /\ pg.route \in {"link", "code"}
        /\ (pg.qr # "none" => pg.route = "link" /\ pg.shows = "issued")
    BY DEF PagesOK, TabsOK, SymbolBehindLink, Glance, Tick, RefreshLost, Watching, Open
  <1>2. lookups' \in 0..(LookupLimit + 1) /\ UNCHANGED <<stage, seen, played, storage>>
    BY DEF PagesOK, TabsOK, Glance, Tick, RefreshLost
  <1>3. CASE Glance(b)
    <2> DEFINE n == [pg EXCEPT !.visible = ~@]
    <2>1. /\ n \in TabType /\ n.first = pg.first /\ n.ticket = pg.ticket
          /\ n.sheen = pg.sheen /\ n.route = pg.route /\ n.shows = pg.shows
          /\ n.qr = pg.qr
      BY <1>1 DEF TabType
    <2>2. tab' = [tab EXCEPT ![b] = n]
      BY <1>3 DEF Glance
    <2> HIDE DEF n
    <2>3. Quietly(b)
      BY <1>1, <1>2, <2>1, <2>2 DEF Quietly
    <2>4. QED
      BY <2>3, QuietlyStep
  <1>4. CASE Tick(b)
    <2> DEFINE n == [pg EXCEPT !.spent = @ + 1, !.asking = pg.spent < WatchLimit]
    <2>1. pg.spent + 1 \in 0..(WatchLimit + 1) /\ (pg.spent < WatchLimit) \in BOOLEAN
      BY <1>1, <1>4, LimitsAssumption DEF Tick, Watching, TabType
    <2>2. /\ n \in TabType /\ n.first = pg.first /\ n.ticket = pg.ticket
          /\ n.sheen = pg.sheen /\ n.route = pg.route /\ n.shows = pg.shows
          /\ n.qr = pg.qr
      BY <1>1, <2>1 DEF TabType
    <2>3. tab' = [tab EXCEPT ![b] = n]
      BY <1>4 DEF Tick
    <2> HIDE DEF n
    <2>4. Quietly(b)
      BY <1>1, <1>2, <2>2, <2>3 DEF Quietly
    <2>5. QED
      BY <2>4, QuietlyStep
  <1>5. CASE RefreshLost(b)
    <2> DEFINE n == [pg EXCEPT !.asking = FALSE]
    <2>1. /\ n \in TabType /\ n.first = pg.first /\ n.ticket = pg.ticket
          /\ n.sheen = pg.sheen /\ n.route = pg.route /\ n.shows = pg.shows
          /\ n.qr = pg.qr
      BY <1>1 DEF TabType
    <2>2. tab' = [tab EXCEPT ![b] = n]
      BY <1>5 DEF RefreshLost
    <2> HIDE DEF n
    <2>3. Quietly(b)
      BY <1>1, <1>2, <2>1, <2>2 DEF Quietly
    <2>4. QED
      BY <2>3, QuietlyStep
  <1>6. QED
    BY <1>3, <1>4, <1>5
\* The answer to a refresh keeps what the mounted view has already played.
LEMMA RefreshedStep ==
    ASSUME PagesOK, NEW b \in Tabs, Refreshed(b)
    PROVE  PagesOK'
  <1> DEFINE pg == tab[b]
             s    == stage[pg.ticket]
             qr   == IF shouldShowTicketQr(s, MayReveal(b))
                     THEN IF pg.qr = "none" THEN "loading" ELSE pg.qr ELSE "none"
  <1>1. /\ pg \in TabType /\ pg.ticket \in Tickets /\ pg.shows \in Shown
        /\ pg.route \in {"link", "code"}
    BY DEF PagesOK, TabsOK, Refreshed, Open
  <1>2. lookups' \in 0..(LookupLimit + 1) /\ UNCHANGED <<stage, seen, played, storage>>
    BY CountedBound DEF PagesOK, TabsOK, Refreshed
  <1>3. CASE Rerender(b)
    <2> DEFINE n == [pg EXCEPT !.shows = s, !.asking = FALSE, !.qr = qr]
    <2>1. s \in Shown
      BY <1>1 DEF PagesOK, TabsOK, Shown
    <2>2. qr \in {"none", "loading", "ready", "error"}
      BY <1>1 DEF TabType
    <2>3. qr # "none" => pg.route = "link" /\ s = "issued"
      BY DEF shouldShowTicketQr, MayReveal
    <2>4. tab' = [tab EXCEPT ![b] = n]
      BY <1>3 DEF Rerender
    <2> HIDE DEF s, qr
    <2>5. /\ n \in TabType /\ n.first = pg.first /\ n.ticket = pg.ticket
          /\ n.sheen = pg.sheen /\ n.route = pg.route /\ n.shows = s /\ n.qr = qr
      BY <1>1, <2>1, <2>2 DEF TabType
    <2> HIDE DEF n
    <2>6. Quietly(b)
      BY <1>1, <1>2, <2>1, <2>3, <2>4, <2>5 DEF Quietly
    <2>7. QED
      BY <2>6, QuietlyStep
  <1>4. ASSUME NEW why \in Refusal, Unmounted(b, why)
        PROVE  PagesOK'
    <2> DEFINE n == [pg EXCEPT !.shows = why, !.asking = FALSE,
                                 !.qr = "none", !.sheen = FALSE, !.first = FALSE]
    <2>1. why \in Shown
      BY DEF Shown
    <2>2. /\ n \in TabType /\ ~n.first /\ n.ticket = pg.ticket
          /\ n.route = pg.route /\ n.shows = why /\ n.qr = "none"
      BY <1>1, <2>1 DEF TabType
    <2>3. tab' = [tab EXCEPT ![b] = n]
      BY <1>4 DEF Unmounted
    <2> HIDE DEF n
    <2>4. Quietly(b)
      BY <1>1, <1>2, <2>1, <2>2, <2>3 DEF Quietly
    <2>5. QED
      BY <2>4, QuietlyStep
  <1>5. QED
    BY <1>3, <1>4 DEF Refreshed, Refusal

\* A pg opened by a link or by a code, let in or refused.
LEMMA OpenStep ==
    ASSUME PagesOK, NEW b \in Tabs, NEW t \in Tickets,
           OpenCode(b, t) \/ \E v \in Nat : OpenLink(b, t, v)
    PROVE  PagesOK'
  <1>1. lookups' \in 0..(LookupLimit + 1) /\ UNCHANGED <<stage, storage>>
    BY CountedBound DEF PagesOK, TabsOK, OpenCode, OpenLink
  <1>2. ASSUME NEW route \in {"link", "code"}, NEW v \in Nat, NEW why \in Refusal,
               \/ Mount(b, NewTab(route, t, v))
               \/ Refuse(b, NewTab(route, t, v), why)
        PROVE  PagesOK'
    <2>1. /\ NewTab(route, t, v) \in TabType
          /\ NewTab(route, t, v).route = route /\ NewTab(route, t, v).ticket = t
          /\ ~NewTab(route, t, v).first /\ NewTab(route, t, v).qr = "none"
      BY NewTabIs
    <2> DEFINE new == NewTab(route, t, v)
    <2>2. /\ new \in TabType /\ new.route = route /\ new.ticket = t
          /\ ~new.first /\ new.qr = "none"
      BY <2>1
    <2> HIDE DEF new
    <2>3. CASE Mount(b, new)
      BY <1>1, <2>2, <2>3, MountStep
    <2>4. CASE Refuse(b, new, why)
      BY <1>1, <2>2, <2>4, RefuseStep
    <2>5. QED
      BY <1>2, <2>3, <2>4 DEF new
  <1>3. CASE OpenCode(b, t)
    BY <1>2, <1>3 DEF OpenCode, Refusal
  <1>4. CASE \E v \in Nat : OpenLink(b, t, v)
    BY <1>2, <1>4 DEF OpenLink, Refusal
  <1>5. QED
    BY <1>3, <1>4

\* Everything else leaves the pages and what the browser remembers alone.
LEMMA ElsewhereStep ==
    ASSUME PagesOK, UNCHANGED <<tab, seen, played, storage>>,
           stage' \in [Tickets -> Registered!State], lookups' \in 0..(LookupLimit + 1)
    PROVE  PagesOK'
  BY DEF PagesOK, TabsOK, SymbolBehindLink, RevealInv, Open

LEMMA PagesStep == PagesOK /\ LinkInv /\ [TicketNext]_ticketVars => PagesOK'
  <1> SUFFICES ASSUME PagesOK, LinkInv, [TicketNext]_ticketVars PROVE PagesOK'
    OBVIOUS
  <1>1. stage \in [Tickets -> Registered!State] /\ lookups \in 0..(LookupLimit + 1)
    BY DEF PagesOK, TabsOK
  <1>2. ASSUME NEW t \in Tickets, RowMoves(t)
        PROVE  PagesOK'
    <2>1. stage' \in [Tickets -> Registered!State]
      BY <1>1, <1>2
      DEF RowMoves, Registered!Move, Registered!Later, Registered!State
    <2>2. QED
      BY <1>1, <1>2, <2>1, ElsewhereStep DEF RowMoves
  <1>3. ASSUME NEW t \in Tickets, revokeOrderMagicLink(t) \/ \E q \in Rotators : BeginRotation(q, t)
        PROVE  PagesOK'
    BY <1>1, <1>3, ElsewhereStep DEF revokeOrderMagicLink, BeginRotation
  <1>4. CASE \E q \in Rotators : rotateOrderMagicLink(q)
    BY <1>1, <1>4, ElsewhereStep DEF rotateOrderMagicLink
  <1>5. CASE AnotherLookup \/ LookupWindowEnds
    BY <1>1, <1>5, ElsewhereStep, CountedBound, LimitsAssumption
    DEF AnotherLookup, LookupWindowEnds
  <1>6. ASSUME NEW b \in Tabs, TabNext(b)
        PROVE  PagesOK'
    <2>1. ASSUME NEW t \in Tickets, postRegisterPath(b, t)
          PROVE  PagesOK'
      <3>1. link[t].version \in Nat
        BY DEF LinkInv, LinkType
      <3>2. QED
        BY <2>1, <3>1, OpenStep DEF postRegisterPath
    <2>2. 0..MaxVersion \subseteq Nat
      BY LimitsAssumption
    <2>3. QED
      BY <1>6, <2>1, <2>2, OpenStep, DrawStep, PageMoves, RefreshedStep DEF TabNext
  <1>7. CASE MailNext
    BY <1>1, <1>7, ElsewhereStep
    DEF MailNext, resendTicketLinkAction, IpWindowEnds, CodeWindowEnds, pageVars
  <1>8. CASE UNCHANGED ticketVars
    BY <1>1, <1>8, ElsewhereStep DEF ticketVars
  <1>9. QED
    BY <1>2, <1>3, <1>4, <1>5, <1>6, <1>7, <1>8 DEF TicketNext, PageNext, LinkNext

\* An open pg shows the ticket's symbol only behind a mailed link and while it
\* says "registered"; the reveal of an order plays at most once in a browser that
\* remembers, and never in one that does not, whatever tabs are opened, reloaded,
\* refused or refreshed in any order (attendee-state-view.tsx, ticket-reveal-memory.ts).
THEOREM SymbolsAndReveals == TicketSpec => [](SymbolBehindLink /\ RevealOnce)
  <1>1. PagesOK => SymbolBehindLink /\ RevealOnce
    BY DEF PagesOK, RevealInv, RevealOnce
  <1>2. QED
    BY LinkInit, LinkStep, PagesInit, PagesStep, <1>1, PTL DEF TicketSpec

-----------------------------------------------------------------------------
(* The mails.                                                              *)

\* No mail leaves without its request being counted.
MailInv ==
    /\ ipAsked \in [Ips -> Nat]
    /\ codeAsked \in [Codes -> Nat] /\ mailed \in [Codes -> Nat]
    /\ \A c \in Codes : mailed[c] <= codeAsked[c] /\ mailed[c] <= OrderMails

LEMMA MailStep == MailInv /\ [TicketNext]_ticketVars => MailInv'
  <1> SUFFICES ASSUME MailInv, [TicketNext]_ticketVars PROVE MailInv'
    OBVIOUS
  <1>1. ASSUME NEW ip \in Ips, NEW c \in Codes, resendTicketLinkAction(ip, c)
        PROVE  MailInv'
    BY <1>1, LimitsAssumption DEF MailInv, resendTicketLinkAction, Counted, Allowed
  <1>2. ASSUME NEW ip \in Ips, IpWindowEnds(ip)
        PROVE  MailInv'
    BY <1>2 DEF MailInv, IpWindowEnds
  <1>3. ASSUME NEW c \in Codes, CodeWindowEnds(c)
        PROVE  MailInv'
    BY <1>3, LimitsAssumption DEF MailInv, CodeWindowEnds
  <1>4. ASSUME UNCHANGED mailVars
        PROVE  MailInv'
    BY <1>4 DEF MailInv, mailVars
  <1>5. CASE PageNext
    <2>1. UNCHANGED mailVars
      BY <1>5
      DEF PageNext, LinkNext, TabNext, RowMoves, revokeOrderMagicLink, BeginRotation,
          rotateOrderMagicLink, AnotherLookup, LookupWindowEnds, postRegisterPath,
          OpenCode, OpenLink, Draw, Glance, Tick, Refreshed, RefreshLost
    <2>2. QED
      BY <1>4, <2>1
  <1>6. CASE UNCHANGED ticketVars
    BY <1>4, <1>6 DEF ticketVars, mailVars
  <1>7. QED
    BY <1>1, <1>2, <1>3, <1>5, <1>6 DEF TicketNext, MailNext

\* However many addresses ask for an order's link in a window, its holder gets no
\* more than OrderMails mails (resendTicketLinkAction, ratelimit).
THEOREM HolderIsNotFlooded == TicketSpec => []MailsAreCapped
  <1>1. TicketInit => MailInv
    BY LimitsAssumption DEF TicketInit, MailInv
  <1>2. MailInv => MailsAreCapped
    BY DEF MailInv, MailsAreCapped
  <1>3. QED
    BY MailStep, <1>1, <1>2, PTL DEF TicketSpec

\* The runs' invariant: the pages, the symbols, the reveals and the mails.
THEOREM TicketIsSafe == TicketSpec => []TicketInv
  <1>1. PagesOK /\ LinkInv /\ MailInv => TicketInv
    BY LimitsAssumption
    DEF PagesOK, TabsOK, RevealInv, RevealOnce, LinkInv, LinkType, MailInv,
        MailsAreCapped, TicketInv, TypeOK_Ticket, TabType, Shown, Open
  <1>2. TicketInit => MailInv
    BY LimitsAssumption DEF TicketInit, MailInv
  <1>3. QED
    BY LinkInit, LinkStep, PagesInit, PagesStep, MailStep, <1>1, <1>2, PTL DEF TicketSpec

-----------------------------------------------------------------------------
(* The contact card.  What a function does to every text is proved along    *)
(* the text: a set of naturals that has 0 and every successor has them all. *)

LEMMA AllNaturals ==
    ASSUME NEW S, 0 \in S, \A n \in Nat : n \in S => n + 1 \in S
    PROVE  \A n \in Nat : n \in S
  <1> DEFINE R == OpToRel(<, Nat)
             T == Nat \ S
  <1> SUFFICES ASSUME T # {} PROVE FALSE
    OBVIOUS
  <1>1. IsWellFoundedOn(R, Nat)
    BY NatLessThanWellFounded
  <1>2. \A x, y \in Nat : x < y => <<x, y>> \in R
    BY DEF OpToRel
  <1> HIDE DEF R
  <1>3. PICK x \in T : \A y \in T : ~(<<y, x>> \in R)
    BY <1>1, WFMin
  <1>4. x \in Nat /\ x # 0 /\ x - 1 \in Nat /\ (x - 1) + 1 = x
    BY <1>3
  <1>5. x - 1 \in T
    BY <1>3, <1>4
  <1>6. <<x - 1, x>> \in R
    BY <1>2, <1>4
  <1>. QED
    BY <1>3, <1>5, <1>6

\* A function defined along 0..n from a base and a step.
Along(V, v, n, step) ==
    \E f \in [0..n -> V] : f[0] = v /\ \A i \in 1..n : f[i] = step[<<i, f[i - 1]>>]

LEMMA Recursion ==
    ASSUME NEW V, NEW v \in V, NEW n \in Nat,
           NEW step, \A i \in 1..n : \A x \in V : step[<<i, x>>] \in V
    PROVE  Along(V, v, n, step)
  <1> DEFINE Good(f, m) == /\ f \in [0..m -> V] /\ f[0] = v
                           /\ \A i \in 1..m : f[i] = step[<<i, f[i - 1]>>]
             S == {m \in Nat : m <= n => \E f : Good(f, m)}
  <1>1. 0 \in S
    <2>1. Good([i \in 0..0 |-> v], 0)
      OBVIOUS
    <2>. QED
      BY <2>1
  <1>2. ASSUME NEW m \in Nat, m \in S PROVE m + 1 \in S
    <2> SUFFICES ASSUME m + 1 <= n PROVE \E f : Good(f, m + 1)
      OBVIOUS
    <2>1. PICK f : Good(f, m)
      BY <1>2
    <2> DEFINE g == [i \in 0..m + 1 |-> IF i = m + 1 THEN step[<<m + 1, f[m]>>] ELSE f[i]]
    <2>2. f[m] \in V /\ m + 1 \in 1..n
      BY <2>1
    <2>3. step[<<m + 1, f[m]>>] \in V
      BY <2>2
    <2>4. g \in [0..m + 1 -> V] /\ g[0] = v /\ g[m + 1] = step[<<m + 1, f[m]>>]
          /\ \A i \in 0..m : g[i] = f[i]
      BY <2>1, <2>3
    <2> HIDE DEF g
    <2>5. ASSUME NEW i \in 1..m + 1 PROVE g[i] = step[<<i, g[i - 1]>>]
      <3>1. CASE i = m + 1
        BY <2>4, <3>1
      <3>2. CASE i # m + 1
        BY <2>1, <2>4, <3>2
      <3>. QED
        BY <3>1, <3>2
    <2>. QED
      BY <2>4, <2>5
  <1> HIDE DEF S
  <1>3. n \in S
    BY <1>1, <1>2, AllNaturals
  <1>. QED
    BY <1>3 DEF S, Along

LEMMA OneMore ==
    ASSUME NEW A, NEW s \in Seq(A), NEW c \in A
    PROVE  /\ Append(s, c) \in Seq(A) /\ Len(Append(s, c)) = Len(s) + 1
           /\ Append(s, c)[Len(s) + 1] = c
           /\ \A i \in 1..Len(s) : Append(s, c)[i] = s[i]
           /\ Append(s, c) # None /\ None \in Seq(A) /\ s \o <<c>> = Append(s, c)
  BY DEF None

LEMMA LastOff ==
    ASSUME NEW A, NEW s \in Seq(A), NEW n \in Nat, Len(s) = n + 1
    PROVE  \E t \in Seq(A) : \E c \in A : s = Append(t, c) /\ Len(t) = n
  <1> DEFINE t == SubSeq(s, 1, n)
  <1>1. t \in Seq(A) /\ Len(t) = n /\ s[n + 1] \in A /\ \A i \in 1..n : t[i] = s[i]
    OBVIOUS
  <1> HIDE DEF t
  <1>2. s = Append(t, s[n + 1])
    BY <1>1
  <1>. QED
    BY <1>1, <1>2

\* What holds of the empty text and survives one more character holds of every text.
LEMMA AllTexts ==
    ASSUME NEW A, NEW T, None \in T,
           \A s \in Seq(A) : \A c \in A : s \in T => Append(s, c) \in T
    PROVE  \A s \in Seq(A) : s \in T
  <1> DEFINE S == {n \in Nat : \A s \in Seq(A) : Len(s) = n => s \in T}
  <1>1. 0 \in S
    BY DEF None
  <1>2. ASSUME NEW n \in Nat, n \in S PROVE n + 1 \in S
    <2> SUFFICES ASSUME NEW s \in Seq(A), Len(s) = n + 1 PROVE s \in T
      OBVIOUS
    <2>1. PICK t \in Seq(A), c \in A : s = Append(t, c) /\ Len(t) = n
      BY LastOff
    <2>. QED
      BY <1>2, <2>1
  <1> HIDE DEF S
  <1>3. \A n \in Nat : n \in S
    BY <1>1, <1>2, AllNaturals
  <1>. QED
    BY <1>3 DEF S

LEMMA NothingBefore == ASSUME NEW A, NEW s \in Seq(A) PROVE None \o s = s /\ s \o None = s
  BY DEF None

LEMMA FlatIs ==
    ASSUME NEW A, NEW ss \in Seq(Seq(A))
    PROVE  \E f \in [0..Len(ss) -> Seq(A)] :
               /\ f[0] = None /\ \A i \in 1..Len(ss) : f[i] = f[i - 1] \o ss[i]
               /\ FlattenSeq(ss) = f[Len(ss)]
  <1> DEFINE n == Len(ss)
             step == [p \in (1..n) \X Seq(A) |-> p[2] \o ss[p[1]]]
             P(h) == h = [i \in 1..n |-> IF i = 1 THEN ss[i] ELSE h[i - 1] \o ss[i]]
  <1>1. n \in Nat /\ None \in Seq(A) /\ \A i \in 1..n : ss[i] \in Seq(A)
    BY DEF None
  <1>2. \A i \in 1..n : \A s \in Seq(A) : step[<<i, s>>] \in Seq(A)
    BY <1>1
  <1>3. \A i \in 1..n, s \in Seq(A) : step[<<i, s>>] = s \o ss[i]
    BY <1>1
  <1> HIDE DEF n, step
  <1>4. PICK f \in [0..n -> Seq(A)] : f[0] = None /\ \A i \in 1..n : f[i] = step[<<i, f[i - 1]>>]
    <2> DEFINE V == Seq(A)
    <2>1. n \in Nat /\ None \in V /\ \A i \in 1..n : \A x \in V : step[<<i, x>>] \in V
      BY <1>1, <1>2
    <2> HIDE DEF V
    <2>2. Along(V, None, n, step)
      BY <2>1, Recursion
    <2>. QED
      BY <2>2 DEF V, Along
  <1>5. ASSUME NEW i \in 1..n PROVE f[i] = f[i - 1] \o ss[i] /\ f[i - 1] \in Seq(A)
    <2>1. f[i - 1] \in Seq(A)
      BY <1>1, <1>4
    <2>. QED
      BY <1>3, <1>4, <2>1
  <1>6. CASE n = 0
    <2>1. FlattenSeq(ss) = None
      BY <1>6 DEF FlattenSeq, None, n
    <2>. QED
      BY <1>4, <1>5, <1>6, <2>1 DEF n
  <1>7. CASE n # 0
    <2>1. P([i \in 1..n |-> f[i]])
      <3>1. ASSUME NEW i \in 1..n
            PROVE  f[i] = IF i = 1 THEN ss[i] ELSE [k \in 1..n |-> f[k]][i - 1] \o ss[i]
        <4>1. CASE i = 1
          <5>0. 1 \in 1..n /\ 1 - 1 = 0
            BY <4>1
          <5>1. f[1] = f[0] \o ss[1] /\ ss[1] \in Seq(A)
            BY <1>1, <1>5, <5>0
          <5>. QED
            BY <1>4, <4>1, <5>1, NothingBefore
        <4>2. CASE i # 1
          <5>1. i - 1 \in 1..n
            BY <1>1, <4>2
          <5>2. [k \in 1..n |-> f[k]][i - 1] = f[i - 1]
            BY <5>1
          <5>. QED
            BY <1>5, <4>2, <5>2
        <4>. QED
          BY <4>1, <4>2
      <3>. QED
        BY <3>1
    <2> DEFINE h == CHOOSE g : P(g)
    <2>2. FlattenSeq(ss) = h[n]
      <3>1. Len(ss) # 0
        BY <1>7 DEF n
      <3>. QED
        BY <3>1 DEF FlattenSeq, n
    <2>3. P(h)
      <3> HIDE DEF P
      <3>. QED
        BY <2>1, Zenon
    <2>4. \A i \in 1..n : h[i] = IF i = 1 THEN ss[i] ELSE h[i - 1] \o ss[i]
      <3> HIDE DEF h
      <3>. QED
        BY <2>3
    <2> HIDE DEF h, P
    <2> DEFINE S == {m \in Nat : m + 1 <= n => h[m + 1] = f[m + 1]}
    <2>5. 0 \in S
      <3>0. 1 \in 1..n
        BY <1>1, <1>7
      <3>1. f[1] = ss[1]
        <4>0. 1 - 1 = 0
          OBVIOUS
        <4>1. f[1] = f[0] \o ss[1] /\ ss[1] \in Seq(A)
          BY <1>1, <1>5, <3>0, <4>0
        <4>. QED
          BY <1>4, <4>1, NothingBefore
      <3>. QED
        BY <1>1, <1>7, <2>4, <3>1
    <2>6. ASSUME NEW m \in Nat, m \in S PROVE m + 1 \in S
      <3> SUFFICES ASSUME m + 2 <= n PROVE h[m + 2] = f[m + 2]
        OBVIOUS
      <3>1. h[m + 1] = f[m + 1]
        BY <1>1, <2>6
      <3>2. m + 2 \in 1..n /\ (m + 2) - 1 = m + 1 /\ m + 2 # 1
        BY <1>1
      <3>3. h[m + 2] = h[m + 1] \o ss[m + 2]
        BY <2>4, <3>2
      <3>4. f[m + 2] = f[m + 1] \o ss[m + 2]
        BY <1>5, <3>2
      <3>. QED
        BY <3>1, <3>3, <3>4
    <2> HIDE DEF S
    <2>7. n - 1 \in S
      <3>1. \A m \in Nat : m \in S
        BY <2>5, <2>6, AllNaturals
      <3>. QED
        BY <1>1, <1>7, <3>1
    <2>8. h[n] = f[n]
      BY <1>1, <1>7, <2>7 DEF S
    <2>. QED
      BY <1>4, <1>5, <2>2, <2>8 DEF n
  <1>. QED
    BY <1>6, <1>7

LEMMA FlatGrows ==
    ASSUME NEW A
    PROVE  /\ FlattenSeq(None) = None
           /\ \A ss \in Seq(Seq(A)) : FlattenSeq(ss) \in Seq(A)
           /\ \A ss \in Seq(Seq(A)), s \in Seq(A) :
                 FlattenSeq(Append(ss, s)) = FlattenSeq(ss) \o s
  <1>1. FlattenSeq(None) = None
    BY DEF FlattenSeq, None
  <1>2. ASSUME NEW ss \in Seq(Seq(A)) PROVE FlattenSeq(ss) \in Seq(A)
    <2>1. PICK f \in [0..Len(ss) -> Seq(A)] : FlattenSeq(ss) = f[Len(ss)]
      BY FlatIs
    <2>. QED
      BY <2>1
  <1>3. ASSUME NEW ss \in Seq(Seq(A)), NEW s \in Seq(A)
        PROVE  FlattenSeq(Append(ss, s)) = FlattenSeq(ss) \o s
    <2> DEFINE n == Len(ss)
               tt == Append(ss, s)
    <2>1. /\ n \in Nat /\ tt \in Seq(Seq(A)) /\ Len(tt) = n + 1 /\ tt[n + 1] = s
          /\ \A i \in 1..n : tt[i] = ss[i]
      OBVIOUS
    <2>2. PICK f \in [0..n -> Seq(A)] :
               /\ f[0] = None /\ \A i \in 1..n : f[i] = f[i - 1] \o ss[i]
               /\ FlattenSeq(ss) = f[n]
      BY FlatIs
    <2> HIDE DEF tt
    <2>3. PICK g \in [0..Len(tt) -> Seq(A)] :
               /\ g[0] = None /\ \A i \in 1..Len(tt) : g[i] = g[i - 1] \o tt[i]
               /\ FlattenSeq(tt) = g[Len(tt)]
      BY <2>1, FlatIs
    <2> DEFINE S == {m \in Nat : m <= n => g[m] = f[m]}
    <2>4. 0 \in S
      BY <2>2, <2>3
    <2>5. ASSUME NEW m \in Nat, m \in S PROVE m + 1 \in S
      <3> SUFFICES ASSUME m + 1 <= n PROVE g[m + 1] = f[m + 1]
        OBVIOUS
      <3>1. m + 1 \in 1..n /\ m + 1 \in 1..Len(tt) /\ (m + 1) - 1 = m /\ g[m] = f[m]
        BY <2>1, <2>5
      <3>. QED
        BY <2>1, <2>2, <2>3, <3>1
    <2> HIDE DEF S
    <2>6. n \in S
      BY <2>1, <2>4, <2>5, AllNaturals
    <2>7. g[n] = f[n] /\ n + 1 \in 1..Len(tt) /\ (n + 1) - 1 = n
      BY <2>1, <2>6 DEF S
    <2>. QED
      BY <2>1, <2>2, <2>3, <2>7 DEF tt
  <1>. QED
    BY <1>1, <1>2, <1>3

As(x, c, by) == IF x = c THEN by ELSE <<x>>

\* What is written for each character, one after the other.
Rewrites(A, c, by) ==
    /\ Replaced(None, c, by) = None
    /\ \A s \in Seq(A) : Replaced(s, c, by) \in Seq(A)
    /\ \A s \in Seq(A), x \in A :
          Replaced(Append(s, x), c, by) = Replaced(s, c, by) \o As(x, c, by)

LEMMA ReplacedIs ==
    ASSUME NEW A, NEW c, NEW by \in Seq(A)
    PROVE  Rewrites(A, c, by)
  <1> DEFINE M(s) == [i \in DOMAIN s |-> IF s[i] = c THEN by ELSE <<s[i]>>]
  <1>1. ASSUME NEW s \in Seq(A) PROVE M(s) \in Seq(Seq(A))
    <2>1. \A i \in 1..Len(s) : (IF s[i] = c THEN by ELSE <<s[i]>>) \in Seq(A)
      OBVIOUS
    <2>2. DOMAIN s = 1..Len(s) /\ Len(s) \in Nat
      OBVIOUS
    <2>3. M(s) \in [1..Len(s) -> Seq(A)]
      BY <2>1, <2>2
    <2>. QED
      BY <2>2, <2>3
  <1>2. M(None) = None
    BY DEF None
  <1>3. ASSUME NEW s \in Seq(A), NEW x \in A
        PROVE  M(Append(s, x)) = Append(M(s), IF x = c THEN by ELSE <<x>>)
    <2> DEFINE t == Append(s, x)
               e == IF x = c THEN by ELSE <<x>>
    <2>1. t \in Seq(A) /\ Len(t) = Len(s) + 1 /\ t[Len(s) + 1] = x /\ \A i \in 1..Len(s) : t[i] = s[i]
      BY OneMore
    <2>2. e \in Seq(A)
      OBVIOUS
    <2> HIDE DEF t
    <2>3. /\ M(t) \in Seq(Seq(A)) /\ Len(M(t)) = Len(s) + 1 /\ M(t)[Len(s) + 1] = e
          /\ \A i \in 1..Len(s) : M(t)[i] = M(s)[i]
      BY <1>1, <2>1
    <2>4. M(s) \in Seq(Seq(A)) /\ Len(M(s)) = Len(s)
      BY <1>1
    <2> HIDE DEF M, e
    <2>5. M(t) = Append(M(s), e)
      BY <2>2, <2>3, <2>4
    <2>. QED
      BY <2>5 DEF t, e
  <1>4. \A s : Replaced(s, c, by) = FlattenSeq(M(s))
    BY DEF Replaced
  <1>5. \A x \in A : (IF x = c THEN by ELSE <<x>>) \in Seq(A)
    OBVIOUS
  <1> HIDE DEF M
  <1>6. Replaced(None, c, by) = None
    BY <1>2, <1>4, FlatGrows
  <1>7. ASSUME NEW s \in Seq(A) PROVE Replaced(s, c, by) \in Seq(A)
    BY <1>1, <1>4, FlatGrows
  <1>8. ASSUME NEW s \in Seq(A), NEW x \in A
        PROVE  Replaced(Append(s, x), c, by) = Replaced(s, c, by) \o As(x, c, by)
    <2> DEFINE e == IF x = c THEN by ELSE <<x>>
    <2>1. M(Append(s, x)) = Append(M(s), e) /\ e \in Seq(A) /\ M(s) \in Seq(Seq(A))
      BY <1>1, <1>3, <1>5
    <2> HIDE DEF e
    <2>2. FlattenSeq(Append(M(s), e)) = FlattenSeq(M(s)) \o e
      BY <2>1, FlatGrows
    <2>3. Replaced(Append(s, x), c, by) = Replaced(s, c, by) \o e
      BY <1>4, <2>1, <2>2
    <2>. QED
      BY <2>3 DEF e, As
  <1>. QED
    BY <1>6, <1>7, <1>8 DEF Rewrites

EndsInCR(s) == Len(s) > 0 /\ s[Len(s)] = CR
FoldOf(s, x) == IF x = CR THEN <<LF>> ELSE IF x = LF /\ EndsInCR(s) THEN None ELSE <<x>>

LEMMA FoldedIs ==
    ASSUME NEW A, LF \in A
    PROVE  /\ Folded(None) = None
           /\ \A s \in Seq(A) : Folded(s) \in Seq(A)
           /\ \A s \in Seq(A), x \in A : Folded(Append(s, x)) = Folded(s) \o FoldOf(s, x)
  <1> DEFINE F(s, i) == IF s[i] = CR THEN <<LF>>
                        ELSE IF s[i] = LF /\ i > 1 /\ s[i - 1] = CR THEN None ELSE <<s[i]>>
             M(s) == [i \in DOMAIN s |-> F(s, i)]
  <1>1. ASSUME NEW s \in Seq(A) PROVE M(s) \in Seq(Seq(A)) /\ Len(M(s)) = Len(s)
    <2>1. \A i \in 1..Len(s) : F(s, i) \in Seq(A)
      BY DEF None
    <2>2. DOMAIN s = 1..Len(s) /\ Len(s) \in Nat
      OBVIOUS
    <2> HIDE DEF F
    <2>3. M(s) \in [1..Len(s) -> Seq(A)]
      BY <2>1, <2>2
    <2> HIDE DEF M
    <2>. QED
      BY <2>2, <2>3
  <1>2. M(None) = None
    BY DEF None
  <1>3. ASSUME NEW s \in Seq(A), NEW x \in A
        PROVE  M(Append(s, x)) = Append(M(s), FoldOf(s, x)) /\ FoldOf(s, x) \in Seq(A)
    <2> DEFINE t == Append(s, x)
               e == FoldOf(s, x)
               n == Len(s)
    <2>1. /\ t \in Seq(A) /\ Len(t) = n + 1 /\ t[n + 1] = x /\ \A i \in 1..n : t[i] = s[i]
          /\ n \in Nat
      BY OneMore
    <2>2. e \in Seq(A)
      BY DEF FoldOf, None
    <2> HIDE DEF t
    <2>3. F(t, n + 1) = e
      <3>1. n > 0 => n \in 1..n /\ (n + 1) - 1 = n
        BY <2>1
      <3>. QED
        BY <2>1, <3>1 DEF FoldOf, EndsInCR
    <2>4. ASSUME NEW i \in 1..n PROVE F(t, i) = F(s, i)
      <3>1. t[i] = s[i] /\ (i > 1 => t[i - 1] = s[i - 1])
        BY <2>1
      <3>. QED
        BY <3>1
    <2> HIDE DEF F, e
    <2>5. DOMAIN t = 1..n + 1 /\ DOMAIN s = 1..n
      BY <2>1
    <2>6. /\ M(t) \in Seq(Seq(A)) /\ Len(M(t)) = n + 1 /\ M(t)[n + 1] = e
          /\ \A i \in 1..n : M(t)[i] = M(s)[i]
      <3>1. M(t) \in Seq(Seq(A)) /\ Len(M(t)) = n + 1
        BY <1>1, <2>1
      <3>2. n + 1 \in DOMAIN t /\ \A i \in 1..n : i \in DOMAIN t /\ i \in DOMAIN s
        BY <2>1, <2>5
      <3>3. M(t)[n + 1] = F(t, n + 1) /\ \A i \in 1..n : M(t)[i] = F(t, i) /\ M(s)[i] = F(s, i)
        BY <3>2
      <3> HIDE DEF M
      <3>. QED
        BY <2>3, <2>4, <3>1, <3>3
    <2>7. M(s) \in Seq(Seq(A)) /\ Len(M(s)) = n
      BY <1>1
    <2> HIDE DEF M, n
    <2>8. M(t) = Append(M(s), e)
      BY <2>2, <2>6, <2>7
    <2>. QED
      BY <2>2, <2>8 DEF t, e
  <1>4. \A s : Folded(s) = FlattenSeq(M(s))
    BY DEF Folded
  <1> HIDE DEF M, F
  <1>5. Folded(None) = None
    BY <1>2, <1>4, FlatGrows
  <1>6. ASSUME NEW s \in Seq(A) PROVE Folded(s) \in Seq(A)
    BY <1>1, <1>4, FlatGrows
  <1>7. ASSUME NEW s \in Seq(A), NEW x \in A
        PROVE  Folded(Append(s, x)) = Folded(s) \o FoldOf(s, x)
    <2>1. FlattenSeq(Append(M(s), FoldOf(s, x))) = FlattenSeq(M(s)) \o FoldOf(s, x)
      BY <1>1, <1>3, FlatGrows
    <2>. QED
      BY <1>3, <1>4, <2>1
  <1>. QED
    BY <1>5, <1>6, <1>7

\* A line break is left as a line feed, and there is no carriage return.
LEMMA FoldedHasNoCR ==
    ASSUME NEW A, LF \in A, NEW s \in Seq(A)
    PROVE  Folded(s) \in Seq(A \ {CR})
  <1> DEFINE B == A \ {CR}
             T == {t \in Seq(A) : Folded(t) \in Seq(B)}
  <1>0. LF \in B /\ \A x \in A : x # CR => x \in B
    BY DEF LF, CR
  <1> HIDE DEF B
  <1>1. None \in T
    <2>1. Folded(None) = None
      BY FoldedIs
    <2>2. None \in Seq(A) /\ None \in Seq(B)
      BY DEF None
    <2>. QED
      BY <2>1, <2>2
  <1>2. ASSUME NEW t \in Seq(A), NEW x \in A, t \in T PROVE Append(t, x) \in T
    <2>2. FoldOf(t, x) \in Seq(B)
      <3>1. CASE FoldOf(t, x) = None
        BY <3>1 DEF None
      <3>2. CASE FoldOf(t, x) = <<LF>>
        BY <1>0, <3>2
      <3>3. CASE FoldOf(t, x) = <<x>> /\ x # CR
        BY <1>0, <3>3
      <3>. QED
        BY <3>1, <3>2, <3>3 DEF FoldOf
    <2>3. Folded(Append(t, x)) = Folded(t) \o FoldOf(t, x) /\ Append(t, x) \in Seq(A)
      BY FoldedIs, OneMore
    <2>4. Folded(t) \in Seq(B)
      BY <1>2
    <2>5. Folded(t) \o FoldOf(t, x) \in Seq(B)
      BY <2>2, <2>4
    <2>. QED
      BY <2>3, <2>5
  <1> HIDE DEF T
  <1>3. \A t \in Seq(A) : t \in T
    BY <1>1, <1>2, AllTexts
  <1>. QED
    BY <1>3 DEF T, B

Doubled(s) == Replaced(s, "\\", <<"\\", "\\">>)

LEMMA DoubledIs ==
    ASSUME NEW A, "\\" \in A
    PROVE  /\ Doubled(None) = None
           /\ \A s \in Seq(A) : Doubled(s) \in Seq(A)
           /\ \A s \in Seq(A), x \in A :
                 Doubled(Append(s, x)) = Doubled(s) \o (IF x = "\\" THEN <<"\\", "\\">> ELSE <<x>>)
  <1>1. <<"\\", "\\">> \in Seq(A)
    OBVIOUS
  <1>2. Rewrites(A, "\\", <<"\\", "\\">>)
    BY <1>1, ReplacedIs
  <1>. QED
    BY <1>2 DEF Rewrites, Doubled, As

\* Whether backslashes are doubled before line breaks are folded or after.
LEMMA FoldCommutes ==
    ASSUME NEW A, LF \in A, "\\" \in A, NEW s \in Seq(A)
    PROVE  Folded(Doubled(s)) = Doubled(Folded(s))
  <1> DEFINE T == {t \in Seq(A) : /\ Folded(Doubled(t)) = Doubled(Folded(t))
                                  /\ EndsInCR(Doubled(t)) <=> EndsInCR(t)}
  <1>1. None \in T
    BY FoldedIs, DoubledIs DEF None
  <1>2. ASSUME NEW t \in Seq(A), NEW x \in A, t \in T PROVE Append(t, x) \in T
    <2>1. /\ Doubled(t) \in Seq(A) /\ Folded(t) \in Seq(A) /\ Folded(Doubled(t)) \in Seq(A)
          /\ Folded(Doubled(t)) = Doubled(Folded(t)) /\ Append(t, x) \in Seq(A)
          /\ EndsInCR(Doubled(t)) <=> EndsInCR(t)
      BY <1>2, FoldedIs, DoubledIs, OneMore
    <2>2. /\ Folded(Append(t, x)) = Folded(t) \o FoldOf(t, x)
          /\ Doubled(Append(t, x)) = Doubled(t) \o (IF x = "\\" THEN <<"\\", "\\">> ELSE <<x>>)
      BY FoldedIs, DoubledIs
    <2>3. CASE x = "\\"
      <3> DEFINE d == Doubled(t)
                 d1 == Append(d, x)
                 d2 == Append(d1, x)
      <3>1. /\ d \in Seq(A) /\ d1 \in Seq(A) /\ d2 \in Seq(A) /\ Doubled(Append(t, x)) = d2
            /\ ~EndsInCR(d2) /\ ~EndsInCR(Append(t, x))
        BY <2>1, <2>2, <2>3 DEF EndsInCR, CR
      <3>2. /\ Folded(d1) = Append(Folded(d), x) /\ Folded(d2) = Append(Folded(d1), x)
            /\ Folded(Append(t, x)) = Append(Folded(t), x)
        <4>1. \A r : FoldOf(r, x) = <<x>>
          BY <2>3 DEF FoldOf, CR, LF
        <4>2. ASSUME NEW r \in Seq(A) PROVE Folded(Append(r, x)) = Append(Folded(r), x)
          <5>0. Folded(Append(r, x)) = Folded(r) \o FoldOf(r, x) /\ Folded(r) \in Seq(A)
            BY FoldedIs
          <5>1. Folded(Append(r, x)) = Folded(r) \o <<x>> /\ Folded(r) \in Seq(A)
            BY <4>1, <5>0
          <5>. QED
            BY <5>1, OneMore
        <4>3. d \in Seq(A) /\ d1 \in Seq(A)
          BY <3>1
        <4> HIDE DEF d
        <4>4. Folded(d1) = Append(Folded(d), x)
          BY <4>2, <4>3
        <4>5. Folded(d2) = Append(Folded(d1), x)
          <5> HIDE DEF d1
          <5>. QED
            BY <4>2, <4>3
        <4>. QED
          BY <4>2, <4>4, <4>5
      <3>3. Doubled(Append(Folded(t), x)) = Append(Append(Doubled(Folded(t)), x), x)
        <4>1. Doubled(Append(Folded(t), x)) = Doubled(Folded(t)) \o <<x, x>>
          BY <2>1, <2>3, DoubledIs
        <4>2. Doubled(Folded(t)) \in Seq(A)
          BY <2>1, DoubledIs
        <4>. QED
          BY <4>1, <4>2
      <3> HIDE DEF d, d1, d2
      <3>4. Folded(d2) = Append(Append(Folded(d), x), x)
        BY <3>2
      <3>. QED
        BY <2>1, <3>1, <3>2, <3>3, <3>4 DEF d
    <2>4. CASE x # "\\"
      <3>1. Doubled(Append(t, x)) = Append(Doubled(t), x)
        BY <2>1, <2>2, <2>4, OneMore
      <3>2. FoldOf(Doubled(t), x) = FoldOf(t, x)
        BY <2>1 DEF FoldOf
      <3>3. Folded(Append(Doubled(t), x)) = Folded(Doubled(t)) \o FoldOf(t, x)
        BY <2>1, <3>2, FoldedIs
      <3>4. Doubled(Folded(t) \o FoldOf(t, x)) = Doubled(Folded(t)) \o FoldOf(t, x)
        <4>1. CASE FoldOf(t, x) = None
          BY <2>1, <4>1, DoubledIs, NothingBefore
        <4>2. CASE FoldOf(t, x) # None
          <5>1. PICK y \in A : FoldOf(t, x) = <<y>> /\ y # "\\"
            BY <2>4, <4>2 DEF FoldOf, LF
          <5>2. Folded(t) \o <<y>> = Append(Folded(t), y)
            BY <2>1, OneMore
          <5>. QED
            BY <2>1, <5>1, <5>2, DoubledIs
        <4>. QED
          BY <4>1, <4>2
      <3>5. EndsInCR(Append(Doubled(t), x)) <=> EndsInCR(Append(t, x))
        BY <2>1, OneMore DEF EndsInCR
      <3>. QED
        BY <2>1, <2>2, <3>1, <3>3, <3>4, <3>5
    <2>. QED
      BY <2>3, <2>4
  <1> HIDE DEF T
  <1>3. \A t \in Seq(A) : t \in T
    BY <1>1, <1>2, AllTexts
  <1>. QED
    BY <1>3 DEF T

LEMMA Joins == ASSUME NEW A, NEW r \in Seq(A), NEW s \in Seq(A), NEW t \in Seq(A)
               PROVE  r \o s \in Seq(A) /\ (r \o s) \o t = r \o (s \o t)
  OBVIOUS

LEMMA Pair ==
    ASSUME NEW A, NEW a \in A, NEW b \in A
    PROVE  <<a>> \o <<b>> = <<a, b>> /\ <<a>> \in Seq(A) /\ <<b>> \in Seq(A)
  <1> DEFINE p == <<a>> \o <<b>>
             q == <<a, b>>
  <1>1. <<a>> \in Seq(A) /\ <<b>> \in Seq(A) /\ q \in Seq(A)
    OBVIOUS
  <1>2. Len(<<a>>) = 1 /\ Len(<<b>>) = 1 /\ Len(q) = 2 /\ q[1] = a /\ q[2] = b
    OBVIOUS
  <1>3. p \in Seq(A) /\ Len(p) = 2
    BY <1>1, <1>2
  <1>4. p[1] = a /\ p[2] = b
    OBVIOUS
  <1> HIDE DEF p, q
  <1>5. \A i \in 1..2 : p[i] = q[i]
    BY <1>2, <1>4
  <1>6. p = q
    BY <1>1, <1>2, <1>3, <1>5
  <1>. QED
    BY <1>1, <1>6 DEF p, q

Spreads(A, c, by) ==
    \A s, t \in Seq(A) : Replaced(s \o t, c, by) = Replaced(s, c, by) \o Replaced(t, c, by)

LEMMA ReplacedSpreads ==
    ASSUME NEW A, NEW c, NEW by \in Seq(A)
    PROVE  Spreads(A, c, by)
  <1> SUFFICES ASSUME NEW s \in Seq(A), NEW t \in Seq(A)
               PROVE  Replaced(s \o t, c, by) = Replaced(s, c, by) \o Replaced(t, c, by)
    BY DEF Spreads
  <1> DEFINE R(r) == Replaced(r, c, by)
             T == {r \in Seq(A) : R(s \o r) = R(s) \o R(r)}
  <1>0. /\ R(None) = None /\ \A r \in Seq(A) : R(r) \in Seq(A)
        /\ \A r \in Seq(A), x \in A : R(Append(r, x)) = R(r) \o As(x, c, by)
    <2>1. Rewrites(A, c, by)
      BY ReplacedIs
    <2>. QED
      BY <2>1 DEF Rewrites
  <1> HIDE DEF R
  <1>1. None \in T
    BY <1>0, NothingBefore, OneMore DEF None
  <1>2. ASSUME NEW r \in Seq(A), NEW x \in A, r \in T PROVE Append(r, x) \in T
    <2> DEFINE e == As(x, c, by)
    <2>0. e \in Seq(A)
      BY DEF As
    <2>1. s \o Append(r, x) = Append(s \o r, x) /\ s \o r \in Seq(A) /\ Append(r, x) \in Seq(A)
      OBVIOUS
    <2>2. R(Append(s \o r, x)) = R(s \o r) \o e /\ R(Append(r, x)) = R(r) \o e
      BY <1>0, <2>1
    <2>3. R(s \o r) = R(s) \o R(r) /\ R(s) \in Seq(A) /\ R(r) \in Seq(A)
      BY <1>0, <1>2
    <2>4. (R(s) \o R(r)) \o e = R(s) \o (R(r) \o e)
      <3> HIDE DEF e
      <3>. QED
        BY <2>0, <2>3
    <2>. QED
      BY <2>1, <2>2, <2>3, <2>4
  <1> HIDE DEF T
  <1>3. \A r \in Seq(A) : r \in T
    BY <1>1, <1>2, AllTexts
  <1>. QED
    BY <1>3 DEF T, R

LEMMA ReplacedOne ==
    ASSUME NEW A, NEW c, NEW by \in Seq(A), NEW x \in A
    PROVE  Replaced(<<x>>, c, by) = As(x, c, by)
  <1> DEFINE e == As(x, c, by)
  <1>1. <<x>> = Append(None, x) /\ None \in Seq(A) /\ e \in Seq(A)
    BY DEF None, As
  <1>2. Replaced(None, c, by) = None /\ Replaced(Append(None, x), c, by) = Replaced(None, c, by) \o e
    <2>1. Rewrites(A, c, by)
      BY ReplacedIs
    <2>. QED
      BY <1>1, <2>1 DEF Rewrites
  <1> HIDE DEF e
  <1>3. Replaced(<<x>>, c, by) = e
    BY <1>1, <1>2, NothingBefore
  <1>. QED
    BY <1>3 DEF e

LEMMA PairKept ==
    ASSUME NEW A, NEW c, NEW by \in Seq(A), NEW a \in A, NEW b \in A, a # c, b # c
    PROVE  Replaced(<<a, b>>, c, by) = <<a, b>>
  <1>1. Replaced(<<a>>, c, by) = <<a>> /\ Replaced(<<b>>, c, by) = <<b>>
    <2>1. Replaced(<<a>>, c, by) = As(a, c, by) /\ Replaced(<<b>>, c, by) = As(b, c, by)
      BY ReplacedOne
    <2>. QED
      BY <2>1 DEF As
  <1>2. <<a>> \o <<b>> = <<a, b>> /\ <<a>> \in Seq(A) /\ <<b>> \in Seq(A)
    BY Pair
  <1>3. Replaced(<<a>> \o <<b>>, c, by) = Replaced(<<a>>, c, by) \o Replaced(<<b>>, c, by)
    <2>1. Spreads(A, c, by)
      BY ReplacedSpreads
    <2>. QED
      BY <1>2, <2>1, Zenon DEF Spreads
  <1>. QED
    BY <1>1, <1>2, <1>3, Zenon

\* What stands in the file for a character of a value whose line breaks are folded.
Mark(x) == IF x \in {"\\", Comma, Semicolon} THEN <<"\\", x>> ELSE IF x = LF THEN <<"\\", "n">> ELSE <<x>>
Marked(s) == Replaced(Replaced(Replaced(Doubled(s), LF, <<"\\", "n">>), Comma, <<"\\", Comma>>),
                      Semicolon, <<"\\", Semicolon>>)
Written == {"\\", Comma, Semicolon, "n", LF}

LEMMA Signs ==
    /\ Comma # Semicolon /\ Comma # "\\" /\ Comma # LF /\ Comma # CR /\ Comma # "n"
    /\ Semicolon # "\\" /\ Semicolon # LF /\ Semicolon # CR /\ Semicolon # "n"
    /\ LF # CR /\ LF # "\\" /\ LF # "n" /\ CR # "\\" /\ CR # "n" /\ "n" # "\\"
  BY Zenon DEF Comma, Semicolon, LF, CR

LEMMA MarkedIs ==
    ASSUME NEW A, Written \subseteq A
    PROVE  /\ Marked(None) = None
           /\ \A s \in Seq(A) : Marked(s) \in Seq(A)
           /\ \A s \in Seq(A), x \in A : Marked(Append(s, x)) = Marked(s) \o Mark(x)
  <1> DEFINE sub1 == <<"\\", "n">>
             sub2 == <<"\\", Comma>>
             sub3 == <<"\\", Semicolon>>
             R1(s) == Replaced(s, LF, sub1)
             R2(s) == Replaced(s, Comma, sub2)
             R3(s) == Replaced(s, Semicolon, sub3)
  <1>0. /\ "\\" \in A /\ Comma \in A /\ Semicolon \in A /\ "n" \in A /\ LF \in A
        /\ sub1 \in Seq(A) /\ sub2 \in Seq(A) /\ sub3 \in Seq(A)
        /\ <<"\\", "\\">> \in Seq(A)
    <2>1. "\\" \in A /\ Comma \in A /\ Semicolon \in A /\ "n" \in A /\ LF \in A
      BY DEF Written
    <2>. QED
      BY <2>1
  <1> HIDE DEF sub1, sub2, sub3
  <1>1. R1(None) = None /\ R2(None) = None /\ R3(None) = None /\ Doubled(None) = None
    <2>1. Rewrites(A, LF, sub1) /\ Rewrites(A, Comma, sub2) /\ Rewrites(A, Semicolon, sub3)
      BY <1>0, ReplacedIs
    <2>. QED
      BY <1>0, <2>1, DoubledIs DEF Rewrites
  <1>2. \A s \in Seq(A) : R1(s) \in Seq(A) /\ R2(s) \in Seq(A) /\ R3(s) \in Seq(A) /\ Doubled(s) \in Seq(A)
    <2>1. Rewrites(A, LF, sub1) /\ Rewrites(A, Comma, sub2) /\ Rewrites(A, Semicolon, sub3)
      BY <1>0, ReplacedIs
    <2>. QED
      BY <1>0, <2>1, DoubledIs DEF Rewrites
  <1>3. /\ \A s, t \in Seq(A) : R1(s \o t) = R1(s) \o R1(t)
        /\ \A s, t \in Seq(A) : R2(s \o t) = R2(s) \o R2(t)
        /\ \A s, t \in Seq(A) : R3(s \o t) = R3(s) \o R3(t)
    <2>1. Spreads(A, LF, sub1) /\ Spreads(A, Comma, sub2) /\ Spreads(A, Semicolon, sub3)
      BY <1>0, ReplacedSpreads
    <2>. QED
      BY <2>1, Zenon DEF Spreads
  <1>4. ASSUME NEW x \in A
        PROVE  /\ x = LF => R1(<<x>>) = sub1
               /\ x # LF => R1(<<x>>) = <<x>>
               /\ x = Comma => R2(<<x>>) = sub2
               /\ x # Comma => R2(<<x>>) = <<x>>
               /\ x = Semicolon => R3(<<x>>) = sub3
               /\ x # Semicolon => R3(<<x>>) = <<x>>
    <2>1. /\ R1(<<x>>) = As(x, LF, sub1)
          /\ R2(<<x>>) = As(x, Comma, sub2)
          /\ R3(<<x>>) = As(x, Semicolon, sub3)
      BY <1>0, ReplacedOne
    <2>. QED
      BY <2>1 DEF As
  <1>5. \A s : Marked(s) = R3(R2(R1(Doubled(s))))
    BY DEF Marked, sub1, sub2, sub3
  <1> HIDE DEF R1, R2, R3
  <1>6. ASSUME NEW s \in Seq(A), NEW x \in A PROVE Marked(Append(s, x)) = Marked(s) \o Mark(x)
    <2> DEFINE d == Doubled(s)
               e == IF x = "\\" THEN <<"\\", "\\">> ELSE <<x>>
    <2>1. Doubled(Append(s, x)) = d \o e /\ d \in Seq(A) /\ e \in Seq(A)
      <3>1. Doubled(Append(s, x)) = d \o e
        <4>1. \A r \in Seq(A), y \in A :
                 Doubled(Append(r, y)) = Doubled(r) \o (IF y = "\\" THEN <<"\\", "\\">> ELSE <<y>>)
          BY <1>0, DoubledIs, Zenon
        <4>. QED
          BY <4>1, Zenon DEF d, e
      <3>. QED
        BY <1>0, <1>2, <3>1
    <2> HIDE DEF d, e
    <2>2. R1(d \o e) = R1(d) \o R1(e) /\ R1(d) \in Seq(A) /\ R1(e) \in Seq(A)
      BY <1>2, <1>3, <2>1
    <2>3. R2(R1(d) \o R1(e)) = R2(R1(d)) \o R2(R1(e)) /\ R2(R1(d)) \in Seq(A) /\ R2(R1(e)) \in Seq(A)
      BY <1>2, <1>3, <2>2
    <2>4. R3(R2(R1(d)) \o R2(R1(e))) = R3(R2(R1(d))) \o R3(R2(R1(e)))
      BY <1>3, <2>3
    <2>5. R3(R2(R1(e))) = Mark(x)
      <3>1. /\ R1(<<"\\", "\\">>) = <<"\\", "\\">> /\ R2(<<"\\", "\\">>) = <<"\\", "\\">>
            /\ R3(<<"\\", "\\">>) = <<"\\", "\\">>
        BY <1>0, PairKept, Signs DEF R1, R2, R3
      <3>2. R2(<<"\\", "n">>) = <<"\\", "n">> /\ R3(<<"\\", "n">>) = <<"\\", "n">>
        BY <1>0, PairKept, Signs DEF R2, R3
      <3>3. R3(<<"\\", Comma>>) = <<"\\", Comma>>
        BY <1>0, PairKept, Signs DEF R3
      <3>4. CASE x = "\\"
        <4>1. e = <<"\\", "\\">> /\ Mark(x) = <<"\\", "\\">>
          BY <3>4 DEF e, Mark
        <4>. QED
          BY <3>1, <4>1, Zenon
      <3>5. CASE x = LF
        <4>1. e = <<LF>> /\ Mark(x) = <<"\\", "n">> /\ R1(<<LF>>) = <<"\\", "n">>
          BY <1>0, <1>4, <3>5, Signs DEF e, Mark, sub1
        <4>. QED
          BY <3>2, <4>1, Zenon
      <3>6. CASE x = Comma
        <4>1. /\ e = <<Comma>> /\ Mark(x) = <<"\\", Comma>>
              /\ R1(<<Comma>>) = <<Comma>> /\ R2(<<Comma>>) = <<"\\", Comma>>
          BY <1>0, <1>4, <3>6, Signs DEF e, Mark, sub2
        <4>. QED
          BY <3>3, <4>1, Zenon
      <3>7. CASE x = Semicolon
        <4>1. /\ e = <<Semicolon>> /\ Mark(x) = <<"\\", Semicolon>>
              /\ R1(<<Semicolon>>) = <<Semicolon>> /\ R2(<<Semicolon>>) = <<Semicolon>> /\ R3(<<Semicolon>>) = <<"\\", Semicolon>>
          BY <1>0, <1>4, <3>7, Signs DEF e, Mark, sub3
        <4>. QED
          BY <4>1
      <3>8. CASE x \notin {"\\", LF, Comma, Semicolon}
        <4>1. /\ e = <<x>> /\ Mark(x) = <<x>>
              /\ R1(<<x>>) = <<x>> /\ R2(<<x>>) = <<x>> /\ R3(<<x>>) = <<x>>
          BY <1>4, <3>8 DEF e, Mark
        <4>. QED
          BY <4>1
      <3>. QED
        BY <3>4, <3>5, <3>6, <3>7, <3>8
    <2>6. Marked(Append(s, x)) = R3(R2(R1(d))) \o R3(R2(R1(e)))
      BY <1>5, <2>1, <2>2, <2>3, <2>4
    <2>. QED
      BY <1>5, <2>5, <2>6 DEF d
  <1>7. ASSUME NEW s \in Seq(A) PROVE Marked(s) \in Seq(A)
    BY <1>2, <1>5
  <1>. QED
    BY <1>1, <1>5, <1>6, <1>7

\* The escape, character by character.
LEMMA EscapeIs ==
    ASSUME NEW A, Written \subseteq A, NEW s \in Seq(A)
    PROVE  escapeVCardValue(s) = Marked(Folded(s)) /\ Folded(s) \in Seq(A \ {CR})
  <1>1. LF \in A /\ "\\" \in A
    BY DEF Written
  <1>2. Folded(Doubled(s)) = Doubled(Folded(s)) /\ Folded(s) \in Seq(A \ {CR})
    BY <1>1, FoldCommutes, FoldedHasNoCR
  <1>. QED
    BY <1>2 DEF escapeVCardValue, Marked, Doubled

\* What is written for a value stays on its line.
LEMMA MarkedIsOneLine ==
    ASSUME NEW A, Written \subseteq A, NEW s \in Seq(A \ {CR})
    PROVE  Marked(s) \in Seq(A \ {CR, LF})
  <1> DEFINE B == A \ {CR}
             D == A \ {CR, LF}
             T == {t \in Seq(B) : Marked(t) \in Seq(D)}
  <1>0. Written \subseteq B /\ "\\" \in D /\ "n" \in D /\ \A x \in B : x # LF => x \in D
    BY Signs DEF Written
  <1> HIDE DEF B, D
  <1>1. None \in T
    <2>1. Marked(None) = None
      BY <1>0, MarkedIs
    <2>2. None \in Seq(B) /\ None \in Seq(D)
      BY DEF None
    <2>. QED
      BY <2>1, <2>2
  <1>2. ASSUME NEW t \in Seq(B), NEW x \in B, t \in T PROVE Append(t, x) \in T
    <2>1. Marked(Append(t, x)) = Marked(t) \o Mark(x) /\ Append(t, x) \in Seq(B) /\ Marked(t) \in Seq(D)
      BY <1>0, <1>2, MarkedIs, OneMore
    <2>2. Mark(x) \in Seq(D)
      <3>1. CASE x = LF
        BY <1>0, <3>1, Signs DEF Mark
      <3>2. CASE x # LF
        <4>1. x \in D
          BY <1>0, <3>2
        <4>. QED
          BY <1>0, <3>2, <4>1 DEF Mark
      <3>. QED
        BY <3>1, <3>2
    <2>3. Marked(t) \o Mark(x) \in Seq(D)
      BY <2>1, <2>2
    <2>. QED
      BY <2>1, <2>3
  <1> HIDE DEF T
  <1>3. \A t \in Seq(B) : t \in T
    BY <1>1, <1>2, AllTexts
  <1>. QED
    BY <1>3 DEF T, B, D

-----------------------------------------------------------------------------
(* What the address book reads.                                            *)

Start == [values |-> <<>>, value |-> None, plain |-> FALSE]
Scans(A) == [values : Seq(Seq(A)), value : Seq(A), plain : BOOLEAN]

LEMMA ScanType ==
    ASSUME NEW A, LF \in A, NEW r \in Scans(A), NEW c \in A
    PROVE  Scan(r, c) \in Scans(A)
  <1>1. /\ r.values \in Seq(Seq(A)) /\ r.value \in Seq(A) /\ r.plain \in BOOLEAN
        /\ r = [values |-> r.values, value |-> r.value, plain |-> r.plain]
    BY DEF Scans
  <1>2. CASE r.plain
    <2>1. Append(r.value, IF c = "n" THEN LF ELSE c) \in Seq(A)
      BY <1>1
    <2>2. Scan(r, c) = [values |-> r.values, value |-> Append(r.value, IF c = "n" THEN LF ELSE c), plain |-> FALSE]
      BY <1>1, <1>2 DEF Scan
    <2>. QED
      BY <1>1, <2>1, <2>2 DEF Scans
  <1>3. CASE ~r.plain /\ c = "\\"
    <2>1. Scan(r, c) = [values |-> r.values, value |-> r.value, plain |-> TRUE]
      BY <1>1, <1>3, Signs DEF Scan
    <2>. QED
      BY <1>1, <2>1 DEF Scans
  <1>4. CASE ~r.plain /\ c = Semicolon /\ c # "\\"
    <2>1. Scan(r, c) = [values |-> Append(r.values, r.value), value |-> None, plain |-> r.plain]
      BY <1>1, <1>4 DEF Scan
    <2>2. Append(r.values, r.value) \in Seq(Seq(A)) /\ None \in Seq(A)
      BY <1>1 DEF None
    <2>. QED
      BY <1>1, <2>1, <2>2 DEF Scans
  <1>5. CASE ~r.plain /\ c # Semicolon /\ c # "\\"
    <2>1. Scan(r, c) = [values |-> r.values, value |-> Append(r.value, c), plain |-> r.plain]
      BY <1>1, <1>5 DEF Scan
    <2>2. Append(r.value, c) \in Seq(A)
      BY <1>1
    <2>. QED
      BY <1>1, <2>1, <2>2 DEF Scans
  <1>. QED
    BY <1>2, <1>3, <1>4, <1>5

\* The run of the reader over a line.
Run(A, line, f) ==
    /\ f \in [0..Len(line) -> Scans(A)] /\ f[0] = Start
    /\ \A i \in 1..Len(line) : f[i] = Scan(f[i - 1], line[i])

LEMMA ScannedIs ==
    ASSUME NEW A, LF \in A, NEW line \in Seq(A)
    PROVE  \E f : Run(A, line, f) /\ Scanned(line) = f[Len(line)]
  <1> DEFINE n == Len(line)
             V == Scans(A)
             step == [p \in (1..n) \X V |-> Scan(p[2], line[p[1]])]
             P(h) == h = [i \in 0..n |-> IF i = 0 THEN Start ELSE Scan(h[i - 1], line[i])]
  <1>1. n \in Nat /\ Start \in V /\ \A i \in 1..n : line[i] \in A
    <2>1. None \in Seq(A) /\ <<>> \in Seq(Seq(A))
      BY DEF None
    <2>. QED
      BY <2>1 DEF Start, Scans
  <1>2. \A i \in 1..n : \A x \in V : step[<<i, x>>] = Scan(x, line[i]) /\ Scan(x, line[i]) \in V
    BY <1>1, ScanType
  <1>3. \A i \in 1..n : \A x \in V : step[<<i, x>>] \in V
    BY <1>2
  <1> HIDE DEF n, V, step
  <1>4. PICK f \in [0..n -> V] : f[0] = Start /\ \A i \in 1..n : f[i] = step[<<i, f[i - 1]>>]
    <2>1. Along(V, Start, n, step)
      BY <1>1, <1>3, Recursion
    <2>. QED
      BY <2>1 DEF Along
  <1>5. ASSUME NEW i \in 1..n PROVE f[i] = Scan(f[i - 1], line[i])
    <2>1. f[i - 1] \in V
      BY <1>1, <1>4
    <2>. QED
      BY <1>2, <1>4, <2>1
  <1>6. P(f)
    <2>1. f = [i \in 0..n |-> f[i]]
      BY <1>4
    <2>2. \A i \in 0..n : f[i] = IF i = 0 THEN Start ELSE Scan(f[i - 1], line[i])
      BY <1>1, <1>4, <1>5
    <2>. QED
      BY <2>1, <2>2
  <1> DEFINE h == CHOOSE g : P(g)
  <1>7. Scanned(line) = h[n]
    BY DEF Scanned, n, Start
  <1>8. P(h)
    <2> HIDE DEF P
    <2>. QED
      BY <1>6, Zenon
  <1>9. \A i \in 0..n : h[i] = IF i = 0 THEN Start ELSE Scan(h[i - 1], line[i])
    <2> HIDE DEF h
    <2>. QED
      BY <1>8
  <1> HIDE DEF h, P
  <1> DEFINE S == {m \in Nat : m <= n => h[m] = f[m]}
  <1>10. 0 \in S
    BY <1>1, <1>4, <1>9
  <1>11. ASSUME NEW m \in Nat, m \in S PROVE m + 1 \in S
    <2> SUFFICES ASSUME m + 1 <= n PROVE h[m + 1] = f[m + 1]
      OBVIOUS
    <2>1. h[m] = f[m] /\ m + 1 \in 1..n /\ m + 1 \in 0..n /\ (m + 1) - 1 = m /\ m + 1 # 0
      BY <1>1, <1>11
    <2>2. h[m + 1] = Scan(h[m], line[m + 1])
      BY <1>9, <2>1
    <2>3. f[m + 1] = Scan(f[m], line[m + 1])
      BY <1>5, <2>1
    <2>. QED
      BY <2>1, <2>2, <2>3
  <1> HIDE DEF S
  <1>12. n \in S
    BY <1>1, <1>10, <1>11, AllNaturals
  <1>13. h[n] = f[n]
    BY <1>1, <1>12 DEF S
  <1>. QED
    BY <1>4, <1>5, <1>7, <1>13 DEF n, V, Run

LEMMA ScannedGrows ==
    ASSUME NEW A, LF \in A
    PROVE  /\ Scanned(None) = Start
           /\ \A l \in Seq(A) : Scanned(l) \in Scans(A)
           /\ \A l \in Seq(A), c \in A : Scanned(Append(l, c)) = Scan(Scanned(l), c)
  <1>1. Scanned(None) = Start
    <2>1. None \in Seq(A) /\ Len(None) = 0
      BY DEF None
    <2>2. PICK f : Run(A, None, f) /\ Scanned(None) = f[Len(None)]
      BY <2>1, ScannedIs
    <2>. QED
      BY <2>1, <2>2 DEF Run
  <1>2. ASSUME NEW l \in Seq(A) PROVE Scanned(l) \in Scans(A)
    <2>1. PICK f : Run(A, l, f) /\ Scanned(l) = f[Len(l)]
      BY ScannedIs
    <2>. QED
      BY <2>1 DEF Run
  <1>3. ASSUME NEW l \in Seq(A), NEW c \in A PROVE Scanned(Append(l, c)) = Scan(Scanned(l), c)
    <2> DEFINE n == Len(l)
               t == Append(l, c)
    <2>1. /\ n \in Nat /\ t \in Seq(A) /\ Len(t) = n + 1 /\ t[n + 1] = c
          /\ \A i \in 1..n : t[i] = l[i]
      BY OneMore
    <2> HIDE DEF t
    <2>2. PICK f : Run(A, l, f) /\ Scanned(l) = f[n]
      BY ScannedIs
    <2>3. PICK g : Run(A, t, g) /\ Scanned(t) = g[Len(t)]
      BY <2>1, ScannedIs
    <2>4. f[0] = Start /\ \A i \in 1..n : f[i] = Scan(f[i - 1], l[i])
      BY <2>2 DEF Run
    <2>5. g[0] = Start /\ \A i \in 1..n + 1 : g[i] = Scan(g[i - 1], t[i])
      BY <2>1, <2>3 DEF Run
    <2> HIDE DEF n
    <2> DEFINE S == {m \in Nat : m <= n => g[m] = f[m]}
    <2>6. 0 \in S
      BY <2>4, <2>5
    <2>7. ASSUME NEW m \in Nat, m \in S PROVE m + 1 \in S
      <3> SUFFICES ASSUME m + 1 <= n PROVE g[m + 1] = f[m + 1]
        OBVIOUS
      <3>1. m + 1 \in 1..n /\ m + 1 \in 1..n + 1 /\ (m + 1) - 1 = m /\ g[m] = f[m]
        BY <2>1, <2>7
      <3>2. f[m + 1] = Scan(f[m], l[m + 1])
        BY <2>4, <3>1
      <3>3. g[m + 1] = Scan(g[m], t[m + 1])
        BY <2>5, <3>1
      <3>. QED
        BY <2>1, <3>1, <3>2, <3>3
    <2> HIDE DEF S
    <2>8. n \in S
      BY <2>1, <2>6, <2>7, AllNaturals
    <2>9. g[n] = f[n] /\ n + 1 \in 1..n + 1 /\ (n + 1) - 1 = n
      BY <2>1, <2>8 DEF S
    <2>10. g[n + 1] = Scan(g[n], c)
      BY <2>1, <2>5, <2>9
    <2>. QED
      BY <2>1, <2>2, <2>3, <2>9, <2>10 DEF t
  <1>. QED
    BY <1>1, <1>2, <1>3

\* A value written is read back, from wherever the reader stands.
LEMMA MarkedReads ==
    ASSUME NEW A, Written \subseteq A, NEW l \in Seq(A), Scanned(l).plain = FALSE, NEW u \in Seq(A)
    PROVE  /\ l \o Marked(u) \in Seq(A)
           /\ Scanned(l).values \in Seq(Seq(A)) /\ Scanned(l).value \in Seq(A)
           /\ Scanned(l \o Marked(u)) = [values |-> Scanned(l).values,
                                         value |-> Scanned(l).value \o u, plain |-> FALSE]
  <1> DEFINE R == Scanned(l)
             With(v) == [values |-> R.values, value |-> v, plain |-> FALSE]
             T == {t \in Seq(A) : Scanned(l \o Marked(t)) = With(R.value \o t)}
  <1>0. "\\" \in A /\ "n" \in A /\ LF \in A /\ Comma \in A /\ Semicolon \in A
    BY DEF Written
  <1>1. /\ R \in Scans(A) /\ R.values \in Seq(Seq(A)) /\ R.value \in Seq(A)
    <2>1. R \in Scans(A)
      BY <1>0, ScannedGrows
    <2> HIDE DEF R
    <2>. QED
      BY <2>1 DEF Scans
  <1>2. With(R.value) = R
    <2> HIDE DEF R
    <2>2. R.plain = FALSE
      BY DEF R
    <2>. QED
      BY <1>1, <2>2 DEF Scans
  <1>3. \A v \in Seq(A) : /\ Scan(With(v), "\\") = [values |-> R.values, value |-> v, plain |-> TRUE]
    BY Signs DEF Scan
  <1>4. ASSUME NEW v \in Seq(A), NEW c \in A
        PROVE  Scan([values |-> R.values, value |-> v, plain |-> TRUE], c)
                  = With(Append(v, IF c = "n" THEN LF ELSE c))
    BY DEF Scan
  <1>5. ASSUME NEW v \in Seq(A), NEW c \in A, c # "\\", c # Semicolon
        PROVE  Scan(With(v), c) = With(Append(v, c))
    BY <1>5 DEF Scan
  <1> HIDE DEF R, With
  <1>6. None \in T
    <2>1. Marked(None) = None /\ l \o None = l /\ R.value \o None = R.value /\ None \in Seq(A)
      <3>1. Marked(None) = None
        BY MarkedIs
      <3>. QED
        BY <1>1, <3>1, NothingBefore, OneMore
    <2>. QED
      BY <1>2, <2>1 DEF R
  <1>7. ASSUME NEW t \in Seq(A), NEW x \in A, t \in T PROVE Append(t, x) \in T
    <2> DEFINE k == l \o Marked(t)
               v == R.value \o t
    <2>1. /\ k \in Seq(A) /\ v \in Seq(A) /\ Scanned(k) = With(v) /\ Append(t, x) \in Seq(A)
          /\ R.value \o Append(t, x) = Append(v, x)
      <3>1. Marked(t) \in Seq(A)
        BY MarkedIs
      <3>2. Scanned(k) = With(v)
        BY <1>7
      <3>3. R.value \in Seq(A) /\ Append(t, x) \in Seq(A) /\ R.value \o Append(t, x) = Append(v, x)
        <4> DEFINE q == R.value
        <4>1. q \in Seq(A)
          BY <1>1
        <4> HIDE DEF q
        <4>2. q \o Append(t, x) = Append(q \o t, x)
          BY <4>1
        <4>. QED
          BY <4>1, <4>2, OneMore DEF q
      <3>4. k \in Seq(A) /\ v \in Seq(A)
        BY <1>1, <3>1
      <3> HIDE DEF k, v
      <3>. QED
        BY <3>2, <3>3, <3>4
    <2>2. l \o Marked(Append(t, x)) = k \o Mark(x)
      <3>1. Marked(t) \in Seq(A) /\ Marked(Append(t, x)) = Marked(t) \o Mark(x)
        BY MarkedIs
      <3>2. Mark(x) \in Seq(A) /\ l \in Seq(A)
        BY <1>0 DEF Mark
      <3>3. \A a, b, c \in Seq(A) : a \o (b \o c) = (a \o b) \o c
        OBVIOUS
      <3>4. l \o (Marked(t) \o Mark(x)) = (l \o Marked(t)) \o Mark(x)
        BY <3>1, <3>2, <3>3, Zenon
      <3>. QED
        BY <3>1, <3>4, Zenon
    <2> HIDE DEF k, v
    <2>3. \A s \in Seq(A), c \in A : Scanned(Append(s, c)) = Scan(Scanned(s), c) /\ Append(s, c) \in Seq(A)
      BY <1>0, ScannedGrows
    <2>4. CASE x \notin {"\\", Comma, Semicolon, LF}
      <3>1. Mark(x) = <<x>> /\ k \o <<x>> = Append(k, x)
        BY <2>1, <2>4 DEF Mark
      <3>2. Scanned(Append(k, x)) = With(Append(v, x))
        BY <1>5, <2>1, <2>3, <2>4
      <3>. QED
        BY <2>1, <2>2, <3>1, <3>2
    <2>5. ASSUME NEW y \in A, Mark(x) = <<"\\", y>>, x = IF y = "n" THEN LF ELSE y
          PROVE  Scanned(k \o Mark(x)) = With(Append(v, x))
      <3>1. k \o <<"\\", y>> = Append(Append(k, "\\"), y) /\ Append(k, "\\") \in Seq(A)
        BY <1>0, <2>1
      <3>2. Scanned(Append(k, "\\")) = [values |-> R.values, value |-> v, plain |-> TRUE]
        BY <1>0, <1>3, <2>1, <2>3
      <3>3. Scanned(Append(Append(k, "\\"), y)) = Scan(Scanned(Append(k, "\\")), y)
        BY <2>3, <3>1
      <3>. QED
        BY <1>4, <2>1, <2>5, <3>1, <3>2, <3>3
    <2>6. CASE x \in {"\\", Comma, Semicolon}
      <3>1. Mark(x) = <<"\\", x>> /\ x # "n"
        BY <2>6, Signs DEF Mark
      <3>. QED
        BY <2>1, <2>2, <2>5, <3>1
    <2>7. CASE x = LF
      <3>1. Mark(x) = <<"\\", "n">>
        BY <2>7, Signs DEF Mark
      <3>. QED
        BY <1>0, <2>1, <2>2, <2>5, <2>7, <3>1
    <2>. QED
      BY <2>4, <2>6, <2>7
  <1> HIDE DEF T
  <1>8. \A t \in Seq(A) : t \in T
    BY <1>6, <1>7, AllTexts
  <1>9. Scanned(l \o Marked(u)) = With(R.value \o u)
    BY <1>8 DEF T
  <1>10. l \o Marked(u) \in Seq(A)
    BY MarkedIs
  <1>. QED
    BY <1>1, <1>9, <1>10 DEF R, With

\* A bare semicolon ends a value.
LEMMA SemicolonEnds ==
    ASSUME NEW A, LF \in A, Semicolon \in A, NEW l \in Seq(A), Scanned(l).plain = FALSE
    PROVE  /\ Append(l, Semicolon) \in Seq(A)
           /\ Scanned(Append(l, Semicolon)).plain = FALSE
           /\ Len(Scanned(Append(l, Semicolon)).values) = Len(Scanned(l).values) + 1
  <1> DEFINE R == Scanned(l)
  <1>1. R \in Scans(A) /\ Scanned(Append(l, Semicolon)) = Scan(R, Semicolon)
    BY ScannedGrows
  <1>2. R.plain = FALSE
    OBVIOUS
  <1> HIDE DEF R
  <1>3. Scan(R, Semicolon) = [values |-> Append(R.values, R.value), value |-> None, plain |-> FALSE]
    BY <1>1, <1>2, Signs DEF Scan, Scans
  <1>4. R.values \in Seq(Seq(A)) /\ R.value \in Seq(A)
    BY <1>1 DEF Scans
  <1>5. Len(Append(R.values, R.value)) = Len(R.values) + 1
    BY <1>4
  <1>. QED
    BY <1>1, <1>3, <1>5 DEF R

-----------------------------------------------------------------------------
(* Where a text falls apart.                                               *)

Uncut == [pieces |-> <<>>, piece |-> None]
Pieced(A) == [pieces : Seq(Seq(A)), piece : Seq(A)]

LEMMA CutType ==
    ASSUME NEW A, NEW gaps, NEW r \in Pieced(A), NEW c \in A
    PROVE  Cut(r, c, gaps) \in Pieced(A)
  <1>1. r.pieces \in Seq(Seq(A)) /\ r.piece \in Seq(A) /\ r = [pieces |-> r.pieces, piece |-> r.piece]
    BY DEF Pieced
  <1>2. CASE c \notin gaps
    <2>1. Cut(r, c, gaps) = [pieces |-> r.pieces, piece |-> Append(r.piece, c)]
      BY <1>1, <1>2 DEF Cut
    <2>2. Append(r.piece, c) \in Seq(A)
      BY <1>1
    <2>. QED
      BY <1>1, <2>1, <2>2 DEF Pieced
  <1>3. CASE c \in gaps /\ r.piece = None
    BY <1>3 DEF Cut
  <1>4. CASE c \in gaps /\ r.piece # None
    <2>1. Cut(r, c, gaps) = [pieces |-> Append(r.pieces, r.piece), piece |-> None]
      BY <1>4 DEF Cut
    <2>2. Append(r.pieces, r.piece) \in Seq(Seq(A)) /\ None \in Seq(A)
      BY <1>1 DEF None
    <2>. QED
      BY <2>1, <2>2 DEF Pieced
  <1>. QED
    BY <1>2, <1>3, <1>4

\* The run of the cut over a text.
CutRun(A, gaps, line, f) ==
    /\ f \in [0..Len(line) -> Pieced(A)] /\ f[0] = Uncut
    /\ \A i \in 1..Len(line) : f[i] = Cut(f[i - 1], line[i], gaps)

LEMMA CutsIs ==
    ASSUME NEW A, NEW gaps, NEW line \in Seq(A)
    PROVE  \E f : CutRun(A, gaps, line, f) /\ Cuts(line, gaps) = f[Len(line)]
  <1> DEFINE n == Len(line)
             V == Pieced(A)
             step == [p \in (1..n) \X V |-> Cut(p[2], line[p[1]], gaps)]
             P(h) == h = [i \in 0..n |-> IF i = 0 THEN Uncut ELSE Cut(h[i - 1], line[i], gaps)]
  <1>1. n \in Nat /\ Uncut \in V /\ \A i \in 1..n : line[i] \in A
    <2>1. None \in Seq(A) /\ <<>> \in Seq(Seq(A))
      BY DEF None
    <2>. QED
      BY <2>1 DEF Uncut, Pieced
  <1>2. \A i \in 1..n : \A x \in V : step[<<i, x>>] = Cut(x, line[i], gaps) /\ Cut(x, line[i], gaps) \in V
    BY <1>1, CutType
  <1>3. \A i \in 1..n : \A x \in V : step[<<i, x>>] \in V
    BY <1>2
  <1> HIDE DEF n, V, step
  <1>4. PICK f \in [0..n -> V] : f[0] = Uncut /\ \A i \in 1..n : f[i] = step[<<i, f[i - 1]>>]
    <2>1. Along(V, Uncut, n, step)
      BY <1>1, <1>3, Recursion
    <2>. QED
      BY <2>1 DEF Along
  <1>5. ASSUME NEW i \in 1..n PROVE f[i] = Cut(f[i - 1], line[i], gaps)
    <2>1. f[i - 1] \in V
      BY <1>1, <1>4
    <2>. QED
      BY <1>2, <1>4, <2>1
  <1>6. P(f)
    <2>1. f = [i \in 0..n |-> f[i]]
      BY <1>4
    <2>2. \A i \in 0..n : f[i] = IF i = 0 THEN Uncut ELSE Cut(f[i - 1], line[i], gaps)
      BY <1>1, <1>4, <1>5
    <2>. QED
      BY <2>1, <2>2
  <1> DEFINE h == CHOOSE g : P(g)
  <1>7. Cuts(line, gaps) = h[n]
    BY DEF Cuts, n, Uncut
  <1>8. P(h)
    <2> HIDE DEF P
    <2>. QED
      BY <1>6, Zenon
  <1>9. \A i \in 0..n : h[i] = IF i = 0 THEN Uncut ELSE Cut(h[i - 1], line[i], gaps)
    <2> HIDE DEF h
    <2>. QED
      BY <1>8
  <1> HIDE DEF h, P
  <1> DEFINE S == {m \in Nat : m <= n => h[m] = f[m]}
  <1>10. 0 \in S
    BY <1>1, <1>4, <1>9
  <1>11. ASSUME NEW m \in Nat, m \in S PROVE m + 1 \in S
    <2> SUFFICES ASSUME m + 1 <= n PROVE h[m + 1] = f[m + 1]
      OBVIOUS
    <2>1. h[m] = f[m] /\ m + 1 \in 1..n /\ m + 1 \in 0..n /\ (m + 1) - 1 = m /\ m + 1 # 0
      BY <1>1, <1>11
    <2>2. h[m + 1] = Cut(h[m], line[m + 1], gaps)
      BY <1>9, <2>1
    <2>3. f[m + 1] = Cut(f[m], line[m + 1], gaps)
      BY <1>5, <2>1
    <2>. QED
      BY <2>1, <2>2, <2>3
  <1> HIDE DEF S
  <1>12. n \in S
    BY <1>1, <1>10, <1>11, AllNaturals
  <1>13. h[n] = f[n]
    BY <1>1, <1>12 DEF S
  <1>. QED
    BY <1>4, <1>5, <1>7, <1>13 DEF n, V, CutRun

LEMMA CutsGrow ==
    ASSUME NEW A, NEW gaps
    PROVE  /\ Cuts(None, gaps) = Uncut
           /\ \A l \in Seq(A) : Cuts(l, gaps) \in Pieced(A)
           /\ \A l \in Seq(A), c \in A : Cuts(Append(l, c), gaps) = Cut(Cuts(l, gaps), c, gaps)
  <1>1. Cuts(None, gaps) = Uncut
    <2>1. None \in Seq(A) /\ Len(None) = 0
      BY DEF None
    <2>2. PICK f : CutRun(A, gaps, None, f) /\ Cuts(None, gaps) = f[Len(None)]
      BY <2>1, CutsIs
    <2>. QED
      BY <2>1, <2>2 DEF CutRun
  <1>2. ASSUME NEW l \in Seq(A) PROVE Cuts(l, gaps) \in Pieced(A)
    <2>1. PICK f : CutRun(A, gaps, l, f) /\ Cuts(l, gaps) = f[Len(l)]
      BY CutsIs
    <2>. QED
      BY <2>1 DEF CutRun
  <1>3. ASSUME NEW l \in Seq(A), NEW c \in A PROVE Cuts(Append(l, c), gaps) = Cut(Cuts(l, gaps), c, gaps)
    <2> DEFINE n == Len(l)
               t == Append(l, c)
    <2>1. /\ n \in Nat /\ t \in Seq(A) /\ Len(t) = n + 1 /\ t[n + 1] = c
          /\ \A i \in 1..n : t[i] = l[i]
      BY OneMore
    <2> HIDE DEF t
    <2>2. PICK f : CutRun(A, gaps, l, f) /\ Cuts(l, gaps) = f[n]
      BY CutsIs
    <2>3. PICK g : CutRun(A, gaps, t, g) /\ Cuts(t, gaps) = g[Len(t)]
      BY <2>1, CutsIs
    <2>4. f[0] = Uncut /\ \A i \in 1..n : f[i] = Cut(f[i - 1], l[i], gaps)
      BY <2>2 DEF CutRun
    <2>5. g[0] = Uncut /\ \A i \in 1..n + 1 : g[i] = Cut(g[i - 1], t[i], gaps)
      BY <2>1, <2>3 DEF CutRun
    <2> HIDE DEF n
    <2> DEFINE S == {m \in Nat : m <= n => g[m] = f[m]}
    <2>6. 0 \in S
      BY <2>4, <2>5
    <2>7. ASSUME NEW m \in Nat, m \in S PROVE m + 1 \in S
      <3> SUFFICES ASSUME m + 1 <= n PROVE g[m + 1] = f[m + 1]
        OBVIOUS
      <3>1. m + 1 \in 1..n /\ m + 1 \in 1..n + 1 /\ (m + 1) - 1 = m /\ g[m] = f[m]
        BY <2>1, <2>7
      <3>2. f[m + 1] = Cut(f[m], l[m + 1], gaps)
        BY <2>4, <3>1
      <3>3. g[m + 1] = Cut(g[m], t[m + 1], gaps)
        BY <2>5, <3>1
      <3>. QED
        BY <2>1, <3>1, <3>2, <3>3
    <2> HIDE DEF S
    <2>8. n \in S
      BY <2>1, <2>6, <2>7, AllNaturals
    <2>9. g[n] = f[n] /\ n + 1 \in 1..n + 1 /\ (n + 1) - 1 = n
      BY <2>1, <2>8 DEF S
    <2>10. g[n + 1] = Cut(g[n], c, gaps)
      BY <2>1, <2>5, <2>9
    <2>. QED
      BY <2>1, <2>2, <2>3, <2>9, <2>10 DEF t
  <1>. QED
    BY <1>1, <1>2, <1>3

Breaks == {CR, LF}

\* A text t that has the lines of s and one more.
OneLineMore(A, s, t, line) ==
    /\ t \in Seq(A) /\ Cuts(t, Breaks).piece = None
    /\ Lines(s) \in Seq(Seq(A)) /\ Lines(t) = Append(Lines(s), line)

\* A line is cut off whole.
LEMMA LineCuts ==
    ASSUME NEW A, NEW s \in Seq(A), NEW head \in A, head \notin Breaks, CR \in A, LF \in A,
           NEW v \in Seq(A \ Breaks), Cuts(s, Breaks).piece = None
    PROVE  OneLineMore(A, s, s \o Line(head, v), <<head>> \o v)
  <1> DEFINE gaps == Breaks
             B == A \ gaps
             k == Append(s, head)
             done == Lines(s)
             Under(p) == [pieces |-> done, piece |-> p]
             T == {t \in Seq(B) : Cuts(k \o t, gaps) = Under(<<head>> \o t)}
  <1>1. \A t \in Seq(A), c \in A : Cuts(Append(t, c), gaps) = Cut(Cuts(t, gaps), c, gaps)
    BY CutsGrow
  <1>2. done \in Seq(Seq(A)) /\ Cuts(s, gaps) = Under(None)
    <2>1. Cuts(s, gaps) \in Pieced(A)
      BY CutsGrow
    <2>2. Cuts(s, gaps).piece = None
      OBVIOUS
    <2>3. done = Cuts(s, gaps).pieces
      BY DEF Lines, Pieces, Breaks
    <2> HIDE DEF done
    <2>. QED
      BY <2>1, <2>2, <2>3 DEF Pieced
  <1>3. ASSUME NEW p \in Seq(A), NEW c \in A, c \notin gaps PROVE Cut(Under(p), c, gaps) = Under(Append(p, c))
    BY <1>3 DEF Cut
  <1>4. k \in Seq(A) /\ k \o None = k /\ <<head>> \o None = <<head>> /\ None \in Seq(B)
        /\ <<head>> \in Seq(A) /\ Append(None, head) = <<head>> /\ None \in Seq(A)
    BY DEF None
  <1>5. head \in A /\ head \notin gaps /\ CR \in gaps /\ LF \in gaps /\ CR \in A /\ LF \in A
    BY DEF Breaks
  <1>6. \A c \in B : c \in A /\ c \notin gaps
    OBVIOUS
  <1>7. \A t \in Seq(B) : t \in Seq(A)
    OBVIOUS
  <1>8. ASSUME NEW p \in Seq(A), p # None
        PROVE  Cut(Cut(Under(p), CR, gaps), LF, gaps) = [pieces |-> Append(done, p), piece |-> None]
    <2>1. Cut(Under(p), CR, gaps) = [pieces |-> Append(done, p), piece |-> None]
      BY <1>5, <1>8 DEF Cut
    <2>. QED
      BY <1>5, <2>1 DEF Cut
  <1> HIDE DEF gaps, B, done, Under
  <1>9. Cuts(k, gaps) = Under(<<head>>)
    <2>1. Cuts(k, gaps) = Cut(Cuts(s, gaps), head, gaps)
      BY <1>1, <1>5
    <2>2. Cut(Under(None), head, gaps) = Under(Append(None, head))
      BY <1>3, <1>4, <1>5
    <2>. QED
      BY <1>2, <1>4, <2>1, <2>2
  <1> HIDE DEF k
  <1>10. None \in T
    BY <1>4, <1>9
  <1>11. ASSUME NEW t \in Seq(B), NEW x \in B, t \in T PROVE Append(t, x) \in T
    <2>1. /\ k \o t \in Seq(A) /\ <<head>> \o t \in Seq(A) /\ Append(t, x) \in Seq(B) /\ x \in A /\ x \notin gaps
          /\ k \o Append(t, x) = Append(k \o t, x) /\ <<head>> \o Append(t, x) = Append(<<head>> \o t, x)
      <3>1. t \in Seq(A) /\ x \in A /\ x \notin gaps
        BY <1>6, <1>7
      <3>. QED
        BY <1>4, <3>1
    <2>2. Cuts(k \o t, gaps) = Under(<<head>> \o t)
      BY <1>11
    <2>3. Cuts(Append(k \o t, x), gaps) = Under(Append(<<head>> \o t, x))
      BY <1>1, <1>3, <2>1, <2>2
    <2>. QED
      BY <2>1, <2>3
  <1> HIDE DEF T
  <1>12. \A t \in Seq(B) : t \in T
    BY <1>10, <1>11, AllTexts
  <1>13. Cuts(k \o v, gaps) = Under(<<head>> \o v)
    BY <1>12 DEF T, B, gaps
  <1>14. v \in Seq(A) /\ k \o v \in Seq(A) /\ <<head>> \o v \in Seq(A) /\ <<head>> \o v # None
    <2>1. v \in Seq(A)
      OBVIOUS
    <2>. QED
      BY <1>4, <2>1 DEF None
  <1>15. s \o Line(head, v) = Append(Append(k \o v, CR), LF) /\ Append(k \o v, CR) \in Seq(A)
         /\ Append(Append(k \o v, CR), LF) \in Seq(A)
    <2>1. v \in Seq(A) /\ s \in Seq(A)
      BY <1>14
    <2>2. s \o (<<head>> \o v \o <<CR, LF>>) = (Append(s, head) \o v) \o <<CR, LF>>
      <3>1. <<CR, LF>> \in Seq(A)
        BY <1>5
      <3>2. s \o <<head>> = Append(s, head)
        BY <2>1, OneMore
      <3>3. <<head>> \o v \in Seq(A) /\ (<<head>> \o v) \o <<CR, LF>> \in Seq(A)
        BY <1>14, <3>1
      <3>4. s \o ((<<head>> \o v) \o <<CR, LF>>) = (s \o (<<head>> \o v)) \o <<CR, LF>>
        BY <2>1, <3>1, <3>3, Joins
      <3>5. s \o (<<head>> \o v) = (s \o <<head>>) \o v
        <4> DEFINE h == <<head>>
        <4>1. h \in Seq(A)
          BY <1>4
        <4> HIDE DEF h
        <4>2. s \o (h \o v) = (s \o h) \o v
          BY <2>1, <4>1, Joins
        <4>. QED
          BY <4>2 DEF h
      <3>. QED
        BY <3>2, <3>4, <3>5
    <2>3. (k \o v) \o <<CR, LF>> = Append(Append(k \o v, CR), LF)
      <3> DEFINE q == k \o v
      <3>1. q \in Seq(A)
        BY <1>14
      <3> HIDE DEF q
      <3>. QED
        BY <1>5, <3>1
    <2>4. Append(k \o v, CR) \in Seq(A) /\ Append(Append(k \o v, CR), LF) \in Seq(A)
      BY <1>5, <1>14, OneMore
    <2>. QED
      BY <2>2, <2>3, <2>4 DEF Line, k
  <1>16. Cuts(s \o Line(head, v), gaps) = [pieces |-> Append(done, <<head>> \o v), piece |-> None]
    <2>1. Cuts(Append(k \o v, CR), gaps) = Cut(Under(<<head>> \o v), CR, gaps)
      BY <1>1, <1>5, <1>13, <1>14
    <2>2. Cuts(Append(Append(k \o v, CR), LF), gaps) = Cut(Cut(Under(<<head>> \o v), CR, gaps), LF, gaps)
      BY <1>1, <1>5, <1>15, <2>1
    <2>. QED
      BY <1>8, <1>14, <1>15, <2>2
  <1>17. s \o Line(head, v) \in Seq(A)
    BY <1>15
  <1>18. Cuts(s \o Line(head, v), gaps).piece = None
         /\ Cuts(s \o Line(head, v), gaps).pieces = Append(done, <<head>> \o v)
    BY <1>16
  <1>. QED
    BY <1>2, <1>17, <1>18 DEF gaps, done, Lines, Pieces, Breaks, OneLineMore

\* A value written alone is read as it was meant, and stays on its line.
LEMMA EscapeReads ==
    ASSUME NEW A, Written \subseteq A, CR \in A, NEW s \in Seq(A)
    PROVE  /\ escapeVCardValue(s) \in Seq(A \ Breaks)
           /\ Values(escapeVCardValue(s)) = <<Folded(s)>>
  <1> DEFINE u == Folded(s)
  <1>1. escapeVCardValue(s) = Marked(u) /\ u \in Seq(A \ {CR})
    BY EscapeIs
  <1>2. LF \in A
    BY DEF Written
  <1>3. Marked(u) \in Seq(A \ {CR, LF})
    BY <1>1, MarkedIsOneLine
  <1>4. u \in Seq(A)
    BY <1>2, FoldedIs
  <1> HIDE DEF u
  <1>5. None \in Seq(A) /\ Scanned(None) = Start
    BY <1>2, ScannedGrows DEF None
  <1>6. Start.plain = FALSE /\ Start.values = <<>> /\ Start.value = None
    BY DEF Start
  <1>7. Scanned(None \o Marked(u)) = [values |-> <<>>, value |-> None \o u, plain |-> FALSE]
    <2>1. Scanned(None).plain = FALSE
      BY <1>5, <1>6
    <2>2. Scanned(None \o Marked(u)) = [values |-> Scanned(None).values,
                                        value |-> Scanned(None).value \o u, plain |-> FALSE]
      BY <1>4, <1>5, <2>1, MarkedReads
    <2>. QED
      BY <1>5, <1>6, <2>2
  <1>8. None \o Marked(u) = Marked(u) /\ None \o u = u
    <2>1. Marked(u) \in Seq(A)
      BY <1>4, MarkedIs
    <2>. QED
      BY <1>4, <2>1, NothingBefore
  <1>9. Scanned(Marked(u)).values = <<>> /\ Scanned(Marked(u)).value = u
    BY <1>7, <1>8
  <1>10. Values(Marked(u)) = Append(<<>>, u)
    BY <1>9 DEF Values
  <1>11. Append(<<>>, u) = <<u>>
    OBVIOUS
  <1>. QED
    BY <1>1, <1>3, <1>10, <1>11 DEF u, Breaks

\* A value, then a bare semicolon and another, then three more.
LEMMA FiveValues ==
    ASSUME NEW A, Written \subseteq A, NEW u \in Seq(A), NEW w \in Seq(A)
    PROVE  Len(Values(((Marked(u) \o <<Semicolon>>) \o Marked(w)) \o Nothing)) = 5
  <1> DEFINE Good(l, n) == /\ l \in Seq(A) /\ Scanned(l).plain = FALSE /\ Scanned(l).values \in Seq(Seq(A))
                           /\ Len(Scanned(l).values) = n
  <1>0. LF \in A /\ Semicolon \in A
    BY DEF Written
  <1>1. ASSUME NEW l, NEW n \in Nat, Good(l, n) PROVE Good(Append(l, Semicolon), n + 1)
    <2>1. l \in Seq(A) /\ Scanned(l).plain = FALSE /\ Len(Scanned(l).values) = n
      BY <1>1
    <2>2. /\ Append(l, Semicolon) \in Seq(A) /\ Scanned(Append(l, Semicolon)).plain = FALSE
          /\ Len(Scanned(Append(l, Semicolon)).values) = n + 1
      BY <1>0, <2>1, SemicolonEnds
    <2>3. Scanned(Append(l, Semicolon)) \in Scans(A)
      BY <1>0, <2>2, ScannedGrows
    <2>4. Scanned(Append(l, Semicolon)).values \in Seq(Seq(A))
      BY <2>3 DEF Scans
    <2>. QED
      BY <2>2, <2>4
  <1>2. ASSUME NEW l, NEW n \in Nat, Good(l, n), NEW t \in Seq(A) PROVE Good(l \o Marked(t), n)
    <2>1. l \in Seq(A) /\ Scanned(l).plain = FALSE
      BY <1>2
    <2>2. /\ l \o Marked(t) \in Seq(A) /\ Scanned(l).values \in Seq(Seq(A))
          /\ Scanned(l \o Marked(t)) = [values |-> Scanned(l).values,
                                        value |-> Scanned(l).value \o t, plain |-> FALSE]
      BY <2>1, MarkedReads
    <2>3. Scanned(l \o Marked(t)).values = Scanned(l).values /\ Scanned(l \o Marked(t)).plain = FALSE
      BY <2>2
    <2>. QED
      BY <1>2, <2>2, <2>3
  <1>3. Good(None, 0)
    <2>1. None \in Seq(A) /\ Scanned(None) = Start
      BY <1>0, ScannedGrows DEF None
    <2>2. Start.plain = FALSE /\ Start.values \in Seq(Seq(A)) /\ Len(Start.values) = 0
      BY DEF Start
    <2>. QED
      BY <2>1, <2>2
  <1>4. \A l : Good(l, 4) => Len(Values(l)) = 5
    <2> SUFFICES ASSUME NEW l, Good(l, 4) PROVE Len(Values(l)) = 5
      OBVIOUS
    <2> DEFINE vs == Scanned(l).values
    <2>1. vs \in Seq(Seq(A)) /\ Len(vs) = 4
      OBVIOUS
    <2>2. Values(l) = Append(vs, Scanned(l).value)
      BY DEF Values
    <2>3. Scanned(l) \in Scans(A)
      BY <1>0, ScannedGrows
    <2>4. Scanned(l).value \in Seq(A)
      BY <2>3 DEF Scans
    <2> DEFINE x == Scanned(l).value
    <2> HIDE DEF vs, x
    <2>5. Len(Append(vs, x)) = Len(vs) + 1
      <3>1. x \in Seq(A)
        BY <2>4 DEF x
      <3> DEFINE S == Seq(A)
      <3>2. vs \in Seq(S) /\ x \in S
        BY <2>1, <3>1
      <3> HIDE DEF S
      <3>. QED
        BY <3>2
    <2>. QED
      BY <2>1, <2>2, <2>5 DEF x
  <1>5. Marked(u) \in Seq(A) /\ Marked(w) \in Seq(A)
    BY MarkedIs
  <1>6. \A l : Good(l, 0) \/ Good(l, 1) => l \in Seq(A)
    OBVIOUS
  <1> HIDE DEF Good
  <1> DEFINE a == Marked(u)
             b == Append(a, Semicolon)
             d == b \o Marked(w)
  <1>7. Good(a, 0)
    <2>1. None \o a = a
      BY <1>5, NothingBefore
    <2>. QED
      BY <1>2, <1>3, <2>1
  <1>8. Good(b, 1)
    <2> HIDE DEF a
    <2>1. 0 + 1 = 1 /\ 0 \in Nat
      OBVIOUS
    <2>. QED
      BY <1>1, <1>7, <2>1
  <1>9. Good(d, 1)
    <2> HIDE DEF b
    <2>. QED
      BY <1>2, <1>8
  <1>10. a \o <<Semicolon>> = b
    BY <1>0, <1>5, OneMore
  <1> HIDE DEF a, b, d
  <1>11. d \o Nothing = Append(Append(Append(d, Semicolon), Semicolon), Semicolon)
    <2>1. d \in Seq(A)
      BY <1>6, <1>9
    <2>. QED
      BY <1>0, <2>1 DEF Nothing
  <1>12. Good(Append(Append(Append(d, Semicolon), Semicolon), Semicolon), 4)
    <2>1. 1 + 1 = 2 /\ 2 + 1 = 3 /\ 3 + 1 = 4
      OBVIOUS
    <2>2. Good(Append(d, Semicolon), 2)
      BY <1>1, <1>9, <2>1
    <2>3. Good(Append(Append(d, Semicolon), Semicolon), 3)
      BY <1>1, <2>1, <2>2
    <2>. QED
      BY <1>1, <2>1, <2>3
  <1>13. Len(Values(d \o Nothing)) = 5
    BY <1>4, <1>11, <1>12
  <1>. QED
    BY <1>10, <1>13 DEF a, b, d

\* Whatever the name, its line has the five parts a reader expects.
LEMMA NameIs ==
    ASSUME NEW A, Written \subseteq A, CR \in A, Space \in A, NEW s \in Seq(A)
    PROVE  structuredName(s) \in Seq(A \ Breaks) /\ Len(Values(structuredName(s))) = 5
  <1> DEFINE B == A \ Breaks
             Five(a, b) == ((escapeVCardValue(a) \o <<Semicolon>>) \o escapeVCardValue(b)) \o Nothing
  <1>0. LF \in A /\ Semicolon \in A /\ Semicolon \in B
    BY Signs DEF Written, Breaks
  <1>1. ASSUME NEW a \in Seq(A), NEW b \in Seq(A)
        PROVE  Five(a, b) \in Seq(B) /\ Len(Values(Five(a, b))) = 5
    <2>1. escapeVCardValue(a) \in Seq(B) /\ escapeVCardValue(b) \in Seq(B)
      BY EscapeReads
    <2>2. <<Semicolon>> \in Seq(B) /\ Nothing \in Seq(B)
      BY <1>0 DEF Nothing
    <2>3. escapeVCardValue(a) = Marked(Folded(a)) /\ escapeVCardValue(b) = Marked(Folded(b))
      BY EscapeIs
    <2>4. Folded(a) \in Seq(A) /\ Folded(b) \in Seq(A)
      BY <1>0, FoldedIs
    <2>5. Len(Values(((Marked(Folded(a)) \o <<Semicolon>>) \o Marked(Folded(b))) \o Nothing)) = 5
      BY <2>4, FiveValues
    <2>6. Five(a, b) \in Seq(B)
      <3> HIDE DEF B
      <3>. QED
        BY <2>1, <2>2
    <2>. QED
      BY <2>3, <2>5, <2>6
  <1> DEFINE words == Pieces(s \o <<Space>>, Blank)
             n == Len(words)
             joined == [i \in 1..(n - 1) |-> IF i = 1 THEN words[1] ELSE <<Space>> \o words[i]]
             given == FlattenSeq(joined)
  <1>2. words \in Seq(Seq(A)) /\ n \in Nat
    <2>1. s \o <<Space>> \in Seq(A)
      OBVIOUS
    <2>2. Cuts(s \o <<Space>>, Blank) \in Pieced(A)
      BY <2>1, CutsGrow
    <2>3. Pieces(s \o <<Space>>, Blank) \in Seq(Seq(A))
      BY <2>2 DEF Pieced, Pieces
    <2>. QED
      BY <2>3
  <1>3. CASE n < 2
    <2>1. structuredName(s) = <<Semicolon>> \o escapeVCardValue(s) \o Nothing
      BY <1>3 DEF structuredName
    <2>2. escapeVCardValue(None) = None /\ None \in Seq(A)
      <3>1. None \in Seq(A)
        BY DEF None
      <3>2. Folded(None) = None /\ Marked(None) = None
        BY <1>0, FoldedIs, MarkedIs
      <3>. QED
        BY <3>1, <3>2, EscapeIs
    <2>3. None \o <<Semicolon>> = <<Semicolon>>
      <3>1. <<Semicolon>> \in Seq(A)
        BY <1>0
      <3>. QED
        BY <3>1, NothingBefore
    <2>4. structuredName(s) = Five(None, s)
      BY <2>1, <2>2, <2>3
    <2> HIDE DEF Five
    <2>. QED
      BY <1>1, <2>2, <2>4
  <1>4. CASE ~(n < 2)
    <2>1. structuredName(s) = Five(Last(words), given)
      BY <1>4 DEF structuredName
    <2> HIDE DEF Five, words, given
    <2>2. Last(words) \in Seq(A)
      BY <1>2, <1>4 DEF Last
    <2>3. given \in Seq(A)
      <3>1. \A i \in 1..(n - 1) : words[i] \in Seq(A)
        BY <1>2
      <3>2. words[1] \in Seq(A)
        BY <1>2, <1>4
      <3>3. \A i \in 1..(n - 1) : (IF i = 1 THEN words[1] ELSE <<Space>> \o words[i]) \in Seq(A)
        BY <3>1, <3>2
      <3>4. joined \in [1..(n - 1) -> Seq(A)] /\ n - 1 \in Nat
        BY <1>2, <1>4, <3>3
      <3> HIDE DEF joined
      <3>5. joined \in Seq(Seq(A))
        BY <3>4
      <3>. QED
        BY <3>5, FlatGrows DEF given
    <2>. QED
      BY <1>1, <2>1, <2>2, <2>3
  <1>. QED
    BY <1>3, <1>4

-----------------------------------------------------------------------------
(* What is in a file: its lines, and the value of each.                    *)

Says(c, h) == IF h \in {"BEGIN", "END"} THEN None
              ELSE IF h = "N" THEN structuredName(c.FN) ELSE escapeVCardValue(c[h])

Entry(c, h) == <<h>> \o Says(c, h)

Filed(A, c, s, H) ==
    /\ s \in Seq(A) /\ Cuts(s, Breaks).piece = None /\ Lines(s) \in Seq(Seq(A))
    /\ H \subseteq A /\ \A h \in H : Says(c, h) \in Seq(A \ Breaks)
    /\ \A i \in DOMAIN Lines(s) : \E h \in H : Lines(s)[i] = Entry(c, h)
    /\ \A h \in H : \E i \in DOMAIN Lines(s) : Lines(s)[i] = Entry(c, h)
    /\ \A i, k \in DOMAIN Lines(s) : Lines(s)[i][1] = Lines(s)[k][1] => i = k

LEMMA HeadFirst ==
    ASSUME NEW A, NEW h \in A, NEW v \in Seq(A)
    PROVE  /\ <<h>> \o v \in Seq(A) /\ (<<h>> \o v)[1] = h /\ Tail(<<h>> \o v) = v
  <1> DEFINE l == <<h>> \o v
  <1>1. l \in Seq(A) /\ Len(l) = Len(v) + 1 /\ l[1] = h /\ \A i \in 1..Len(v) : l[i + 1] = v[i]
    OBVIOUS
  <1> HIDE DEF l
  <1>2. Tail(l) \in Seq(A) /\ Len(Tail(l)) = Len(v) /\ \A i \in 1..Len(v) : Tail(l)[i] = v[i]
    BY <1>1
  <1>3. Tail(l) = v
    BY <1>2
  <1>. QED
    BY <1>1, <1>3 DEF l

LEMMA NothingFiled == ASSUME NEW A, NEW c PROVE Filed(A, c, None, {})
  <1>1. Cuts(None, Breaks) = Uncut
    BY CutsGrow
  <1>2. Lines(None) = <<>> /\ Cuts(None, Breaks).piece = None
    BY <1>1 DEF Lines, Pieces, Uncut, Breaks
  <1>3. DOMAIN Lines(None) = {} /\ Lines(None) \in Seq(Seq(A)) /\ None \in Seq(A)
    <2> DEFINE L == Lines(None)
    <2>1. L = <<>>
      BY <1>2
    <2> HIDE DEF L
    <2>2. DOMAIN L = {} /\ L \in Seq(Seq(A))
      BY <2>1
    <2>. QED
      BY <2>2 DEF L, None
  <1>. QED
    BY <1>2, <1>3 DEF Filed

LEMMA LineFiled ==
    ASSUME NEW A, NEW c, NEW s, NEW H, Filed(A, c, s, H), CR \in A, LF \in A,
           NEW h \in A, h \notin H, h \notin Breaks, Says(c, h) \in Seq(A \ Breaks)
    PROVE  Filed(A, c, s \o Line(h, Says(c, h)), H \cup {h})
  <1> DEFINE v == Says(c, h)
             L == Lines(s)
             l == <<h>> \o v
             t == s \o Line(h, v)
             n == Len(L)
             K == H \cup {h}
  <1>1. t \in Seq(A) /\ Cuts(t, Breaks).piece = None /\ L \in Seq(Seq(A)) /\ Lines(t) = Append(L, l)
    <2>1. s \in Seq(A) /\ v \in Seq(A \ Breaks) /\ Cuts(s, Breaks).piece = None
      BY DEF Filed
    <2> HIDE DEF v
    <2>2. OneLineMore(A, s, s \o Line(h, v), <<h>> \o v)
      BY <2>1, LineCuts
    <2>. QED
      BY <2>2 DEF OneLineMore
  <1>2. v \in Seq(A) /\ \A g \in H : g \in A /\ Says(c, g) \in Seq(A)
    BY DEF Filed
  <1>3. l \in Seq(A) /\ l[1] = h /\ \A g \in H : Entry(c, g)[1] = g
    BY <1>2, HeadFirst DEF Entry
  <1>4. /\ \A i \in DOMAIN L : \E g \in H : L[i] = Entry(c, g)
        /\ \A g \in H : \E i \in DOMAIN L : L[i] = Entry(c, g)
        /\ \A i, k \in DOMAIN L : L[i][1] = L[k][1] => i = k
    BY DEF Filed
  <1>5. K \subseteq A /\ \A g \in K : Says(c, g) \in Seq(A \ Breaks)
    BY DEF Filed
  <1>6. l = Entry(c, h)
    BY DEF Entry
  <1> HIDE DEF L, l, t, v
  <1>7. /\ Lines(t) \in Seq(Seq(A)) /\ DOMAIN Lines(t) = 1..n + 1 /\ DOMAIN L = 1..n /\ n \in Nat
        /\ Lines(t)[n + 1] = l /\ \A i \in 1..n : Lines(t)[i] = L[i]
    BY <1>1, <1>3
  <1> HIDE DEF n
  <1>8. \A i \in 1..n : L[i][1] \in H
    <2> SUFFICES ASSUME NEW i \in 1..n PROVE L[i][1] \in H
      OBVIOUS
    <2>1. i \in DOMAIN L
      BY <1>7
    <2>2. PICK g \in H : L[i] = Entry(c, g)
      BY <1>4, <2>1
    <2>. QED
      BY <1>3, <2>2
  <1>9. ASSUME NEW i \in DOMAIN Lines(t) PROVE \E g \in K : Lines(t)[i] = Entry(c, g)
    <2>1. CASE i = n + 1
      BY <1>6, <1>7, <2>1
    <2>2. CASE i # n + 1
      <3>1. i \in 1..n
        BY <1>7, <2>2
      <3>2. i \in DOMAIN L /\ Lines(t)[i] = L[i]
        BY <1>7, <3>1
      <3>3. PICK g \in H : L[i] = Entry(c, g)
        BY <1>4, <3>2
      <3>. QED
        BY <3>2, <3>3
    <2>. QED
      BY <2>1, <2>2
  <1>10. ASSUME NEW g \in K PROVE \E i \in DOMAIN Lines(t) : Lines(t)[i] = Entry(c, g)
    <2>1. CASE g = h
      <3>1. n + 1 \in DOMAIN Lines(t)
        BY <1>7
      <3>. QED
        BY <1>6, <1>7, <2>1, <3>1
    <2>2. CASE g # h
      <3>1. PICK i \in 1..n : L[i] = Entry(c, g)
        BY <1>4, <1>7, <2>2
      <3>2. i \in DOMAIN Lines(t)
        BY <1>7
      <3>. QED
        BY <1>7, <3>1, <3>2
    <2>. QED
      BY <2>1, <2>2
  <1>11. ASSUME NEW i \in DOMAIN Lines(t), NEW k \in DOMAIN Lines(t), Lines(t)[i][1] = Lines(t)[k][1]
         PROVE  i = k
    <2>1. \A m \in DOMAIN Lines(t) : m = n + 1 \/ (m \in 1..n /\ Lines(t)[m] = L[m])
      BY <1>7
    <2>2. h \notin H
      OBVIOUS
    <2>3. Lines(t)[n + 1][1] = h
      BY <1>3, <1>7
    <2>4. \A m \in 1..n : Lines(t)[m][1] # h
      BY <1>7, <1>8, <2>2
    <2>5. CASE i \in 1..n /\ k \in 1..n
      <3>1. i \in DOMAIN L /\ k \in DOMAIN L /\ L[i] = Lines(t)[i] /\ L[k] = Lines(t)[k]
        BY <1>7, <2>5
      <3>. QED
        BY <1>4, <1>11, <3>1
    <2>. QED
      BY <1>11, <2>1, <2>3, <2>4, <2>5
  <1>12. Filed(A, c, t, K)
    BY <1>1, <1>5, <1>7, <1>9, <1>10, <1>11 DEF Filed
  <1>. QED
    BY <1>12 DEF t, v

\* What the reader finds under a head.
LEMMA ReadIs ==
    ASSUME NEW A, NEW c, NEW s, NEW H, Filed(A, c, s, H), NEW h
    PROVE  /\ h \in H => Read(s, h) = Values(Says(c, h))
           /\ h \notin H => Read(s, h) = <<None>>
  <1> DEFINE L == Lines(s)
             mine == {i \in DOMAIN L : L[i][1] = h}
  <1>1. /\ L \in Seq(Seq(A)) /\ H \subseteq A /\ \A g \in H : Says(c, g) \in Seq(A \ Breaks)
        /\ \A i \in DOMAIN L : \E g \in H : L[i] = Entry(c, g)
        /\ \A g \in H : \E i \in DOMAIN L : L[i] = Entry(c, g)
        /\ \A i, k \in DOMAIN L : L[i][1] = L[k][1] => i = k
    BY DEF Filed
  <1>2. ASSUME NEW g \in H PROVE Entry(c, g)[1] = g /\ Tail(Entry(c, g)) = Says(c, g)
    <2>1. g \in A /\ Says(c, g) \in Seq(A)
      BY <1>1
    <2>. QED
      BY <2>1, HeadFirst DEF Entry
  <1>3. Read(s, h) = IF mine = {} THEN <<None>> ELSE Values(Tail(L[Min(mine)]))
    BY DEF Read
  <1> HIDE DEF L
  <1>4. CASE h \in H
    <2>1. PICK i \in DOMAIN L : L[i] = Entry(c, h)
      BY <1>1, <1>4
    <2>2. L[i][1] = h /\ Tail(L[i]) = Says(c, h)
      BY <1>2, <1>4, <2>1
    <2>3. mine = {i}
      BY <1>1, <2>2
    <2>4. Min({i}) = i
      <3>1. i \in Nat
        BY <1>1
      <3>. QED
        BY <3>1 DEF Min
    <2> HIDE DEF mine
    <2>5. Read(s, h) = Values(Tail(L[i]))
      BY <1>3, <2>3, <2>4
    <2>. QED
      BY <1>4, <2>2, <2>5
  <1>5. CASE h \notin H
    <2>1. \A i \in DOMAIN L : L[i][1] # h
      BY <1>1, <1>2, <1>5
    <2>2. mine = {}
      BY <2>1
    <2> HIDE DEF mine
    <2>. QED
      BY <1>3, <1>5, <2>2
  <1>. QED
    BY <1>4, <1>5

Heads == {"BEGIN", "N", "FN", "ORG", "TITLE", "TEL", "END"}
Letters == Chars \cup Written \cup Heads
               \cup {CR, Space, "+", "Company", "Freelancer", "Student", "Attendee"}
Contacts(A) == [FN : Seq(A) \ {None}, ORG : Seq(A), TITLE : Seq(A), TEL : Seq(A)]
HeadsOf(c) == {"BEGIN", "N", "END"} \cup {f \in Fields : c[f] # None}

\* Every value a contact can have stays on its line.
LEMMA SaysIs ==
    ASSUME NEW A, Letters \subseteq A, NEW c \in Contacts(A), NEW h \in Heads
    PROVE  Says(c, h) \in Seq(A \ Breaks)
  <1>1. Written \subseteq A /\ CR \in A /\ Space \in A
    BY DEF Letters
  <1>2. CASE h \in {"BEGIN", "END"}
    BY <1>2 DEF Says, None
  <1>3. CASE h = "N"
    <2>1. c.FN \in Seq(A)
      BY DEF Contacts
    <2>2. structuredName(c.FN) \in Seq(A \ Breaks)
      BY <1>1, <2>1, NameIs
    <2>. QED
      BY <1>3, <2>2 DEF Says
  <1>4. CASE h \in {"FN", "ORG", "TITLE", "TEL"}
    <2>1. c[h] \in Seq(A)
      BY <1>4 DEF Contacts
    <2>2. escapeVCardValue(c[h]) \in Seq(A \ Breaks)
      BY <1>1, <2>1, EscapeReads
    <2>. QED
      BY <1>4, <2>2 DEF Says
  <1>. QED
    BY <1>2, <1>3, <1>4 DEF Heads

LEMMA HeadFiled ==
    ASSUME NEW A, Letters \subseteq A, NEW c \in Contacts(A), NEW s, NEW H, Filed(A, c, s, H),
           NEW h \in Heads, h \notin H
    PROVE  Filed(A, c, s \o Line(h, Says(c, h)), H \cup {h})
  <1>1. CR \in A /\ LF \in A /\ h \in A
    BY DEF Letters, Written
  <1>2. h \notin Breaks
    BY DEF Heads, Breaks, CR, LF
  <1>3. Says(c, h) \in Seq(A \ Breaks)
    BY SaysIs
  <1>. QED
    BY <1>1, <1>2, <1>3, LineFiled

LEMMA OptionalFiled ==
    ASSUME NEW A, Letters \subseteq A, NEW c \in Contacts(A), NEW s, NEW H, Filed(A, c, s, H),
           NEW h \in {"ORG", "TITLE", "TEL"}, h \notin H
    PROVE  Filed(A, c, s \o OptionalLine(h, c[h]), H \cup {f \in {h} : c[f] # None})
  <1>1. CASE c[h] = None
    <2>1. OptionalLine(h, c[h]) = None /\ {f \in {h} : c[f] # None} = {}
      BY <1>1 DEF OptionalLine
    <2>2. s \in Seq(A)
      BY DEF Filed
    <2>3. s \o None = s /\ H \cup {} = H
      BY <2>2, NothingBefore
    <2>. QED
      BY <2>1, <2>3
  <1>2. CASE c[h] # None
    <2>1. OptionalLine(h, c[h]) = Line(h, Says(c, h))
      BY <1>2 DEF OptionalLine, Says
    <2>2. {f \in {h} : c[f] # None} = {h} /\ h \in Heads
      BY <1>2 DEF Heads
    <2>3. Filed(A, c, s \o Line(h, Says(c, h)), H \cup {h})
      BY <2>2, HeadFiled
    <2>. QED
      BY <2>1, <2>2, <2>3
  <1>. QED
    BY <1>1, <1>2

\* The file has one line for each value the card has, and no other.
LEMMA FileIs ==
    ASSUME NEW A, Letters \subseteq A, NEW c \in Contacts(A)
    PROVE  Filed(A, c, buildVCard(c), HeadsOf(c))
  <1> DEFINE s1 == Line("BEGIN", None)
             s2 == s1 \o Line("N", structuredName(c.FN))
             s3 == s2 \o Line("FN", escapeVCardValue(c.FN))
             s4 == s3 \o OptionalLine("ORG", c.ORG)
             s5 == s4 \o OptionalLine("TITLE", c.TITLE)
             s6 == s5 \o OptionalLine("TEL", c.TEL)
             H3 == {"BEGIN", "N", "FN"}
             H4 == H3 \cup {f \in {"ORG"} : c[f] # None}
             H5 == H4 \cup {f \in {"TITLE"} : c[f] # None}
             H6 == H5 \cup {f \in {"TEL"} : c[f] # None}
  <1>0. buildVCard(c) = s6 \o Line("END", None)
    BY DEF buildVCard
  <1>1. Filed(A, c, s1, {"BEGIN"})
    <2>1. Filed(A, c, None, {})
      BY NothingFiled
    <2>2. Says(c, "BEGIN") = None /\ "BEGIN" \in Heads /\ {} \cup {"BEGIN"} = {"BEGIN"}
      BY DEF Says, Heads
    <2>3. Filed(A, c, None \o Line("BEGIN", None), {"BEGIN"})
      BY <2>1, <2>2, HeadFiled
    <2>4. Line("BEGIN", None) \in Seq(A)
      <3>1. "BEGIN" \in A /\ CR \in A /\ LF \in A
        BY DEF Letters, Heads, Written
      <3>. QED
        BY <3>1 DEF Line, None
    <2>. QED
      BY <2>3, <2>4, NothingBefore
  <1> HIDE DEF s1
  <1>2. Filed(A, c, s2, {"BEGIN", "N"})
    <2>1. Says(c, "N") = structuredName(c.FN) /\ "N" \in Heads /\ {"BEGIN"} \cup {"N"} = {"BEGIN", "N"}
      BY DEF Says, Heads
    <2>2. "N" \notin {"BEGIN"}
      OBVIOUS
    <2>. QED
      BY <1>1, <2>1, <2>2, HeadFiled
  <1> HIDE DEF s2
  <1>3. Filed(A, c, s3, H3)
    <2>1. /\ Says(c, "FN") = escapeVCardValue(c.FN) /\ "FN" \in Heads
          /\ {"BEGIN", "N"} \cup {"FN"} = H3 /\ "FN" \notin {"BEGIN", "N"}
      BY DEF Says, Heads
    <2> HIDE DEF H3
    <2>. QED
      BY <1>2, <2>1, HeadFiled
  <1> HIDE DEF s3
  <1>4. Filed(A, c, s4, H4)
    <2>1. "ORG" \notin H3 /\ "ORG" \in {"ORG", "TITLE", "TEL"} /\ c["ORG"] = c.ORG
      OBVIOUS
    <2> HIDE DEF H3
    <2>. QED
      BY <1>3, <2>1, OptionalFiled
  <1> HIDE DEF s4
  <1>5. Filed(A, c, s5, H5)
    <2>1. "TITLE" \notin H4 /\ "TITLE" \in {"ORG", "TITLE", "TEL"}
      OBVIOUS
    <2> HIDE DEF H4
    <2>. QED
      BY <1>4, <2>1, OptionalFiled
  <1> HIDE DEF s5
  <1>6. Filed(A, c, s6, H6)
    <2>1. "TEL" \notin H5 /\ "TEL" \in {"ORG", "TITLE", "TEL"}
      OBVIOUS
    <2> HIDE DEF H5
    <2>. QED
      BY <1>5, <2>1, OptionalFiled
  <1> HIDE DEF s6
  <1>7. Filed(A, c, s6 \o Line("END", None), H6 \cup {"END"})
    <2>1. "END" \notin H6 /\ "END" \in Heads /\ Says(c, "END") = None
      BY DEF Heads, Says
    <2> HIDE DEF H6
    <2>. QED
      BY <1>6, <2>1, HeadFiled
  <1>8. H6 \cup {"END"} = HeadsOf(c)
    <2>1. c.FN # None
      BY DEF Contacts
    <2>2. ASSUME NEW x PROVE x \in H6 \cup {"END"} <=> x \in HeadsOf(c)
      BY <2>1 DEF HeadsOf, Fields
    <2>. QED
      BY <2>2
  <1>. QED
    BY <1>0, <1>7, <1>8

-----------------------------------------------------------------------------
(* The card itself.                                                        *)

LEMMA LeastIs ==
    ASSUME NEW S \in SUBSET Nat, S # {}
    PROVE  Min(S) \in S /\ \A y \in S : Min(S) <= y
  <1> DEFINE R == OpToRel(<, Nat)
  <1>1. IsWellFoundedOn(R, Nat)
    BY NatLessThanWellFounded
  <1>2. \A x, y \in Nat : x < y => <<x, y>> \in R
    BY DEF OpToRel
  <1> HIDE DEF R
  <1>3. PICK x \in S : \A y \in S : ~(<<y, x>> \in R)
    BY <1>1, WFMin
  <1>4. ASSUME NEW y \in S PROVE x <= y
    <2>1. x \in Nat /\ y \in Nat /\ ~(y < x)
      BY <1>2, <1>3
    <2>. QED
      BY <2>1
  <1>. QED
    BY <1>4 DEF Min

LEMMA GreatestIs ==
    ASSUME NEW n \in Nat, NEW S \in SUBSET (1..n), S # {}
    PROVE  Max(S) \in S
  <1> DEFINE T == {n - x : x \in S}
  <1>0. \A x \in S : x \in Nat /\ x <= n /\ n - x \in Nat
    OBVIOUS
  <1>1. T \in SUBSET Nat /\ T # {}
    BY <1>0
  <1>2. Min(T) \in T /\ \A y \in T : Min(T) <= y
    <2> HIDE DEF T
    <2>. QED
      BY <1>1, LeastIs
  <1>3. PICK x \in S : Min(T) = n - x
    BY <1>2
  <1>4. ASSUME NEW y \in S PROVE x >= y
    <2>1. n - y \in T /\ x \in Nat /\ y \in Nat
      OBVIOUS
    <2>2. n - x <= n - y
      BY <1>2, <1>3, <2>1
    <2>. QED
      BY <2>1, <2>2
  <1>. QED
    BY <1>4 DEF Max

LEMMA TrimmedIs ==
    ASSUME NEW A, NEW s \in Seq(A)
    PROVE  Trimmed(s) \in Seq(A)
  <1> DEFINE n == Len(s)
             full == {i \in DOMAIN s : s[i] \notin Blank}
  <1>1. n \in Nat /\ full \in SUBSET (1..n)
    OBVIOUS
  <1>2. Trimmed(s) = IF full = {} THEN None ELSE SubSeq(s, Min(full), Max(full))
    BY DEF Trimmed
  <1> HIDE DEF full
  <1>3. CASE full = {}
    BY <1>2, <1>3 DEF None
  <1>4. CASE full # {}
    <2>1. Min(full) \in full
      <3>1. full \in SUBSET Nat
        BY <1>1
      <3>. QED
        BY <1>4, <3>1, LeastIs
    <2>2. Max(full) \in full
      BY <1>1, <1>4, GreatestIs
    <2> DEFINE a == Min(full)
               b == Max(full)
    <2>3. a \in 1..n /\ b \in 1..n
      BY <1>1, <2>1, <2>2
    <2> HIDE DEF a, b
    <2>4. SubSeq(s, a, b) \in Seq(A)
      BY <2>3
    <2>. QED
      BY <1>2, <1>4, <2>4 DEF a, b
  <1>. QED
    BY <1>3, <1>4

LEMMA PhoneIs ==
    ASSUME NEW A, "+" \in A, Space \in A, NEW phone \in Seq(A), NEW cc \in Seq(A)
    PROVE  formatPhone(phone, cc) \in Seq(A)
  <1> DEFINE n == Trimmed(phone)
             c == Trimmed(cc)
             lead == IF Head(c) = "+" THEN c ELSE <<"+">> \o c
  <1>1. n \in Seq(A) /\ c \in Seq(A)
    BY TrimmedIs
  <1>2. formatPhone(phone, cc) = IF n = None \/ c = None \/ Head(n) = "+" THEN n
                                 ELSE lead \o <<Space>> \o n
    BY DEF formatPhone
  <1> HIDE DEF n, c
  <1>3. lead \in Seq(A)
    BY <1>1
  <1> HIDE DEF lead
  <1>4. lead \o <<Space>> \o n \in Seq(A)
    BY <1>1, <1>3
  <1>. QED
    BY <1>1, <1>2, <1>4

\* What an attendee may have given.
BadgeRows == [name : Seq(Chars), company : Seq(Chars), title : Seq(Chars),
              phone : Seq(Chars), cc : Seq(Chars), type : Types,
              live : BOOLEAN, revoked : BOOLEAN]

LEMMA LabelIs ==
    ASSUME NEW type \in Types
    PROVE  /\ TypeLabel(type) = IF type = "company" THEN <<"Company">>
                                ELSE IF type = "freelancer" THEN <<"Freelancer">>
                                ELSE IF type = "student" THEN <<"Student">> ELSE None
           /\ TypeLabel(type) \in Seq(Letters)
  <1>1. "Company" \in Letters /\ "Freelancer" \in Letters /\ "Student" \in Letters
    BY DEF Letters
  <1>2. <<"Company">> \in Seq(Letters) /\ <<"Freelancer">> \in Seq(Letters)
        /\ <<"Student">> \in Seq(Letters) /\ None \in Seq(Letters)
    BY <1>1 DEF None
  <1>3. TypeLabel(type) = IF type = "company" THEN <<"Company">>
                          ELSE IF type = "freelancer" THEN <<"Freelancer">>
                          ELSE IF type = "student" THEN <<"Student">> ELSE None
    BY DEF TypeLabel
  <1>. QED
    BY <1>2, <1>3

LEMMA ContactIs ==
    ASSUME NEW who \in BadgeRows
    PROVE  Card(who).contact \in Contacts(Letters)
  <1>1. /\ who.name \in Seq(Letters) /\ who.company \in Seq(Letters) /\ who.title \in Seq(Letters)
        /\ who.phone \in Seq(Letters) /\ who.cc \in Seq(Letters) /\ who.type \in Types
    <2>1. Chars \subseteq Letters
      BY DEF Letters
    <2>2. Seq(Chars) \subseteq Seq(Letters)
      BY <2>1
    <2>. QED
      BY <2>2 DEF BadgeRows
  <1>2. /\ Trimmed(who.name) \in Seq(Letters) /\ Trimmed(who.company) \in Seq(Letters)
        /\ Trimmed(who.title) \in Seq(Letters)
    BY <1>1, TrimmedIs
  <1>3. formatPhone(who.phone, who.cc) \in Seq(Letters)
    <2>1. "+" \in Letters /\ Space \in Letters
      BY DEF Letters
    <2>. QED
      BY <1>1, <2>1, PhoneIs
  <1>4. TypeLabel(who.type) \in Seq(Letters)
    BY <1>1, LabelIs
  <1>5. <<"Attendee">> \in Seq(Letters) /\ <<"Attendee">> # None
    <2>1. "Attendee" \in Letters
      BY DEF Letters
    <2>. QED
      BY <2>1 DEF None
  <1>6. Card(who).contact = [FN    |-> Or(Trimmed(who.name), <<"Attendee">>),
                             ORG   |-> Trimmed(who.company),
                             TITLE |-> Or(Trimmed(who.title), TypeLabel(who.type)),
                             TEL   |-> formatPhone(who.phone, who.cc)]
    BY DEF Card
  <1>7. Or(Trimmed(who.name), <<"Attendee">>) \in Seq(Letters) \ {None}
    BY <1>2, <1>5 DEF Or
  <1>8. Or(Trimmed(who.title), TypeLabel(who.type)) \in Seq(Letters)
    BY <1>2, <1>4 DEF Or
  <1>. QED
    BY <1>2, <1>3, <1>6, <1>7, <1>8 DEF Contacts

\* Whatever was typed, the reader finds the card's values and no other line.
LEMMA ReadsBack ==
    ASSUME badge \in BadgeRows, file # None => file = buildVCard(Card(badge).contact)
    PROVE  ContactReadsBack
  <1> SUFFICES ASSUME file # None PROVE ContactReadsBack
    BY DEF ContactReadsBack
  <1> DEFINE c == Card(badge).contact
             A == Letters
             lines == Lines(file)
  <1>1. c \in Contacts(A) /\ file = buildVCard(c)
    BY ContactIs
  <1> HIDE DEF c
  <1>2. Filed(A, c, file, HeadsOf(c))
    BY <1>1, FileIs
  <1>3. \A h \in HeadsOf(c) : Read(file, h) = Values(Says(c, h))
    BY <1>2, ReadIs
  <1>4. \A h : h \notin HeadsOf(c) => Read(file, h) = <<None>>
    BY <1>2, ReadIs
  <1>5. Written \subseteq A /\ CR \in A /\ Space \in A /\ LF \in A
    BY DEF Letters, Written
  <1> HIDE DEF A
  <1>6. ASSUME NEW f \in Fields PROVE Read(file, f) = <<Folded(c[f])>>
    <2>1. c[f] \in Seq(A) /\ f \notin {"BEGIN", "N", "END"}
      BY <1>1 DEF Contacts, Fields
    <2>2. CASE c[f] # None
      <3>1. f \in HeadsOf(c) /\ Says(c, f) = escapeVCardValue(c[f])
        BY <2>1, <2>2 DEF HeadsOf, Says
      <3>2. Values(escapeVCardValue(c[f])) = <<Folded(c[f])>>
        BY <1>5, <2>1, EscapeReads
      <3>. QED
        BY <1>3, <3>1, <3>2
    <2>3. CASE c[f] = None
      <3>1. f \notin HeadsOf(c)
        BY <2>1, <2>3 DEF HeadsOf
      <3>2. Folded(None) = None
        BY <1>5, FoldedIs
      <3>. QED
        BY <1>4, <2>3, <3>1, <3>2
    <2>. QED
      BY <2>2, <2>3
  <1>7. Len(Read(file, "N")) = 5
    <2>1. "N" \in HeadsOf(c) /\ Says(c, "N") = structuredName(c.FN)
      BY DEF HeadsOf, Says
    <2>2. c.FN \in Seq(A)
      BY <1>1 DEF Contacts
    <2>3. Len(Values(structuredName(c.FN))) = 5
      BY <1>5, <2>2, NameIs
    <2>. QED
      BY <1>3, <2>1, <2>3
  <1>8. /\ \A i \in DOMAIN lines : \E h \in HeadsOf(c) : lines[i] = Entry(c, h)
        /\ \A h \in HeadsOf(c) : \E i \in DOMAIN lines : lines[i] = Entry(c, h)
        /\ \A i, k \in DOMAIN lines : lines[i][1] = lines[k][1] => i = k
        /\ \A h \in HeadsOf(c) : Entry(c, h)[1] = h
    <2>1. ASSUME NEW h \in HeadsOf(c) PROVE Entry(c, h)[1] = h
      <3>1. h \in A /\ Says(c, h) \in Seq(A)
        BY <1>2 DEF Filed
      <3>. QED
        BY <3>1, HeadFirst DEF Entry
    <2>. QED
      BY <1>2, <2>1 DEF Filed
  <1> HIDE DEF lines
  <1>9. {lines[i][1] : i \in DOMAIN lines} = HeadsOf(c)
    BY <1>8
  <1>. QED
    BY <1>6, <1>7, <1>8, <1>9 DEF ContactReadsBack, c, lines, HeadsOf

\* A number that is given a code keeps one plus, in front.
LEMMA PhonePlus ==
    ASSUME NEW phone \in Seq(Chars), NEW cc \in Seq(Chars),
           PlusLeads(Trimmed(phone)), PlusLeads(Trimmed(cc))
    PROVE  PlusLeads(formatPhone(phone, cc))
  <1> DEFINE n == Trimmed(phone)
             c == Trimmed(cc)
             lead == IF Head(c) = "+" THEN c ELSE <<"+">> \o c
             A == Letters
  <1>1. n \in Seq(A) /\ c \in Seq(A) /\ "+" \in A /\ Space \in A
    <2>1. Chars \subseteq A /\ "+" \in A /\ Space \in A
      BY DEF Letters
    <2>2. phone \in Seq(A) /\ cc \in Seq(A)
      BY <2>1
    <2>. QED
      BY <2>1, <2>2, TrimmedIs
  <1>2. formatPhone(phone, cc) = IF n = None \/ c = None \/ Head(n) = "+" THEN n
                                 ELSE lead \o <<Space>> \o n
    BY DEF formatPhone
  <1>3. PlusLeads(n) /\ PlusLeads(c) /\ Space # "+"
    BY Zenon DEF Space
  <1> HIDE DEF n, c, A
  <1>4. CASE n = None \/ c = None \/ Head(n) = "+"
    BY <1>2, <1>3, <1>4
  <1>5. CASE n # None /\ c # None /\ Head(n) # "+"
    <2>1. \A i \in 1..Len(n) : n[i] # "+"
      <3>1. Head(n) = n[1]
        BY <1>1, <1>5 DEF None
      <3>. QED
        BY <1>1, <1>3, <1>5, <3>1 DEF PlusLeads
    <2>2. lead \in Seq(A) /\ lead # None /\ \A i \in 1..Len(lead) : lead[i] = "+" => i = 1
      <3>0. Head(c) = c[1] /\ c \in Seq(A) /\ Len(c) \in Nat /\ DOMAIN c = 1..Len(c)
        BY <1>1, <1>5 DEF None
      <3>1. CASE Head(c) = "+"
        BY <1>3, <1>5, <3>0, <3>1 DEF PlusLeads
      <3>2. CASE Head(c) # "+"
        <4>1. \A i \in 1..Len(c) : c[i] # "+"
          BY <1>3, <3>0, <3>2 DEF PlusLeads
        <4> DEFINE l == <<"+">> \o c
        <4>2. /\ l \in Seq(A) /\ Len(l) = Len(c) + 1 /\ l[1] = "+"
              /\ \A i \in 1..Len(c) : l[i + 1] = c[i]
          BY <1>1
        <4>3. lead = l
          BY <3>2
        <4> HIDE DEF l, lead
        <4>4. ASSUME NEW i \in 1..Len(l), i # 1 PROVE l[i] # "+"
          <5>1. i - 1 \in 1..Len(c) /\ (i - 1) + 1 = i
            BY <3>0, <4>2, <4>4
          <5>. QED
            BY <4>1, <4>2, <5>1
        <4>5. l # None
          BY <3>0, <4>2 DEF None
        <4>. QED
          BY <4>2, <4>3, <4>4, <4>5
      <3>. QED
        BY <3>1, <3>2
    <2> HIDE DEF lead
    <2> DEFINE t == lead \o <<Space>> \o n
               m == Len(lead)
    <2>3. /\ t \in Seq(A) /\ Len(t) = m + 1 + Len(n) /\ m \in Nat /\ Len(n) \in Nat
          /\ \A i \in 1..m : t[i] = lead[i]
          /\ t[m + 1] = Space
          /\ \A i \in 1..Len(n) : t[m + 1 + i] = n[i]
      <3> DEFINE q == lead \o <<Space>>
      <3>1. /\ q \in Seq(A) /\ Len(q) = m + 1 /\ m \in Nat /\ \A i \in 1..m : q[i] = lead[i]
            /\ q[m + 1] = Space
        BY <1>1, <2>2
      <3>2. t = q \o n
        OBVIOUS
      <3> HIDE DEF q, t, m
      <3>3. /\ q \o n \in Seq(A) /\ Len(q \o n) = m + 1 + Len(n) /\ Len(n) \in Nat
            /\ \A i \in 1..m + 1 : (q \o n)[i] = q[i]
            /\ \A i \in 1..Len(n) : (q \o n)[m + 1 + i] = n[i]
        <4>1. /\ q \o n \in Seq(A) /\ Len(q \o n) = Len(q) + Len(n) /\ Len(n) \in Nat
              /\ \A i \in 1..Len(q) : (q \o n)[i] = q[i]
              /\ \A i \in 1..Len(n) : (q \o n)[Len(q) + i] = n[i]
          <5>1. q \in Seq(A) /\ n \in Seq(A)
            BY <1>1, <3>1
          <5>. QED
            BY <5>1
        <4>2. Len(q) = m + 1
          BY <3>1
        <4>. QED
          BY <4>1, <4>2
      <3>4. m + 1 \in 1..m + 1 /\ \A i \in 1..m : i \in 1..m + 1
        BY <3>1
      <3>. QED
        BY <3>1, <3>2, <3>3, <3>4
    <2>4. formatPhone(phone, cc) = t
      BY <1>2, <1>5
    <2>5. \A i \in 1..m : t[i] = "+" => i = 1
      BY <2>2, <2>3
    <2> HIDE DEF t, m
    <2>6. ASSUME NEW i \in DOMAIN t, t[i] = "+" PROVE i = 1
      <3>1. i \in 1..m + 1 + Len(n) /\ i \in Int
        BY <2>3
      <3>2. CASE i \in 1..m
        BY <2>5, <2>6, <3>2
      <3>3. CASE i = m + 1
        BY <1>3, <2>3, <2>6, <3>3
      <3>4. CASE i > m + 1
        <4>1. i - (m + 1) \in 1..Len(n) /\ m + 1 + (i - (m + 1)) = i
          BY <2>3, <3>1, <3>4
        <4>. QED
          BY <2>1, <2>3, <2>6, <4>1
      <3>5. i \in 1..m \/ i = m + 1 \/ i > m + 1
        <4>1. m \in Nat /\ Len(n) \in Nat
          BY <2>3
        <4>. QED
          BY <3>1, <4>1
      <3>. QED
        BY <3>2, <3>3, <3>4, <3>5
    <2>. QED
      BY <2>4, <2>6 DEF PlusLeads
  <1>. QED
    BY <1>4, <1>5

\* The pill and the line above it, for every row.
LEMMA Speaks ==
    ASSUME badge \in BadgeRows
    PROVE  CardSpeaks
  <1> DEFINE card == Card(badge)
             typed == Trimmed(badge.company)
             label == TypeLabel(badge.type)
             named == badge.type # "company"
  <1>0. badge.type \in Types /\ badge.phone \in Seq(Chars) /\ badge.cc \in Seq(Chars)
    BY DEF BadgeRows
  <1>1. /\ card.affiliation = Or(typed, IF named THEN label ELSE None)
        /\ card.pill = IF typed # None /\ named THEN label ELSE None
        /\ card.contact.TEL = formatPhone(badge.phone, badge.cc)
    BY DEF Card
  <1>2. PlusLeads(Trimmed(badge.phone)) /\ PlusLeads(Trimmed(badge.cc)) => PlusLeads(card.contact.TEL)
    BY <1>0, <1>1, PhonePlus
  <1>3. /\ TypeLabel("company") = <<"Company">> /\ TypeLabel("freelancer") = <<"Freelancer">>
        /\ TypeLabel("student") = <<"Student">> /\ TypeLabel("other") = None
    BY DEF TypeLabel
  <1>4. <<"Company">> # None /\ <<"Freelancer">> # None /\ <<"Student">> # None
        /\ <<"Company">> # <<"Freelancer">> /\ <<"Company">> # <<"Student">>
    BY DEF None
  <1> HIDE DEF card, typed
  <1>5. ASSUME typed \notin {TypeLabel(t) : t \in Types \ {"other"}}
        PROVE  /\ card.pill # None => card.pill # card.affiliation
               /\ <<"Company">> \notin {card.affiliation, card.pill}
               /\ badge.type \in {"freelancer", "student"} => label \in {card.affiliation, card.pill}
    <2>1. typed # <<"Company">> /\ typed # <<"Freelancer">> /\ typed # <<"Student">>
      <3>1. "company" \in Types \ {"other"} /\ "freelancer" \in Types \ {"other"} /\ "student" \in Types \ {"other"}
        BY DEF Types
      <3>. QED
        BY <1>3, <1>5, <3>1
    <2>2. CASE badge.type = "company"
      <3>1. ~named /\ card.pill = None /\ card.affiliation = typed
        BY <1>1, <2>2 DEF Or, None
      <3>. QED
        BY <1>4, <2>1, <2>2, <3>1
    <2>3. CASE badge.type \in {"freelancer", "student", "other"}
      <3>1. named /\ label \in {<<"Freelancer">>, <<"Student">>, None}
        BY <1>3, <2>3
      <3>2. CASE typed = None
        <4>1. card.pill = None /\ card.affiliation = label
          BY <1>1, <3>1, <3>2 DEF Or
        <4>. QED
          BY <1>4, <3>1, <4>1
      <3>3. CASE typed # None
        <4>1. card.pill = label /\ card.affiliation = typed
          BY <1>1, <3>1, <3>3 DEF Or
        <4>. QED
          BY <1>4, <2>1, <3>1, <4>1
      <3>. QED
        BY <3>2, <3>3
    <2>. QED
      BY <1>0, <2>2, <2>3 DEF Types
  <1>. QED
    BY <1>2, <1>5 DEF CardSpeaks, card, typed

-----------------------------------------------------------------------------
(* What the page has handed out is the card of the row, whatever was taken  *)
(* down since.                                                              *)

CardTypeOK ==
    /\ badge \in BadgeRows
    /\ file # None => file = buildVCard(Card(badge).contact)

LEMMA CardStart == CardInit => CardTypeOK
  BY BadgesAssumption DEF CardInit, CardTypeOK, BadgeRows

LEMMA CardStep == CardTypeOK /\ [CardNext]_cardVars => CardTypeOK'
  <1> SUFFICES ASSUME CardTypeOK, [CardNext]_cardVars PROVE CardTypeOK'
    OBVIOUS
  <1>1. CASE BadgeProfilePage
    BY <1>1 DEF BadgeProfilePage, CardTypeOK
  <1>2. CASE TakenDown
    <2>1. /\ badge' \in BadgeRows /\ file' = file
          /\ badge'.name = badge.name /\ badge'.company = badge.company /\ badge'.title = badge.title
          /\ badge'.type = badge.type /\ badge'.phone = badge.phone /\ badge'.cc = badge.cc
      BY <1>2 DEF TakenDown, CardTypeOK, BadgeRows
    <2>2. Card(badge') = Card(badge)
      BY <2>1 DEF Card
    <2>. QED
      BY <2>1, <2>2 DEF CardTypeOK
  <1>3. CASE SaveContact
    BY <1>3 DEF SaveContact, CardTypeOK
  <1>4. CASE UNCHANGED cardVars
    BY <1>4 DEF cardVars, CardTypeOK
  <1>. QED
    BY <1>1, <1>2, <1>3, <1>4 DEF CardNext

LEMMA CardTypeOKSpeaks == CardTypeOK => CardInv
  BY Speaks, ReadsBack DEF CardTypeOK, CardInv

-----------------------------------------------------------------------------
(* The pages together, next to an order that goes its own way.             *)

LEMMA PartsStart == MCInit => TicketInit /\ CardInit
  BY DEF MCInit

LEMMA PartsStep == [MCNext]_mirrorVars => [TicketNext]_ticketVars /\ [CardNext]_cardVars
  <1> SUFFICES ASSUME [MCNext]_mirrorVars PROVE [TicketNext]_ticketVars /\ [CardNext]_cardVars
    OBVIOUS
  <1>1. CASE UNCHANGED mirrorVars
    BY <1>1 DEF mirrorVars
  <1>2. CASE Next /\ UNCHANGED <<ticketVars, cardVars>>
    BY <1>2
  <1>3. CASE (PageNext \/ LinkNext) /\ UNCHANGED <<vars, cardVars>>
    BY <1>3 DEF TicketNext, PageNext
  <1>4. CASE (MailNext \/ \E t \in Tickets : RowMoves(t)) /\ UNCHANGED <<vars, cardVars>>
    BY <1>4 DEF TicketNext, PageNext, LinkNext
  <1>5. CASE CardNext /\ UNCHANGED <<vars, ticketVars>>
    BY <1>5
  <1>. QED
    BY <1>1, <1>2, <1>3, <1>4, <1>5 DEF MCNext

\* Whatever an attendee typed - commas, semicolons, backslashes, line breaks, and
\* however long - a phone that saves the contact from a badge reads back exactly the
\* card's values, one each, and no other line; nothing on the card is said twice.
THEOREM CardIsTrue == CardSpec => []CardInv
  <1>. QED
    BY CardStart, CardStep, CardTypeOKSpeaks, PTL DEF CardSpec

\* Every page that waits for a ticket and every saved contact, next to the order
\* whose row they show: what the run order_mirror checks, for any constants.
THEOREM PagesAreTrue == MCFairSpec => []PagesInv
  <1>1. PagesOK /\ LinkInv /\ MailInv => TicketInv
    BY LimitsAssumption
    DEF PagesOK, TabsOK, RevealInv, RevealOnce, LinkInv, LinkType, MailInv,
        MailsAreCapped, TicketInv, TypeOK_Ticket, TabType, Shown, Open
  <1>2. TicketInit => MailInv
    BY LimitsAssumption DEF TicketInit, MailInv
  <1>3. TicketInv /\ CardInv => PagesInv
    BY DEF PagesInv
  <1>. QED
    BY PartsStart, PartsStep, LinkInit, LinkStep, PagesInit, PagesStep, MailStep, CardStart,
       CardStep, CardTypeOKSpeaks, <1>1, <1>2, <1>3, PTL DEF MCFairSpec
=============================================================================
