----------------------------- MODULE MCOutreach -----------------------------
(***************************************************************************)
(* Requests that race for an order; and what the platform sends out: places *)
(* on the waitlist, mailed invites, tickets by mail, webhooks.  Parts that  *)
(* share no state, explored one at a time in one run.                       *)
(***************************************************************************)
EXTENDS MCOrderLifecycle, Waitlist, EmailInvites, TicketMail, WebhookDelivery

CONSTANTS o1, w1, w2, w3, ann, bob, j1, j2, forever, dated, p1, p2, h1, h2, e1, q1, q2,
          m1, m2, m3

VARIABLE part
outreachVars == <<vars, waitVars, inviteVars, outboxVars, webhookVars, part>>

\* Ann has registered twice.
MCAddressOf == (m1 :> ann) @@ (m2 :> ann) @@ (m3 :> bob)

Lists == {<<ann>>, <<bob, ann, bob>>}

Only(p) == /\ p # "order" => UNCHANGED vars
           /\ p # "waitlist" => UNCHANGED waitVars
           /\ p # "invites" => UNCHANGED inviteVars
           /\ p # "mail" => UNCHANGED outboxVars
           /\ p # "webhooks" => UNCHANGED webhookVars

\* Bound: two sweeps, updates refused and crashes go with one delivery; with two
\* deliveries there is one sweep, and nothing is lost.
OverlapOnOneRow == Len(delivery') > 1 => lost' = 0 /\ sender'[q2] = Resting

\* Bound: half the log is for what a run of the script adds, and one order's mail
\* alone arrives twice.
LogForTheScript ==
    /\ Len(log') > 2 => script'.at # "idle"
    /\ got'[m2] < 2 /\ got'[m3] < 2

MCInit ==
    /\ part \in {"order", "waitlist", "invites", "mail", "webhooks"}
    /\ Init /\ WaitInit /\ InvitesInit /\ MailboxInit /\ WebhooksInit
    /\ part # "order" => \A o \in Orders : pretix[o] = "n" /\ hooks = {}
                                           /\ row[o].approval = "not_required"
    /\ part # "mail" => mode = "smtp" /\ ~refusing
    /\ part # "webhooks" => active = {}

MCNext ==
    /\ UNCHANGED part
    /\ \/ part = "order" /\ Next /\ Only("order")
       \/ part = "waitlist" /\ WaitNext /\ Only("waitlist")
       \/ part = "invites" /\ InvitesNext /\ Only("invites")
       \/ part = "mail" /\ MailboxNext /\ LogForTheScript /\ Only("mail")
       \/ part = "webhooks" /\ WebhooksNext /\ OverlapOnOneRow /\ Only("webhooks")

MCSpec == MCInit /\ [][MCNext]_outreachVars
Symmetric == WorkerSymmetry

OutreachInv == WaitlistInv /\ InvitesInv /\ MailboxInv /\ WebhooksInv
=============================================================================
