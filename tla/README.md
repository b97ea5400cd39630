# A model of the event registration platform

The platform (`apps/web`) sells and administers registrations for events, admits
people at the door and prints their badges. pretix is the source of truth for
orders, tickets and check-in lists; the platform keeps its own PostgreSQL rows beside
it: who registered, whether an organizer approved, which seats are taken, which
invite was used, which account a registration belongs to. No transaction spans the
two, and most handlers use none for their own rows either: they read, await pretix,
and write with a compare-and-set (`updateMany ... where status: ...`). The screens
have the same trouble on a smaller scale: one component's state is written by keys,
timers, replies and prints in whatever order they end.

The specifications in this directory model that control flow, one `await` at a time,
and state what it promises. Paths below are relative to `src/apps/web/src/lib/` unless
they are file names alone (a component under `src/apps/web/src`) or name a README.

## 1. Inventory

| Component | State it keeps | Operations | What is hard about it | Module |
|---|---|---|---|---|
| Order lifecycle (`approval`, `finance`, `registration/cancel`, `pretix/handlers/order-*`, `checkin/eligibility`) | `attendee_orders.approvalStatus`, `.status` | approve, reject, cancelOrder, markOrderPaid, order.paid, order.canceled, the door's redeem | concurrent decisions; a row read before an await and written after it; pretix calls that time out; webhooks repeated and reordered; a process that dies half way | `OrderLifecycle` |
| Registration (`registration/service`) | the new row, the invite, the seats, the pretix order | register | a saga without a transaction: every failure is undone by hand | `Registration` |
| Seats (`seats`) | `seats.state`, `orderRef`, `heldUntil` | sweep, hold, roll back, confirm, release, canSelect | partial holds, holds that lapse under a slow request | `SeatMap` |
| Registration form (`registration-wizard.tsx`, pickers, `registration/draft`, `events/conflicts`, `events/capacity`) | steps, selections, drafts per event | steps back and forth, restore, submit, validateSelection | caps enforced step by step; a navigation while something is in flight | `Wizard` |
| Account merging (`merge`) | `attendee_orders.userId`, `account_merge_events` and entities | claim by token, sweep after verification, forward link, operator's link, unlink, reverse | row locks of READ COMMITTED transactions, checks before the transaction, 30-day reversals | `MergeLedger` |
| pretix client (`pretix/client`, `orders`, `products`, `events`) | none (pretix's state) | create, pay, cancel, redeem; items, quotas, events | lost replies; a 400 that may mean "already done" or "refused" | `PretixApi`, and inside its callers |
| Inbound webhooks (`pretix/webhooks`, `handlers`) | none | order.paid, order.canceled, checkin.created, event live | at-least-once, unordered; answered 200 for unknown orders | with what they write |
| Door, server (`checkin/service`, `badge-slug`, `pretix/checkin`, the external API's check-in) | print logs, badge codes, roles | check-in by code or badge, reprint, mint a code, correct | two stations; a redeem whose reply is lost | `Door` |
| Door, screen (`checkin-panel.tsx`, `attendee-edit.tsx`) | text box, rows, banner, latches, recent list | keys, scans, taps, prints, corrections, walk-ins, lanes | one banner and one box with many late writers | `DoorPanel` |
| Door, printer (`checkin/print-client`, `printer-status.tsx`) | one socket, one pill, one latch | probe, retry, print | a socket shared by probes and prints | `Printer` |
| Door, camera (`qr-scanner.tsx`, `camera-choice`) | the open camera, the choice | open, switch, retry, unmount | cleanup before the device has opened | `Scanner` |
| Badge labels (`checkin/badge-*`) | none (pure) | layout in ZPL and TSPL | long names, symbol's margin | `Badge` |
| Staff forms (`attendee-fields.tsx`, walk-in forms, Fix dialog, `registration/job-title`, `badges/tags`) | fields that depend on each other | fill in, submit, register another, correct | hidden fields keep their text; rows older than the rules | `StaffForms` |
| Ticket links and pages (`registration/access`, `tokens/magic-link`, `attendee-state-view.tsx`, `security/order-lookup`) | link version and revocation, the page's watch, the reveal's memory | open, refresh, reveal, rotate, revoke, resend | a page that must update on its own; rotation against revocation | `TicketPage` |
| Contact card (`checkin/vcard`, `contact-card.tsx`) | none (pure) | show, save | escaping and folding | `ContactCard` |
| Event administration (`events/service`, `cover-image`, `tickets-manager.tsx`) | pretix event and items, mapping, sub-events, cover files | save the catalogue, create, edit, illustrate, delete an event | batches that stop half way; deletion against registration | `Catalog`, `EventAdmin` |
| Lists, rosters, dashboard (`admin`, `auth/org-scope`) | none of their own | list, open, sweep, count | list and detail decide separately; paging while orders move | `Oversight` |
| Codes and sign-up, password reset, sessions (`auth`, `tokens`) | codes, attempts, links, session version | store, check, reset, sign in, suspend | read, compare, then write | `Accounts` |
| Waitlist (`waitlist`) | `waitlist_entries` | join, promote | read-then-write without a transaction | `Waitlist` |
| Mailed invites (`events/service`, `tokens/invite`) | `event_invites` | issue a batch, redeem | dedupe by a read; a throw in the middle | `EmailInvites` (single use: `Registration`) |
| Mail and its log (`email`, `admin/emails`, `scripts/resend-failed-tickets`) | `email_logs` | send, resend, the script | best-effort log; a mailbox that refuses | `TicketMail` |
| Outbound webhooks (`webhooks`) | endpoints, deliveries | emit, deliver, retry, switch | several senders, an update that fails after a 2xx | `WebhookDelivery` |
| Archive; integrations, custom fields, payment and message providers; headers, audit, calendar, i18n, themes | single rows or none | - | - | not modelled (section 6) |

Interactions. The form posts to `register()`, which produces the row that the
lifecycle starts from, uses an invite, sells seats and ends by applying a forward
link of the merge component. Cancel, reject and order.canceled call `releaseSeats`.
order.paid, approve and finance all may issue the ticket, which the ticket page waits
for and the mail carries. The door reads the row, redeems in pretix, and hands a badge
to the station's printer; the badge's code opens the contact card. The office's lists
read the rows and sweep pretix. Shared state is always the database row or pretix: the
handlers never hold it across an await. The station's parts share React state and refs.

What each component owes:

- **Orders.** A registration is decided once, is never shown canceled while pretix
  still admits its ticket, and never enters canceled; a ticket is issued at most once;
  payments and cancellations recorded in pretix arrive; canceled orders give their
  seats back and live ones keep them; the form never sends what the server refuses.
- **Registration.** An invite admits one registration, a registration has exactly its
  seats or fails, failures leave nothing behind, no hold lasts for ever.
- **Accounts.** Every change of a registration's account is explained by a ledger event
  that tells the truth, self-service never takes what somebody owns, staff accounts
  receive nothing, two transactions never deadlock; a code and a reset link work once,
  and a session that works was earned with the current password.
- **Door.** Everyone let in gets a badge, one code per badge for good, and a label that
  is whole and readable; the screen acts on what is on it, nothing stays latched, the
  printer comes back, the camera is released; what staff see is what is stored.
- **Attendee.** The ticket arrives on the page that waits for it, links that were shut
  stay shut unless a rotation was under way, the reveal is played once, nobody is flooded,
  a saved contact is what was typed.
- **Office.** A deletion never turns sessions into tickets nor destroys a registration,
  the cover named exists, what is listed opens, rosters count each seat once.
- **What is sent out.** The waitlist is fair, reports of batches are true, no address
  is mailed twice by a run of the script, a delivery is kept until taken or given up.

## 2. Modules

| Module | Stands for |
|---|---|
| `PretixApi` | what a call does to pretix's order and what the caller learns (external) |
| `RegistrationView` | abstract: the state a registration is shown in, and its only ways forward |
| `OrderLifecycle` | all handlers on existing registrations, as interleaved tasks |
| `SeatMap`, `Registration` | the seat operations; `register()` and its ways back |
| `Wizard` | the registration form, its drafts and the server's check of what it sends |
| `MergeLedger` | ownership, the ledger, row locks |
| `Door` | the door's server half, with pretix's check-in lists and the webhook |
| `DoorPanel`, `Printer`, `Scanner`, `Badge` | the station: screen, printer, camera, labels |
| `StaffForms` | walk-in forms of the desk and the door, the Fix dialog, and what is stored |
| `TicketPage`, `ContactCard` | ticket links and pages; the card behind a badge |
| `Accounts` | one address: sign-up, codes, resets, sessions |
| `Catalog`, `EventAdmin`, `Oversight` | the tickets editor; an event's life; lists and rosters |
| `Waitlist`, `EmailInvites`, `TicketMail`, `WebhookDelivery` | what is sent out |
| `*_proofs` (eight) | theorems: `OrderLifecycle` and `MergeLedger` each have their own; `TicketPage_proofs` also has `ContactCard`, `Registration_proofs` also has `StaffForms`, `Accounts_proofs` the `Wizard`, `Door_proofs` the whole station, `EventAdmin_proofs` `Catalog` and `Oversight`, `Outreach_proofs` all that is sent out |
| `MC*` | small instances for TLC, and the composition of parts in one run |

In every module of server code a request is a record of where it is (`at`), what it
has read, and what it was asked; a handler is its chain of actions, one per await.
Named deviations such as `Unconditionally` or `RetryRearms` are not part of the model:
each is a plausible bug in a definition, written beside the one it would replace, and
serves to test that a property notices it.

### OrderLifecycle

`row` is the AttendeeOrder, `pretix` its status there, `hooks` the deliveries pretix
still owes and `sent` all it ever sent (any may come again, in any order). `task[w]` is
what a concurrent request does: the operation, the order, the next await and the row it
read (`seen`).

| Handler | Actions |
|---|---|
| `approve` | `ApproveRead`, `ApproveClaim` (compare-and-set on approvalStatus), `ApproveSync` (free orders) |
| `reject` | `RejectRead`, `RejectClaim`, `RejectSync` (best effort), `RejectRelease` |
| `cancelOrder` | `CancelRead`, `CancelSync`, `CancelConfirm` (a 400 is tolerated only if pretix says canceled), `CancelClaim`, `CancelRelease` |
| `markOrderPaid` | `FinanceRead`, `FinanceSync`, `FinanceWrite` |
| order.paid | `PaidHookNoop`, `PaidHookRead`, `PaidHookFetched` / `PaidHookFetchFails`, `PaidHookClaim` |
| order.canceled | `CanceledHookNoop`, `CanceledHookRead`, `CanceledHookClaim`, `CanceledHookRelease` |
| door | `CheckinRead`, `CheckinRedeem` / `CheckinRefused`, `CheckinLog` |
| surroundings | `PretixMoves`, `PretixResends`, `Crash` |

It starts from rows as `Registration` leaves them (`FreshOrder`), including rows whose
first webhook came before the row and was lost. `RegistrationView` is the abstract
specification: the five states a registration is shown in and the ways between them;
`RefinesView` maps the row onto it. `TicketPage` moves its registrations by the same
`RegistrationView`, so what is proved of the lifecycle is what the page relies on.

### Registration and SeatMap

A request walks through `at`: claim, quote, create, sweep, hold, confirm, pay, insert,
finalize, or one of the ways back (rollback, unseat, unorder, unpay, uninvite). The
invite is `redeemedAt` and `redeemedOrderCode`; a seat has a state, an order and whether
its hold has lapsed. `learnt` is the status in the reply to the creation, since a
request that times out knows no code. `Fault` is a failing database call or the death
of the process; `CancelLater` sums up the lifecycle's ways to cancel, so that seats and
invites are followed beyond the end of the request. Prices, answers and addresses are
left out. Two order codes never collide (pretix assigns them).

### Wizard

`form` is what the wizard's state holds (step, selections, details filled in, seats,
consents), `draft` what session storage holds per event, `submitted` a call in flight.
The steps skip what an event has no use for; every "next" is guarded as the button is.
A counter per item is a function; its sum is the number of `Tickets` it counts.
`Accepted` is the server's own check (`validateSelection`, conflicts, caps, seats,
answers), written apart from the form's guards, and `SentIsAccepted` relates the two.

### MergeLedger

Here the interesting atomicity is inside PostgreSQL, so the steps are finer:
`LinkCheckTarget` (the checks that open the transaction), `LockRow` (SELECT ... FOR
UPDATE, one row at a time, in the order of the ids, reading what the last holder
committed), `LinkOrdersToUser` / `Detach` (compare-and-set and the ledger event,
visible at the commit), `ReverseReadEvent` (no lock), `ReverseUpdateRow` (locks a row
when it still belongs to the event's account), `ReverseMergeEvent` (commit). What asks
for them reads first, outside: `ClaimOrderFromToken`, `ClaimOrdersForVerifiedEmail`,
`ApplyForwardLink`, `LinkOrderByEmail`, `UnlinkByReversal`, `UnlinkByDetach`,
`ReverseFromLedger`. `Abort` is any failure: the transaction rolls back. The reads of an
order and of its history count as one read; which organization an operator acts for and
the cap of fifty orders per sweep are left out; each address belongs to one account. The
entities of an event are read without ORDER BY; the model assumes they come back as
inserted. PostgreSQL gives this for a freshly written table but does not promise it;
`NoLockCycle` depends on it.

### Door, DoorPanel, Printer, Scanner, Badge, StaffForms

`Door`: pretix alone knows who is in (`redeemed`, per list); `attendee` is the row with
its badge code and role, `log` the print log with its three writers (check-in, reprint,
pretix's webhook). A lost reply and a dead request are the same to the station, which
may retry and is then offered a reprint. `DoorPanel` is the component in one tab: the
box, the answers of searches, the banner, the latches (`busy`, the forms'), prints that
overlap, `stored` per lane. The server's answer is an outcome there; so is the printer's
latch, an effect of `Printer`'s failures: the two modules meet in these outcomes, not
in shared variables. `Scanner` has one record per run of the effect, alive after its
cleanup. In `Badge` a name is the places where its words end, a character its
width in dots (`Glyph`), and the label a set of boxes. Only the Xprinter's canvas shrinks
and wraps a name; the PC42d's is a block of two lines (`NameInk`). `StaffForms` has the fields that depend on
others, `chosen` (history: what somebody filled in) and `rows`, what the server stored.

### TicketPage, ContactCard, Accounts

`TicketPage`: `link` is the version and revocation of a ticket's links and the newest
version ever signed, `rotation[q]` what a rotation has read, `tab` the page
with what it shows and its remaining watch, `stage` the state of the registration.
Look-ups and mails are counted per window. `ContactCard` keeps characters, because its
property is about a conversion: the vCard is built as the code builds it and read as a
reader of the format does, both as functions of the position in the text. `Accounts` has the account row, `codes` and `links` in the
order they were stored, `tokens` (sessions, with the password that earned them as
history) and the requests under way.

### Catalog, EventAdmin, Oversight

`Catalog`: `call[c]` is a save with the list of edits left and the step within one
edit; any pretix call may fail, or act unheard. `EventAdmin` has three stores: pretix's
event (with its `birth`, since a slug may be recreated), the mapping and its rows, the
files on disk. `Oversight` defines who sees what from memberships, sessions and pretix's
orders (`booked`), and `sweep`, the paging of a roster, which is a set of seats.

### Waitlist, EmailInvites, TicketMail, WebhookDelivery

Each is a table, the requests that write it, and what those have read. The link of an
invite is a signature over its terms, so the same terms are the same row; an e-mail log
row names the order (and by it the address), is written after the mail and may be lost;
the script may die and is run again. A delivery's row, POST and update are three steps
that fail apart; a sweep keeps the rows it listed with the attempts they had (`todo`,
`counts`), and nothing keeps two sweeps apart.

## 3. Runs

A run whose parts share no state has a variable (`part`, `side`, `office`) that never
changes and says which one is explored; `MC` modules fix the rest of the state at one
value. It is a sum of state spaces, not a product. Bounds are named in the guards or
stand in the `MC` module, primed, as a conjunct of its next-state relation.

| Run | Instance and bounds | Properties |
|---|---|---|
| `order_races` | one free order with a seat, three concurrent requests, all operations. Beside it: waitlist of 3 entries, 2 overlapping joins; 2 panels sending two lists that overlap and repeat an address; a mailbox with 3 orders of 2 addresses and at most 4 log rows, the script with limit 2, giving up after 1 failure (code: 2), killed and run again at will; webhooks with 2 endpoints, 2 deliveries, 2 attempts (code: 5), 1 loss, one emitter and 2 sweeps, which overlap on one delivery | `LifecycleInv`, `TicketIssuedOnce`, `OutreachInv`, `NoEntryAfterCancel` |
| `order_mirror` | one paid-tier order with a seat, two requests, fair. Beside it: one ticket page, reopened any number of times, watch of 2 looks, 1 look-up and 1 mail per window, 2 addresses, 2 link versions, 2 rotations that overlap each other and revocations (beside an open page one at a time), storage that works, is read-only or throws; cards with company texts of up to 3 of 7 characters, names and titles of up to 2, every combination of fields | `LiveOrderKeepsSeat`, `PagesInv`, `CanceledFreesSeat`, `MirrorCatchesUp`, `LinksStayShut`, `TicketArrives` |
| `register` | two concurrent registrations of five kinds, a shared invite, two seats, lost replies, one fault, fair. Beside it: two walk-ins in a row, one company, one listed and one typed title; Fix on rows of every age | `RegistrationInv`, `StaffFormsInv`, `RowKeepsSeats`, `SeatsReturn`, `OneLiveOrderPerInvite`, `HoldComesBack`, `SeenIsStored` |
| `ledger` | two concurrent transactions, two orders, three accounts of which one is suspended and one may become staff, two ledger events, windows that close | `LedgerInv`, `NoLockCycle`, `LedgerTellsMoves`, `SelfClaimSparesOwned` |
| `door` | two stations and either two people on one day or one on two; 2 requests each, 1 lost reply; fair | `DoorInv`, `RedeemedGetsBadge` |
| `panel` | one tab, two lanes, two people, three texts, two admissions; a printer with 2 polls, 1 retry, 1 print in flight on a station that cannot draw TSPL; 2 cameras, 3 runs of the effect; labels of both languages, names of up to three words of three lengths | `StationInv`, `NothingLatches`, `PrinterComesBack`, `CameraIsOurs`, `LabelIsSafe`, `LabelIsWhole` |
| `attendee` | the form with two events, two tiers, three sessions of which two overlap, 2 seats, caps [main 1, total 2] with two tiers and [main 2, total 2] with one; an account with two posts, at most 2 codes, 2 links, 1 session; a paid-tier order under payBeforeApproval, two requests of which one may die | `AttendeeInv`, `SentIsAccepted`, `SessionsMatchPassword`, `ApprovedAfterPayment`, `RefinesView` |
| `back_office` | a catalogue of two items with two edits in one call, or one saved again by a call that overtakes it; an event whose slug is created twice, two jobs, two files; two organizations, three events, three sessions, two orders | `OfficeInv`, `SessionGoesWhole`, `NoRegistrationDestroyed`, `ListedOpens`, `RosterIsWhole`, `OneNotionOfIssued` |
| `approve_unpays` | one paid-tier order | violated: `ApprovalKeepsPayment` |
| `ledger_detach` | as `ledger` | violated: `DetachIsFinal` |
| `badge_qr` | the default host and a code of eight characters | violated: `QrHasQuietZone` |
| `wizard_total` | the same form with two tickets per user of the day's session, caps [main 1, total 2] or [main 2, total 2] | violated: `SentIsAccepted` |

Why these are enough to be interesting. The rows of different orders share nothing in
the lifecycle (every query is by id), so one order loses no behaviour; three requests
let a third interleave with a pair that races (two admins deciding and a webhook). Two
registrations compete for one invite and one of two seats; every pairwise race of the
code is between two requests. Two orders are the least that can be locked in two
orders; two events the least for a link to be reversed after another one. At the door
two stations race for one code or one visit, and one lost reply is what a retry is for.
One print beside two probes is the least that makes a refused second dial, an overtaken
probe and a latch. Two jobs on an event are every pair of its operations. Limits are 1
or 2 so that the case *at* the limit and the one past it both occur. Parts are split
only where the code shares no state. Requests that are interchangeable have symmetry
sets, in runs without liveness only.

Deadlock is checked in `ledger`, `ledger_detach`, `order_mirror` and `approve_unpays`:
a server always accepts the next request. It is not in the others, because one of their
parts is bounded and ends (a form submitted for good, a table full) or is a single state
(a label).

`NoReuseMidDelete` (`back_office`: a slug recreated while its deletion runs) excludes
something the code can do because a property fails there; the observations say so. These
bounds keep combinations apart for the sake of size, and the theorems need none of them:
`OneRotation` (`order_mirror`: two rotations overlap where no page is open, one at a time
beside a page), `OverlapOnOneRow` (`order_races`: two sweeps, refused updates and crashes
go with one delivery, two deliveries with one sweep and no loss), `LogForTheScript`
(`order_races`: half the log is left to runs of the script).

Where the code itself gives up a promise, the property says what is left of it, and the
observations what is not. `LinksStayShut` is about links no rotation under way had read
before they were shut (`ShutForGood`). `PostsAreCounted` is about deliveries that no two
sweeps listed together (`shared`, history); that a delivery is never forgotten and every
endpoint tried holds for all. `NoAddressLeftBehind` counts addresses and the orders a run
queued, not every order. `LabelIsWhole` is about names on the Xprinter's canvas.

### Fairness

- Lifecycle (`order_mirror`): a request that started goes on until it returns or dies
  (`HandlerFairness`); pretix repeats a delivery until it is answered and the server
  finds room for it (`DeliveryFairness`, strong, since other requests come between and
  `getOrder` may fail many times but not for ever).
- `register`: a request goes on; time passes; somebody opens the seat picker again and
  again. Apart from the next holdSeats that visit is the code's only sweeper
  (`seats/service.ts` header), and a hold nobody looks at stays in the table.
- `Door`: a request taken runs to its end; operators answer the prompts on the screen.
- `DoorPanel`: a call ends, with an answer or as lost (fetch rejects). `Printer`: the
  interval's probe fires, the import and each call end.
- `TicketPage`: a visible tab's timer fires, the server answers a refresh, the symbol is
  drawn.

Nothing forces an admin, an attendee, an operator with a free choice, or pretix to do
anything.

### Disagreements

Four runs show a disagreement between the code and what it, or its documentation, says;
each checks only the sentence in question, and the findings quote it.

| Run | What TLC finds |
|---|---|
| `approve_unpays` | approve() sets a registration that was already paid back to pending |
| `ledger_detach` | the sweep after a verification takes back what an operator detached |
| `badge_qr` | the payload of 48 characters needs a version-4 symbol at level Q, not version 3: it loses its blank margin |
| `wizard_total` | a session of two tickets is added past the total cap: the form sends what the server refuses |

## 4. Proofs

TLC explores the instances above; the theorems hold for every number of orders,
requests, seats, stations, addresses, endpoints and events, and every bound, under the
assumptions stated with the constants (names are distinct, subsets are subsets, bounds
are naturals, ids of orders are naturals, an event has a check-in list, a larger font is
nowhere narrower). Each follows one pattern: a strengthening that every step
preserves, one step per action, and the property read off it. Where a run explores
parts side by side, the theorem about its conjunction (`OutreachIsSound`,
`StationIsSafe`, `AttendeeIsSafe`, `OfficeIsSound`, `PagesAreTrue`) is about that
composition.

- `OrderLifecycle_proofs`. `CancelMirrored` is not inductive: cancelOrder and
  order.canceled write "canceled" because of something they learnt steps ago.
  `LifecycleInv` says that what is learnt stays true: a webhook is evidence of pretix's
  status (`HooksReport`), a task past its pretix call knows that status (`TasksKnow`), a
  scan under way is of a decided registration. `TicketIssuedOnce` further needs that a
  free order's approval about to issue is the only one (`ApprovalsToSync`) and that a
  ticket that is out leaves nothing for a compare-and-set to match (`NothingAwaited`).
  `PaidBeforeApproved` rests on `PolicyInv`: an approval past its read has seen the
  payment, and what it saw stays so; `LiveOrdersKeepSeats` on `ReleasersKnow`: whoever is
  about to release seats has seen the order die. Both are stated for sets of operations
  without those that break them (finance; approve and finance). `ViewRefinement` shows,
  without finance, that initial states map to initial states and every step to a step of
  `RegistrationView` or a stutter. (With finance it is false: a rejected registration
  can be marked paid.)
- `Registration_proofs`. `RegistrationInv`: a request that holds its invite is the only
  one that does, up to the row (`InviteReserved`), and seats assigned to a request are
  among those it wished, all of them once it is past confirming (`SeatsAsWished`).
  `OneOrderPerInvite` adds that a live order the platform knows of still has its invite
  or its row behind it, alone (`OrdersKnown`, `BackersAlone`); `FailedGiveSeatsBack` that
  seats in a request's name are accounted for by where the request is
  (`SeatsAccounted`). `PickerAgreesWithHold` relates two pieces of code that must agree:
  canSelect offers exactly the seats that holdSeats can take after its sweep.
  `StaffStrong` is about the staff forms: a detail nobody filled in is blank, what a form
  shows after it is sent is what the server will make of it, and a Fix differs from the
  row it was opened on in what was changed; `StaffSaysWhatItSaw` reads the promise about
  the stored row off it.
- `MergeLedger_proofs`. `LedgerInv` fits types, locks, lock order, jobs and events
  together: `LocksHold` (what was read under a lock is still so) makes the ledger
  truthful, `LocksAscend` (a holder only waits for larger ids) excludes the cycle. An
  action property is proved by what the three committing actions write. The theorem
  `MembersReceiveNothing` assumes `~GrantsRace`: see the observations.
- `Door_proofs`. `DoorInv` for any number of stations: a code is minted once because only
  one compare-and-set finds the column empty and the losers read what won (`FirmCode`),
  and what a request has read does not change any more; `TriesInv` adds that a request
  that may still draw a code has a try left for it. The station: `CameraInv` holds, of
  each run of the scanner's effect, what it may own at its place (`EffectOK`); `PrinterOK`
  counts the calls past each await, of which one at most dials; the screen's invariant
  falls into the rows of a search and the text they answer (`SearchOK`), the latched forms
  (`FormsOK`), the banner and the prints under way (`ScreenOK`) and the lists per lane
  (`LanesOK`). Labels are computed, so their theorems are about functions: a stretch of a
  line that fits, fits (`FitsWithin`); the greedy wrap ends with everything placed exactly
  where some breaking fits (`WholeIs`); the size found is the largest of those
  (`LargestIs`); lines, band and symbol stay in their columns (`InkIsSafe`); and packing
  a row of dots into bytes loses none, bit by bit (`BitsAre`, `PackingIs`).
- `TicketPage_proofs`. A version a rotation is about to write may be older than the row's
  by then, so versions need not grow. What is shut stays shut because a rotation that
  begins later makes a newer version than any it finds (`StaysShutForGood`: one step;
  `DeadLinksStayDead`, `NeverOpensAgain`); only rotations that had read the row before are
  excepted, and `ShutForGood` looks at exactly those. A symbol belongs to the link in the address
  and one tab at most has an order's reveal to play (`PagesOK`); no mail leaves without
  its request being counted (`MailInv`). The contact card is proved for every text
  (`CardIsTrue`), along the text: a set of naturals with 0 and every successor has them
  all (`AllNaturals`), so what holds of the empty text and survives one more character
  holds of every text (`AllTexts`). `FlatIs`, `ScannedIs` and `CutsIs` unfold the fold of
  the library, the reader and the cut into a step per character. Doubling backslashes
  and folding line breaks commute (`FoldCommutes`), so the escape writes a mark per
  character (`MarkedIs`) with no line break in it (`MarkedIsOneLine`), a reader gives the
  character back wherever it stands (`MarkedReads`), and the file is cut into the lines
  that were written (`FileIs`). `PagesAreTrue` puts the two together, as the run has them.
- `Accounts_proofs`. A live code or link has not been accepted yet (`CodesInv`,
  `LinksInv`); sessions, and the rows that sign-ins have read and still compare, agree
  with the account where their version does (`SessionsInv`, over `PostInv`). The form:
  `WizardOK` adds to its invariant that every draft is a form of its own event with
  nothing hidden in it. `FormsAreAccepted` proves `SentIsAccepted` from `CapsOK`: the form
  and every draft are within the caps and free of conflicts, whichever step is on screen,
  because whoever adds a ticket adds one (`OneMoreTicket`) and everything else leaves
  fewer (`FewerIsWithin`). It assumes `SingleSessions`, one ticket per user and session
  (the schema's default); the run `wizard_total` shows that it is false without.
- `EventAdmin_proofs`. A file an upload has written is nobody else's: not the cover, not
  another upload's, not what any request has read and may delete (`CoversOK`, over
  `StoresOK` and `JobsOK`); so what is unlinked is never what the row names.
  `RegistrationsSurvive` is about the steps under `NoReuseMidDelete`, as the run is. The
  catalogue: `ShopInv` says how far each batch is in its edit and what that has left in
  pretix (`BatchesOK`), and that an editor holds no item pretix never gave (`PageOK`); so
  the row of a session goes only after its item. Lists: `MembersOK` keeps a
  workshop organiser's grant within their organization, so a listed event opens
  (`ListsAreJustified`). Rosters: what a sweep read of an order is somewhere between that
  order at its start and now (`Follows`), since seats are only ever canceled; a roster
  therefore has everybody who had a seat from the start of the sweep to its end.
- `Outreach_proofs`. `ListInv`: the last position read by a join is covered by entries
  that stay, so what it writes leaves no hole and stands after all that were there when
  it began. `BatchInv`: what a panel reports is what the rows say. `WebInv`, for any
  number of sweeps: a row in its first attempt is in no other hands (`EmittersApart`,
  `EmitterOK`); what a sweep believes of a row it listed is still so unless another sweep
  listed it too (`Known`, `Alone`), and then the posts are those its attempts account for
  (`RowOK`); shared or not, an update leaves a row taken, given up or due.
  `MailInv`: a row that says sent has arrived (`SentHaveArrived`); the script's queue has
  each address without a success once, with the order of its newest failure (`QueueOK`);
  what it has tried is the queue so far, each either sent or failed (`TriedOK`).

Where a proof needs an induction over a finite set (the latest of the rows of a
recipient, the last of a list), it takes a minimal counterexample of a well-founded
relation, or the least number, instead.

Only model-checked: every liveness property (`CanceledFreesSeat`, `MirrorCatchesUp`,
`HoldComesBack`, `RedeemedGetsBadge`, `NothingLatches`, `PrinterComesBack`,
`TicketArrives`), which is beyond the proof system. Every safety invariant and action
property of a passing run is stated by a theorem.

## 5. Other observations

Facts met while modelling that no run states: most because nothing in the repository
promises the contrary, some because each would take a run of its own.

Orders and registration
- An approve that read the row before a cancellation writes status pending over
  canceled: the registration is live again, without the seat that was released
  (`approval/service.ts:127-130` guards approvalStatus only). `LiveOrderKeepsSeat` is
  therefore checked without approve and finance.
- Finance takes pretix's refusal of a canceled order for "already paid"
  (`finance/service.ts:92`, against its comment at 90), may mark paid a registration
  nobody has decided, and one rejected meanwhile (108 writes unconditionally).
- reject refuses paid orders on the row it read; a payment that arrives before its update
  ends as a rejected registration with money in pretix (`approval/service.ts:229`).
  Likewise `pretix/handlers/order-paid.ts:45` decides on the approval it read.
- A webhook for an order whose row does not exist yet is answered 200 and lost
  (`pretix/handlers/order-canceled.ts:17`).
- A handler that dies between the status update and releaseSeats leaves the seats sold:
  every retry returns early (`order-canceled.ts:19`; README.md:226). A failed mark-paid
  cancels the order and never releases them (`registration/service.ts:266`, against
  217-218); a crash between confirmSeats and the row (328) loses them too.
  `CanceledFreesSeat` and `SeatsReturn` exempt these.
- A throw between the invite's claim and createOrder keeps the invite spent
  (`registration/service.ts:161, 182, 198`, against the comment at 138-139). createOrder
  that times out after pretix acted, and a retry, give two paid orders of one invite
  (210-211 against 260-266), so `OneLiveOrderPerInvite` counts orders whose code the
  platform learnt and that have no seats. If taking the seats and the cancellation both
  fail, the pretix order stays and the invite is freed (217-229).
- Form: a rejected registerAction leaves `busy` latched; a draft with an invite-only tier
  reopened without the invite keeps an invisible tier; blanking the fields leaves the
  older draft; seats may be chosen without limit before a ticket is.

Accounts
- A membership granted while a link waits for a row lock is not noticed: the check is at
  the start of a READ COMMITTED transaction (`merge/ledger.ts:111`). With
  `GrantsRace = TRUE` TLC violates `StaffReceiveNothing`.
- reversedAt is read without a lock (`merge/ledger.ts:272`): of two reversals of one event
  that wait for the same row, the second may move an order linked to the same account
  again in between. After thirty days a link can neither be reversed nor unlinked:
  unlinkOrder finds the expired event still open and reverseMergeEvent refuses, asking to
  "unlink the registration instead" (`merge/admin.ts:150`, `merge/ledger.ts:284`).
  unlinkOrder on one order of a sweep reverses the whole event, other organizations'
  orders too; reverseFromLedger checks for that, unlinkOrder does not.
- Two resends at once leave two live codes of one flow, though `storeAndSendCode` says
  "one flow never has two valid codes"; parallel guesses all pass the attempts that were
  read (`auth/email-verification.ts:224`). An interrupted invitation leaves an account
  without membership, and its retry is refused. A link burned by a failed password write
  is by design.

Door
- A print of A that resolves late overwrites B's red banner with green. A reply after a
  lane switch is remembered in the new lane. Fix sends every field, so another station's
  correction is silently reverted (`attendee-edit.tsx`). After Escape, rows are emptied
  but not `rowsQuery`: a walk-in is offered for a stale text (`checkin-panel.tsx:711`,
  329, against 752-755). A reply of Fix or a walk-in clears the box against another
  request's text. A redemption at the door comes back as checkin.created and may race the
  door's own log row for the count of earlier prints.
- `print-client`'s promise of the library caches a rejected import: Retry does nothing
  until the page is reloaded. `PrinterComesBack` therefore asks for an import that did not
  fail. A probe clears the panel's latch even where the failure was the station's inability
  to draw TSPL, every thirty seconds. A second call while the socket is dialled is refused
  and reported as "unreachable"; overlapping probes may answer out of order.
- The scanner's cleanup does not await its stop before the next effect starts; stop() on a
  scanner still opening is assumed to reject or do nothing.
- Labels: upper-casing a role may lengthen it ("ß") past 25 characters; a foreign name
  prints as a blank line (`hasUnprintableName` has no caller); a foreign company is dropped;
  with a longer host the code is omitted and only logged.
- A rejected walkInAction leaves the desk's `busy` latched; Fix does not tie a title to the
  company; a row tagged other without a text traps Fix until a role is typed.
- The role of a correction is resolved assuming the event has at least one check-in list
  (`ListsAssumption`).

- On the PC42d a name is printed at 40 dots in a block of two lines, whatever its length:
  `badge-zpl.ts:212` neither shrinks nor wraps by `fitName`, as the canvas does. A word
  wider than the block is cut at its edge, and a third line is printed over the second.

Attendee
- On pages opened by order code the refresh counts against the 20 look-ups a minute of an
  address (`security/order-lookup.ts`): several phones behind one router turn a waiting
  page into "Too many requests", which has no timer. `TicketArrives` is stated for link
  pages. The reveal may be spent on a page that waits, so the ticket gets none. Resend on
  a revoked order mails a dead link. Limits are per process; a restart clears them.
- `rotateOrderMagicLink` reads the version and writes it plus one, clearing revokedAt,
  without a lock (`registration/access.ts:73-85`). Two rotations that read the same
  version, with a revocation between their writes, reopen the link that was revoked. One
  that is slow enough writes an older version back over a newer one, and a link that had
  been replaced opens again, against "invalidate every link mailed before it" (line 60).

Office
- Tickets editor: sessions' items are listed as tickets, and removing one leaves a dangling
  sub-event row; saved again before the refresh, new rows are created again; after a
  half-done delete every later Save fails with 404; quotas are deleted before pretix may
  refuse the item ("nothing is removed", `events/service.ts:631-632`); between createItem
  and its row a session is listed as a main ticket, "never" by `events/public.ts:125-126`;
  "nothing was changed" is also said when only the reply was lost.
- Events: an audit failure after the mapping is created rolls back pretix and keeps the
  mapping (`events/service.ts:92-93`, 145-153); concurrent edits, or a delayed webhook,
  leave `liveOnPretix` unlike pretix ("this removes the race", 250-251); a slug recreated
  while its deletion runs can cost a registration or the new pretix event; setCoverFocus
  may put the old picture's focus on a new one; setTicketInviteOnly loses one of two
  concurrent toggles; two uploads leave a superseded file.
- Lists: a broad role granted after workshop_organiser elsewhere is not refused
  (`users/actions.ts:95-127`); expired orders pass the session filter but not the rosters;
  a roster may call an order that registered during its sweep foreign. The model assumes
  pretix lists orders in ascending order of placement.

What is sent out
- `resend-failed-tickets.ts` goes by address. Somebody who registered twice gets the
  ticket of the newest failure only; after that, or after any other success, the address
  counts as served (54-61), also by a mail sent before the failure and about another
  order, though the comment at 50-52 says "a later SUCCESSFUL send". So a second order's
  ticket is never sent by the script. `failures` is not reset by a success though the
  message says consecutive (103-106). A failed mail whose log row was lost is invisible.
  The script's two reads of the log (50, 56) are one in the model. The admin's resend reports the latest failed row of the recipient,
  perhaps another mail's.
- join is not idempotent under concurrency (`waitlist/service.ts:11`): `WaitlistInv` lets
  an address wait twice only if its joins overlapped.
- A throw in createEmailInvites strands the addresses after it, and a retry throws at the
  same one (a spent invite reissued with the same terms signs the same token,
  `events/service.ts:891`). The panel's send has no catch.
- `retryDue` takes no lock (`webhooks/service.ts:108-122`). Two runs at once post the same
  delivery twice, each with the attempts it read: the endpoint may hear of it more than
  MAX_ATTEMPTS times, attempts may go down again, and a failure may overwrite a success,
  so that it is posted once more.
- A disabled endpoint may get a retry listed before (`webhooks/service.ts:109-111`);
  `deliver` throws if both updates fail ("Never throws"); an update refused after a 2xx is
  recorded as a failure and sent again; the row of an emit that died is never retried.
  Nothing in the source calls retryDue(), cleanup(), rotate, revokeOrderMagicLink or
  archive() but tests (README.md:471-472 calls the first two "admin-invoked services").

## 6. Not modelled

- The archive: archive() and cleanup() have no caller, so nothing for restore and purge to
  act on. (cleanup would purge a row restored after it was listed.)
- Integrations, custom fields, payment and message providers: single rows stored and read
  back whole, and placeholders.
- Security headers, comparison, audit, calendar, i18n, themes; wording, templates and
  layout of pages: output no other part reads.
- Within modelled components: the mails and audit rows of the lifecycle; prices, answers
  and addresses of a registration; impersonation, profile, throttles of codes; setCoverFocus,
  setTicketInviteOnly, quota sizes, questions; text filters, sorting, exports; the door's
  statistics, focus, counters and the notice of an ignored key; leaving the page in the
  middle of a print and request signing (`qz-signing`); email, phone and ticket picker of
  the staff forms; the external API's reads, keys and limits; webhook signatures and the
  guard against private addresses. pretix itself is external: only its replies and its
  state as the callers see it are modelled.

## 7. What could follow

The ticket page over several tabs that share a limit; the archive, once something calls
it.
