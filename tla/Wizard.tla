------------------------------- MODULE Wizard -------------------------------
(***************************************************************************)
(* The public registration form: up to four steps over one event, a draft   *)
(* of it per event in the tab's session storage, and the server's check of  *)
(* what it sends.  The attendee goes back and forth, changes the tickets    *)
(* after the sessions, reloads, and opens another event's form while a      *)
(* submission is in flight.                                                 *)
(*                                                                          *)
(* A detail block is blank, partial or valid; seats are a number; the       *)
(* answers are those to one required question of the tiers in Asks.  Every  *)
(* event sells the same items under the same caps (rule), and its link      *)
(* (hence its invite) is the same on every visit.                           *)
(***************************************************************************)
EXTENDS Naturals, FiniteSets

CONSTANTS Events,           \* slugs
          Tiers, Sessions,  \* pretix items: main tickets and sub-events
          Category, Gated,  \* of each session; the categories needing opt-in
          Starts, Ends,     \* of each session
          PerUser,          \* of each session: ticketsPerUser
          Asks,             \* tiers that ask the required question
          Seats,            \* free seats on the event's map, 0 without one
          Rules,            \* the [main, total] caps per user to explore
          NoEvent

ASSUME EventAssumption == NoEvent \notin Events
ASSUME ProgrammeAssumption ==
    /\ Starts \in [Sessions -> Nat] /\ Ends \in [Sessions -> Nat]
    /\ PerUser \in [Sessions -> Nat \ {0}]
    /\ Asks \subseteq Tiers /\ Seats \in Nat
ASSUME RuleAssumption == \A r \in Rules : r.main \in Nat /\ r.total \in Nat

VARIABLES rule,         \* the caps of this programme
          slug,         \* the event whose form is on screen
          restoredFor,  \* the event whose draft the form state belongs to
          restored,     \* "We kept what you had already filled in"
          step, form, seats,
          consent,      \* the event whose three boxes are ticked, or NoEvent
          busy,
          submitted,    \* what registerAction was last called with, in flight
          gone,         \* redirected after a registration
          drafts        \* session storage, per event

page == <<slug, restoredFor, restored, step, form, seats, consent, busy, submitted, gone>>
wizardVars == <<rule, page, drafts>>

Empty == [i \in {} |-> 0]
Blank == [from |-> NoEvent, details |-> "blank", qty |-> Empty, chosen |-> Empty,
          optedIn |-> {}, answers |-> "none"]
NoCall == [event |-> NoEvent, form |-> Blank, seats |-> 0, consent |-> NoEvent]

----------------------------------------------------------------------------
(* Reading the form. *)

Count(q, i) == IF i \in DOMAIN q THEN q[i] ELSE 0
\* A counter as the tickets it counts, numbered per item.
Tickets(q) == UNION {{i} \X (1..q[i]) : i \in DOMAIN q}
Total(q) == Cardinality(Tickets(q))
SetCount(q, i, n) == [j \in DOMAIN q \cup {i} |-> IF j = i THEN n ELSE q[j]]
Only(q, S) == [j \in DOMAIN q \cap S |-> q[j]]

Chosen(f) == {t \in Tiers : Count(f.qty, t) > 0}
HasTickets(f) == \E t \in DOMAIN f.qty : f.qty[t] > 0
Visible(s, opted) == Category[s] \notin Gated \/ Category[s] \in opted
MissingAnswers(f) == Chosen(f) \cap Asks # {} /\ f.answers # "given"
SeatsSatisfied(f, n) == Seats > 0 => n = Total(f.qty)
Overlaps(s, r) == Starts[s] < Ends[r] /\ Starts[r] < Ends[s]
Rivals(s, S) == {r \in S \ {s} : Category[r] = Category[s] /\ Overlaps(s, r)}

SessionsStep == 2
ConfirmStep == IF Sessions = {} THEN 2 ELSE 3

\* The server's reading of a submission: the schema, the caps and conflicts.
Accepted(c) ==
    LET mains == Total(c.form.qty)
        subs == Total(c.form.chosen) IN
    /\ c.form.details = "valid" /\ c.consent = c.event
    /\ mains > 0 /\ mains <= rule.main /\ mains + subs <= rule.total
    /\ \A s \in DOMAIN c.form.chosen :
          c.form.chosen[s] <= PerUser[s] /\ Rivals(s, DOMAIN c.form.chosen) = {}
    /\ SeatsSatisfied(c.form, c.seats) /\ ~MissingAnswers(c.form)

----------------------------------------------------------------------------
(* The draft. *)

\* phoneCC and the opt-ins do not count: an untouched form is not a draft.
HasContent(f) == \/ f.details # "blank" \/ f.answers # "none"
                 \/ DOMAIN f.qty # {} \/ DOMAIN f.chosen # {}

\* One key per event, written and cleared; the storage is taken to work.
saveDraft(e, f) == [drafts EXCEPT ![e] = f]
clearDraft(e) == [drafts EXCEPT ![e] = Blank]

\* A plausible bug: the save does not wait for the restore.
SaveAnyRender(e, f) == IF HasContent(f) THEN saveDraft(e, f) ELSE drafts

\* The effect on every change of the form; it skips the render where the
\* event has changed but its own draft has not been put on screen yet.
Saved(e, f) == IF restoredFor = e /\ HasContent(f) THEN saveDraft(e, f) ELSE drafts

\* What comes back from storage: a zero counter is dropped.
numberMap(q) == Only(q, {t \in DOMAIN q : q[t] > 0})
Loaded(f) == [f EXCEPT !.qty = numberMap(f.qty)]

----------------------------------------------------------------------------
(* The attendee.  React flushes effects before the next event is handled:   *)
(* nothing is typed into a form whose draft has not been restored.          *)

OnStep(n) == ~gone /\ restoredFor = slug /\ step = n

Enter(f) == /\ form' = [f EXCEPT !.from = slug]
            /\ drafts' = Saved(slug, form')
            /\ UNCHANGED <<rule, slug, restoredFor, restored, step, seats, consent,
                           busy, submitted, gone>>

TypeDetails == OnStep(0) /\ \E d \in {"blank", "partial", "valid"} \ {form.details} :
                                Enter([form EXCEPT !.details = d])

StartOver ==
    /\ OnStep(0) /\ restored
    /\ form' = Blank /\ seats' = 0 /\ restored' = FALSE
    /\ drafts' = clearDraft(slug)
    /\ UNCHANGED <<rule, slug, restoredFor, step, consent, busy, submitted, gone>>

\* One main ticket per person: a radio, blocked by the total cap alone.
SingleChoiceBlocked == 1 + Total(form.chosen) > rule.total
ChooseTier(t) ==
    /\ OnStep(1) /\ rule.main = 1
    /\ IF Count(form.qty, t) > 0 THEN Enter([form EXCEPT !.qty = Empty])
       ELSE /\ ~SingleChoiceBlocked
            /\ Enter([form EXCEPT !.qty = SetCount(Empty, t, 1)])

\* A plausible bug: sessions chosen earlier are forgotten.
MainCapOnly == Total(form.qty) < rule.main

CanAddMainTicket == /\ Total(form.qty) < rule.main
                    /\ Total(form.qty) + Total(form.chosen) < rule.total
AddTicket(t) ==
    /\ OnStep(1) /\ rule.main # 1 /\ CanAddMainTicket
    /\ Enter([form EXCEPT !.qty = SetCount(form.qty, t, Count(form.qty, t) + 1)])
RemoveTicket(t) ==
    /\ OnStep(1) /\ rule.main # 1 /\ Count(form.qty, t) > 0
    /\ Enter([form EXCEPT !.qty = SetCount(form.qty, t, form.qty[t] - 1)])

\* Un-ticking a category takes its sessions out of the order.
ToggleCategory(c) ==
    LET opted == IF c \in form.optedIn THEN form.optedIn \ {c} ELSE form.optedIn \cup {c}
    IN /\ OnStep(1)
       /\ Enter([form EXCEPT !.optedIn = opted,
                             !.chosen = Only(form.chosen, {s \in Sessions : Visible(s, opted)})])

AnswerQuestion ==
    /\ OnStep(1) /\ Chosen(form) \cap Asks # {}
    /\ \E a \in {"blank", "given"} \ {form.answers} : Enter([form EXCEPT !.answers = a])

\* As many seats as tickets; before a ticket is chosen, as many as there are.
ToggleSeat ==
    /\ OnStep(1)
    /\ \/ /\ seats < Seats /\ (Total(form.qty) > 0 => seats < Total(form.qty))
          /\ seats' = seats + 1
       \/ seats > 0 /\ seats' = seats - 1
    /\ UNCHANGED <<rule, slug, restoredFor, restored, step, form, consent, busy, submitted,
                   gone, drafts>>

\* The picker: a conflict or the total cap stops a session not yet chosen,
\* its own cap every other one.
TotalAllowance == IF Total(form.qty) > rule.total THEN 0 ELSE rule.total - Total(form.qty)
Selectable(s) == /\ Rivals(s, DOMAIN form.chosen) = {}
                 /\ Total(form.chosen) < TotalAllowance
AddSession(s) ==
    /\ OnStep(SessionsStep) /\ SessionsStep < ConfirmStep /\ Visible(s, form.optedIn)
    /\ Count(form.chosen, s) = 0 => Selectable(s)
    /\ Count(form.chosen, s) < PerUser[s]
    /\ Enter([form EXCEPT !.chosen = SetCount(form.chosen, s, Count(form.chosen, s) + 1)])
RemoveSession(s) ==
    /\ OnStep(SessionsStep) /\ SessionsStep < ConfirmStep /\ Visible(s, form.optedIn)
    /\ s \in DOMAIN form.chosen
    /\ Enter([form EXCEPT !.chosen = IF form.chosen[s] = 1 THEN Only(form.chosen, Sessions \ {s})
                                     ELSE SetCount(form.chosen, s, form.chosen[s] - 1)])

Tick == /\ OnStep(ConfirmStep)
        /\ consent' = IF consent = NoEvent THEN slug ELSE NoEvent
        /\ UNCHANGED <<rule, slug, restoredFor, restored, step, form, seats, busy, submitted,
                       gone, drafts>>

----------------------------------------------------------------------------
(* Moving through the steps. *)

Turn(n) == /\ step' = n
           /\ UNCHANGED <<rule, slug, restoredFor, restored, form, seats, consent, busy,
                          submitted, gone, drafts>>

StepDone == CASE step = 0 -> form.details = "valid"
              [] step = 1 -> /\ HasTickets(form) /\ SeatsSatisfied(form, seats)
                             /\ ~MissingAnswers(form)
              [] OTHER -> TRUE
NextStep == step < ConfirmStep /\ OnStep(step) /\ StepDone /\ Turn(step + 1)
Back == step > 0 /\ OnStep(step) /\ ~busy /\ Turn(step - 1)
EditDetails == OnStep(ConfirmStep) /\ Turn(0)

Submit ==
    /\ OnStep(ConfirmStep) /\ ~busy
    /\ consent # NoEvent /\ SeatsSatisfied(form, seats) /\ ~MissingAnswers(form)
    /\ busy' = TRUE
    /\ submitted' = [event |-> slug, form |-> form, seats |-> seats, consent |-> consent]
    /\ UNCHANGED <<rule, slug, restoredFor, restored, step, form, seats, consent, gone, drafts>>

\* The attendee is on whatever form and step they moved to meanwhile.
Registered ==
    /\ submitted # NoCall
    /\ gone' = TRUE /\ busy' = FALSE /\ submitted' = NoCall
    /\ drafts' = clearDraft(submitted.event)
    /\ UNCHANGED <<rule, slug, restoredFor, restored, step, form, seats, consent>>
FormRefused ==
    /\ submitted # NoCall /\ restoredFor = slug
    /\ busy' = FALSE /\ submitted' = NoCall /\ step' \in {step, 0}
    /\ UNCHANGED <<rule, slug, restoredFor, restored, form, seats, consent, gone, drafts>>
\* The call itself fails: nothing catches it, and the button stays disabled.
CallFails ==
    /\ submitted # NoCall /\ submitted' = NoCall
    /\ UNCHANGED <<rule, slug, restoredFor, restored, step, form, seats, consent, busy,
                   gone, drafts>>

----------------------------------------------------------------------------
(* Arriving: by a client navigation that keeps the component, or by a load. *)

\* The render with the new slug and the old form; the save effect runs on it.
Navigate(e) ==
    /\ ~gone /\ restoredFor = slug /\ e # slug
    /\ slug' = e /\ drafts' = Saved(e, form)
    /\ UNCHANGED <<rule, restoredFor, restored, step, form, seats, consent, busy, submitted, gone>>

Restore ==
    LET draft == Loaded(drafts[slug]) IN
    /\ ~gone /\ restoredFor # slug
    /\ form' = IF HasContent(draft) THEN draft ELSE Blank
    /\ restored' = HasContent(draft)
    /\ restoredFor' = slug
    /\ seats' = 0 /\ consent' = NoEvent /\ step' = 0
    /\ UNCHANGED <<rule, slug, busy, submitted, gone, drafts>>

\* A load: what the page had in flight answers to nobody.
Visit(e) ==
    /\ slug' = e /\ restoredFor' = NoEvent /\ restored' = FALSE
    /\ step' = 0 /\ form' = Blank /\ seats' = 0 /\ consent' = NoEvent
    /\ busy' = FALSE /\ submitted' = NoCall /\ gone' = FALSE
    /\ UNCHANGED <<rule, drafts>>

WizardInit ==
    /\ rule \in Rules /\ slug \in Events /\ restoredFor = NoEvent /\ restored = FALSE
    /\ step = 0 /\ form = Blank /\ seats = 0 /\ consent = NoEvent
    /\ busy = FALSE /\ submitted = NoCall /\ gone = FALSE
    /\ drafts = [e \in Events |-> Blank]

WizardNext ==
    \/ TypeDetails \/ StartOver \/ AnswerQuestion \/ ToggleSeat \/ Tick
    \/ \E t \in Tiers : ChooseTier(t) \/ AddTicket(t) \/ RemoveTicket(t)
    \/ \E c \in Gated : ToggleCategory(c)
    \/ \E s \in Sessions : AddSession(s) \/ RemoveSession(s)
    \/ NextStep \/ Back \/ EditDetails
    \/ Submit \/ Registered \/ FormRefused \/ CallFails
    \/ Restore
    \/ \E e \in Events : Navigate(e) \/ Visit(e)

WizardSpec == WizardInit /\ [][WizardNext]_wizardVars

----------------------------------------------------------------------------
(* What the form promises. *)

IsForm(f) ==
    /\ f = [from |-> f.from, details |-> f.details, qty |-> f.qty, chosen |-> f.chosen,
            optedIn |-> f.optedIn, answers |-> f.answers]
    /\ f.from \in Events \cup {NoEvent} /\ f.details \in {"blank", "partial", "valid"}
    /\ DOMAIN f.qty \subseteq Tiers /\ f.qty \in [DOMAIN f.qty -> Nat]
    /\ DOMAIN f.chosen \subseteq Sessions /\ f.chosen \in [DOMAIN f.chosen -> Nat \ {0}]
    /\ f.optedIn \subseteq Gated /\ f.answers \in {"none", "blank", "given"}

WizardTypeOK ==
    /\ rule \in Rules /\ slug \in Events /\ restoredFor \in Events \cup {NoEvent}
    /\ restored \in BOOLEAN /\ busy \in BOOLEAN /\ gone \in BOOLEAN
    /\ step \in 0..ConfirmStep /\ seats \in 0..Seats /\ consent \in Events \cup {NoEvent}
    /\ IsForm(form) /\ \A e \in Events : IsForm(drafts[e])
    /\ \/ submitted = NoCall
       \/ /\ submitted.event \in Events /\ submitted.consent \in Events
          /\ IsForm(submitted.form) /\ submitted.seats \in Nat

\* A draft, a form and a ticked consent hold only what was entered for the
\* event they are under.
OfItsEvent ==
    /\ \A e \in Events : drafts[e].from \in {NoEvent, e}
    /\ restoredFor = slug => form.from \in {NoEvent, slug} /\ consent \in {NoEvent, slug}

\* Whatever the attendee went back to change, the steps behind them hold.
StepsBehind ==
    restoredFor = slug =>
        /\ step >= 1 => form.details = "valid"
        /\ step >= 2 => /\ HasTickets(form) /\ SeatsSatisfied(form, seats)
                        /\ ~MissingAnswers(form)

\* A hidden session is in no form and in no draft.
NothingHidden == \A f \in {form} \cup {drafts[e] : e \in Events} :
                     \A s \in DOMAIN f.chosen : Visible(s, f.optedIn)

\* The invariant of the form, whatever the order of the steps.
WizardInv == WizardTypeOK /\ OfItsEvent /\ StepsBehind /\ NothingHidden
             /\ (submitted # NoCall => busy)

\* Whatever the wizard sends, the server's own rules accept: the caps, the
\* conflicts, the seats, the answers, and consents ticked for that event.
SentIsAccepted == submitted # NoCall => Accepted(submitted)

=============================================================================
