----------------------------- MODULE TicketMail -----------------------------
(***************************************************************************)
(* The mailbox and its log (email/service.ts), an organiser's resend        *)
(* (admin/emails.ts) and the script that mails every ticket again that the  *)
(* mailbox refused (scripts/resend-failed-tickets.ts).  The log knows a mail *)
(* by its address and by the order it is about; one address may hold several *)
(* orders.  The mailbox may start and stop refusing at any time, and the log *)
(* is written best-effort.                                                  *)
(***************************************************************************)
EXTENDS Naturals, FiniteSets, Sequences

CONSTANTS
    Recipients,   \* addresses
    Mails,        \* orders whose ticket is mailed
    AddressOf,    \* the address each of them registered with
    MailModes,    \* smtp, or disabled
    MaxMails,     \* bound on the log's rows
    MaxGot,       \* bound on the mails that arrive for one order
    Limit,        \* --limit of the script
    GiveUpAfter   \* failures that end the script: 2

ASSUME MailModesAssumption == MailModes \subseteq {"smtp", "disabled"}
ASSUME AddressAssumption == AddressOf \in [Mails -> Recipients]
ASSUME LimitsAssumption ==
    /\ {MaxMails, MaxGot} \subseteq Nat
    /\ Limit \in Nat /\ GiveUpAfter \in Nat \ {0}

VARIABLES
    mode,       \* emailMode: set when the container starts
    refusing,   \* the mailbox rejects every login
    log,        \* EmailLog, oldest first: the order and the status
    got,        \* mails that have arrived for each order
    script,     \* the run of the script: its queue and whom it has tried
    before      \* the log when the run began

outboxVars == <<mode, refusing, log, got, script, before>>

NoRun == [at |-> "idle", queue |-> <<>>, sent |-> <<>>, failed |-> <<>>]

MailboxInit ==
    /\ mode \in MailModes /\ refusing \in BOOLEAN
    /\ log = <<>> /\ got = [m \in Mails |-> 0]
    /\ script = NoRun /\ before = <<>>

-----------------------------------------------------------------------------
Outcome == IF mode = "disabled" THEN "disabled"
           ELSE IF refusing THEN "failed" ELSE "sent"

\* One row per attempt, unless the write fails; never an exception.
sendEmail(m) ==
    /\ Len(log) < MaxMails /\ got[m] < MaxGot
    /\ log' \in {log, Append(log, [of |-> m, status |-> Outcome])}
    /\ got' = [got EXCEPT ![m] = @ + IF Outcome = "sent" THEN 1 ELSE 0]

Registered(m) == sendEmail(m) /\ UNCHANGED <<mode, refusing, script, before>>

\* The admin's button: the logged mail goes out again, whatever became of it.
resendEmail(i) ==
    /\ i \in DOMAIN log /\ sendEmail(log[i].of)
    /\ UNCHANGED <<mode, refusing, script, before>>

Outage ==
    /\ refusing' = ~refusing /\ UNCHANGED <<mode, log, got, script, before>>

-----------------------------------------------------------------------------
(* The script.  Another run beside this one sends what resendEmail may.     *)

To(rows, i) == AddressOf[rows[i].of]

With(rows, status) == {To(rows, i) : i \in {k \in DOMAIN rows : rows[k].status = status}}

\* The last failed row of its address.
NewestFailure(rows, i) ==
    /\ rows[i].status = "failed"
    /\ \A k \in (i + 1)..Len(rows) :
          rows[k].status = "failed" => To(rows, k) # To(rows, i)

\* The newest failure of an address without a ticket in the log.
StillWithout(rows, i) == NewestFailure(rows, i) /\ To(rows, i) \notin With(rows, "sent")

Unserved(rows) == {i \in DOMAIN rows : StillWithout(rows, i)}
NewestFirst(S) == {rows \in [1..Cardinality(S) -> S] :
                      \A i, k \in DOMAIN rows : i < k => rows[i] > rows[k]}

\* Their orders: there is one such queue.
Queue == {[i \in DOMAIN rows |-> log[rows[i]].of] : rows \in NewestFirst(Unserved(log))}

\* By hand, again after a run has ended, given up or died.
StartScript ==
    /\ script.at # "sending" /\ mode # "disabled"
    /\ \E queue \in Queue : script' = [NoRun EXCEPT !.at = "sending", !.queue = queue]
    /\ before' = log
    /\ UNCHANGED <<mode, refusing, log, got>>

Tried == Len(script.sent) + Len(script.failed)

\* One attempt per address; failures end the run.
SendNext ==
    /\ script.at = "sending" /\ Tried < Len(script.queue) /\ Tried < Limit
    /\ LET m == script.queue[Tried + 1]
       IN  /\ sendEmail(m)
           /\ script' =
                IF Outcome = "sent" THEN [script EXCEPT !.sent = Append(@, m)]
                ELSE [script EXCEPT !.failed = Append(@, m),
                                    !.at = IF Len(script.failed) + 1 >= GiveUpAfter
                                           THEN "stopped" ELSE "sending"]
    /\ UNCHANGED <<mode, refusing, before>>

EndScript ==
    /\ script.at = "sending" /\ (Tried = Len(script.queue) \/ Tried >= Limit)
    /\ script' = [script EXCEPT !.at = "done"]
    /\ UNCHANGED <<mode, refusing, log, got, before>>

\* The process is killed: between two mails, or with one sent and not yet logged.
ScriptDies ==
    /\ script.at = "sending" /\ script' = [script EXCEPT !.at = "dead"]
    /\ UNCHANGED <<mode, refusing, log, got, before>>

MailboxNext ==
    \/ \E m \in Mails : Registered(m)
    \/ \E i \in 1..MaxMails : resendEmail(i)
    \/ Outage \/ StartScript \/ SendNext \/ EndScript \/ ScriptDies

MailboxSpec == MailboxInit /\ [][MailboxNext]_outboxVars

-----------------------------------------------------------------------------
\* The log never claims a mail that did not go out.
LogIsHonest ==
    \A m \in Mails :
        Cardinality({i \in DOMAIN log : log[i] = [of |-> m, status |-> "sent"]}) <= got[m]

Tries == script.sent \o script.failed

\* A run, the first or one after it, mails no address twice; only orders whose mail
\* was the newest the log knew to have failed for an address, and none whose
\* address had a ticket in the log, be it from a run before that died; and it gives
\* up after so many failures.
OneTryEach ==
    /\ \A i, k \in DOMAIN Tries : AddressOf[Tries[i]] = AddressOf[Tries[k]] => i = k
    /\ \A i \in DOMAIN Tries : \E k \in Unserved(before) : before[k].of = Tries[i]
    /\ Len(script.failed) <= GiveUpAfter /\ Len(Tries) <= Limit

\* Somebody with this address has a ticket, for one of the address's orders.
Served(a) == \E m \in Mails : AddressOf[m] = a /\ got[m] > 0

\* A run that came to its end without a failure leaves no address behind for which
\* the log knew of a failed mail, and none of the orders it was to mail.  (Not: no
\* order.  The script goes by address, and a second order's mail stays unsent.)
NoAddressLeftBehind ==
    script.at = "done" /\ script.failed = <<>> /\ Len(script.queue) <= Limit =>
        /\ \A k \in DOMAIN before : before[k].status = "failed" => Served(To(before, k))
        /\ \A k \in Unserved(before) : got[before[k].of] > 0

MailboxInv == LogIsHonest /\ OneTryEach /\ NoAddressLeftBehind
=============================================================================
