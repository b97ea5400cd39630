-------------------------- MODULE WebhookDelivery --------------------------
(***************************************************************************)
(* Webhooks an organisation receives (webhooks/service.ts and               *)
(* admin-service.ts).  An event is emitted to every endpoint that was       *)
(* active when it was listed, one after the other; a delivery is a row, one *)
(* POST and an update of the row, any of which may fail on its own.         *)
(***************************************************************************)
EXTENDS Naturals, FiniteSets, Sequences

CONSTANTS
    Endpoints,      \* Webhook rows of one organisation
    Emitters,       \* requests that emit an event, or test an endpoint
    Sweepers,       \* requests that run retryDue: nothing keeps two apart
    MAX_ATTEMPTS,
    MaxDeliveries,  \* bound on the delivery rows
    MaxLost         \* bound on the updates the database refuses, and crashes

Senders == Emitters \cup Sweepers

ASSUME SweeperAssumption == Emitters \cap Sweepers = {}
ASSUME AttemptsAssumption == MAX_ATTEMPTS \in Nat \ {0}

VARIABLES
    active,    \* the endpoints that are switched on
    delivery,  \* WebhookDelivery rows, in the order they were written
    sender,    \* what each request still has to deliver
    lost       \* updates refused and requests that died

webhookVars == <<active, delivery, sender, lost>>

\* A sweep keeps the attempts of each row it lists, as they were then.
Resting == [at |-> "idle", listed |-> {}, todo |-> {}, counts |-> <<>>, row |-> 0,
            tries |-> 0, answer |-> "none", done |-> {}]

WebhooksInit ==
    /\ active \in SUBSET Endpoints /\ delivery = <<>>
    /\ sender = [s \in Senders |-> Resting] /\ lost = 0

-----------------------------------------------------------------------------
\* A row waits for a sweep from its first failure on: not while it is new.
\* (shared is no column: two sweeps have had the row in their lists at once.)
NewRow(w) == [to |-> w, attempts |-> 0, success |-> FALSE, due |-> FALSE,
              posts |-> 0, shared |-> FALSE]

emit(s) ==
    /\ s \in Emitters /\ sender[s].at \in {"idle", "over"}
    /\ sender' = [sender EXCEPT ![s] = [Resting EXCEPT !.at = "create",
                                        !.listed = active, !.todo = active]]
    /\ UNCHANGED <<active, delivery, lost>>

\* The button on an endpoint: a ping, whether it is switched on or not.
testWebhook(s, w) ==
    /\ s \in Emitters /\ sender[s].at \in {"idle", "over"}
    /\ sender' = [sender EXCEPT ![s] = [Resting EXCEPT !.at = "create",
                                        !.listed = {w}, !.todo = {w}]]
    /\ UNCHANGED <<active, delivery, lost>>

CreateDelivery(s) ==
    /\ s \in Emitters /\ sender[s].at = "create" /\ Len(delivery) < MaxDeliveries
    /\ \E w \in sender[s].todo :
          /\ delivery' = Append(delivery, NewRow(w))
          /\ sender' = [sender EXCEPT ![s].at = "post", ![s].todo = @ \ {w},
                           ![s].row = Len(delivery) + 1, ![s].tries = 0]
    /\ UNCHANGED <<active, lost>>

Due == {d \in DOMAIN delivery :
          /\ ~delivery[d].success /\ delivery[d].due
          /\ delivery[d].attempts < MAX_ATTEMPTS /\ delivery[d].to \in active}

Delivering(s) == sender[s].at \in {"post", "update"}

\* The row is in the sweep's list still, or in its hands.
Holds(q, d) == d \in sender[q].todo \/ (Delivering(q) /\ sender[q].row = d)

Shared(q, d) == \E p \in Sweepers \ {q} : Holds(p, d)

retryDue(q) ==
    /\ q \in Sweepers /\ sender[q].at \in {"idle", "over"}
    /\ sender' = [sender EXCEPT ![q] =
                     [Resting EXCEPT !.at = "next", !.listed = Due, !.todo = Due,
                                     !.counts = [d \in Due |-> delivery[d].attempts]]]
    /\ delivery' = [d \in DOMAIN delivery |->
                       IF d \in Due /\ Shared(q, d)
                       THEN [delivery[d] EXCEPT !.shared = TRUE] ELSE delivery[d]]
    /\ UNCHANGED <<active, lost>>

\* The row goes out as it was listed, whatever has become of it since.
RetryNext(q) ==
    /\ q \in Sweepers /\ sender[q].at = "next"
    /\ \E d \in sender[q].todo :
          sender' = [sender EXCEPT ![q].at = "post", ![q].row = d, ![q].todo = @ \ {d},
                                   ![q].tries = sender[q].counts[d]]
    /\ UNCHANGED <<active, delivery, lost>>

-----------------------------------------------------------------------------
(* deliver: one POST, then one update.                                     *)

\* The endpoint takes it, answers otherwise (a redirect counts), or is not
\* reached: the address is no longer safe, or the call fails.
Post(s) ==
    /\ sender[s].at = "post"
    /\ \E answer \in {"ok", "refused", "unreached"} :
          /\ sender' = [sender EXCEPT ![s].at = "update", ![s].answer = answer]
          /\ delivery' = [delivery EXCEPT ![sender[s].row].posts =
                             @ + IF answer = "unreached" THEN 0 ELSE 1]
    /\ UNCHANGED <<active, lost>>

Recorded(d, s, success) ==
    [delivery EXCEPT ![d].success = success, ![d].attempts = sender[s].tries + 1,
                     ![d].due = ~success /\ sender[s].tries + 1 < MAX_ATTEMPTS]

\* What comes after a delivery: the next endpoint, or the end.
After(s) == IF sender[s].todo = {} THEN "over"
            ELSE IF s \in Sweepers THEN "next" ELSE "create"

Update(s) ==
    /\ sender[s].at = "update"
    /\ LET d  == sender[s].row
           ok == sender[s].answer = "ok"
       IN  /\ delivery' = Recorded(d, s, ok)
           /\ sender' = [sender EXCEPT ![s].at = After(s),
                            ![s].done = @ \cup {IF s \in Sweepers THEN d ELSE delivery[d].to}]
    /\ UNCHANGED <<active, lost>>

\* The update throws inside the try: what was delivered is recorded as failed.
UpdateRefused(s) ==
    /\ sender[s].at = "update" /\ sender[s].answer # "unreached" /\ lost < MaxLost
    /\ sender' = [sender EXCEPT ![s].answer = "unreached"]
    /\ lost' = lost + 1 /\ UNCHANGED <<active, delivery>>

\* The second update throws too, or the process dies: emit swallows it, and
\* whatever was still to be delivered is not.
Abandon(s) ==
    /\ sender[s].at \notin {"idle", "over"} /\ lost < MaxLost
    /\ sender' = [sender EXCEPT ![s] = Resting]
    /\ lost' = lost + 1 /\ UNCHANGED <<active, delivery>>

\* createWebhook, or the switch of an existing endpoint.
setWebhookEnabled(w) ==
    /\ active' \in {active \cup {w}, active \ {w}}
    /\ UNCHANGED <<delivery, sender, lost>>

NothingToDo(s) ==
    /\ sender[s].at \in {"create", "next"} /\ sender[s].todo = {}
    /\ sender' = [sender EXCEPT ![s].at = "over"]
    /\ UNCHANGED <<active, delivery, lost>>

WebhooksNext ==
    \/ \E s \in Senders : \/ emit(s) \/ CreateDelivery(s) \/ Post(s) \/ Update(s)
                          \/ UpdateRefused(s) \/ Abandon(s) \/ NothingToDo(s)
                          \/ retryDue(s) \/ RetryNext(s)
                          \/ \E w \in Endpoints : testWebhook(s, w)
    \/ \E w \in Endpoints : setWebhookEnabled(w)

WebhooksSpec == WebhooksInit /\ [][WebhooksNext]_webhookVars

-----------------------------------------------------------------------------
\* No sweep has in its list or its hands what the request that wrote the row is
\* still sending for the first time, and no other request does.
FirstTryIsAlone ==
    \A e \in Emitters : Delivering(e) =>
        /\ \A q \in Sweepers : ~Holds(q, sender[e].row)
        /\ \A s \in Emitters \ {e} : Delivering(s) => sender[s].row # sender[e].row

\* Unless two sweeps have had it at once, an endpoint hears of an event at most
\* MAX_ATTEMPTS times, updates that were lost aside; and no sweep holds it once
\* the endpoint's yes is on the row.  (Two sweeps that list the row together both
\* post it, and the later answer overwrites the earlier.)
PostsAreCounted ==
    \A d \in DOMAIN delivery : ~delivery[d].shared =>
        /\ delivery[d].posts <= MAX_ATTEMPTS + lost
        /\ delivery[d].success => \A q \in Sweepers : ~Holds(q, d)

\* Once tried, a delivery has been taken, waits for a sweep, or has used its
\* attempts up: none is forgotten, however many sweeps write over each other.
NoneIsForgotten ==
    \A d \in DOMAIN delivery : delivery[d].attempts > 0 =>
        \/ delivery[d].success /\ ~delivery[d].due
        \/ ~delivery[d].success /\ delivery[d].due = (delivery[d].attempts < MAX_ATTEMPTS)

\* A round that came to its end has tried every endpoint it listed: one that
\* fails takes nobody else's event away.
EveryoneIsTried ==
    \A s \in Senders : sender[s].at = "over" => sender[s].done = sender[s].listed

WebhooksInv == FirstTryIsAlone /\ PostsAreCounted /\ NoneIsForgotten
                  /\ EveryoneIsTried
=============================================================================
