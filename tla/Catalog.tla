------------------------------ MODULE Catalog ------------------------------
(***************************************************************************)
(* What an event sells, kept twice: tickets and sessions are items with a   *)
(* quota in pretix, and a session is also a sub-event row that names its    *)
(* item.  One page edits both lists and saves them in one server action,    *)
(* a run of pretix and database calls that stops at the first failure and   *)
(* undoes nothing; the page keeps its edits and may save again.             *)
(*                                                                          *)
(* A name, price or size is not modelled: an update only needs its item and *)
(* quota to exist.  A quota backs one item and is named by it, as           *)
(* createTicket and createSubEvent make them.                               *)
(***************************************************************************)
EXTENDS Naturals, SequencesExt

CONSTANTS Items,      \* pretix item ids, each given out once
          Calls,      \* server actions the page may have running
          NoItem, NoSave

ASSUME CatalogAssumption == NoItem \notin Items /\ NoSave \notin Calls

VARIABLES items, quotas, sold,   \* pretix: items, those with a quota, with orders
          sessions,              \* the items that sub-event rows name
          given, meant,          \* item ids given out; those for a session
          editor,                \* the page: what it loaded and its edits
          call                   \* the server actions

shop == <<items, quotas, sold, sessions, given, meant>>
catalogVars == <<shop, editor, call>>

Ops == {"createTicket", "updateTicket", "deleteTicket",
        "createSubEvent", "updateSubEvent", "deleteSubEvent"}
Op(do, i) == [do |-> do, item |-> i]
IdleCall == [state |-> "idle", todo |-> <<>>, step |-> 1, made |-> NoItem]

\* The storefront: a session's item is never a main ticket; every row is offered.
MainTickets == items \ sessions

----------------------------------------------------------------------------
(* The service functions, as the calls they make. *)

\* A plausible bug: the row goes first.
RowFirst == [createTicket   |-> <<"createItem", "createQuota">>,
             updateTicket   |-> <<"updateItem">>,
             deleteTicket   |-> <<"deleteQuotas", "deleteItem">>,
             createSubEvent |-> <<"createItem", "createQuota", "insertRow">>,
             updateSubEvent |-> <<"findRow", "updateItem", "updateQuota">>,
             deleteSubEvent |-> <<"findRow", "deleteRow", "deleteQuota", "deleteItem">>]

Steps == [createTicket   |-> <<"createItem", "createQuota">>,
          updateTicket   |-> <<"updateItem">>,
          deleteTicket   |-> <<"deleteQuotas", "deleteItem">>,
          createSubEvent |-> <<"createItem", "createQuota", "insertRow">>,
          updateSubEvent |-> <<"findRow", "updateItem", "updateQuota">>,
          deleteSubEvent |-> <<"findRow", "deleteQuota", "deleteItem", "deleteRow">>]

\* A plausible bug: a deletion that is not refused when the item has orders.
DeletesAnything(do, i) ==
    CASE do = "createItem" -> i \in Items \ given
      [] do \in {"updateItem", "deleteItem"} -> i \in items
      [] do \in {"updateQuota", "deleteQuota"} -> i \in quotas
      [] do \in {"findRow", "deleteRow"} -> i \in sessions
      [] OTHER -> TRUE

\* pretix answers 404 for what is gone and refuses to delete an item with
\* orders; deleteTicket only deletes the quotas it finds in pretix's list.
Possible(do, i) ==
    CASE do = "createItem" -> i \in Items \ given
      [] do = "updateItem" -> i \in items
      [] do = "deleteItem" -> i \in items \ sold
      [] do \in {"updateQuota", "deleteQuota"} -> i \in quotas
      [] do \in {"findRow", "deleteRow"} -> i \in sessions
      [] OTHER -> TRUE

\* What each call does to the store it writes: pretix's items, its quotas (one
\* goes with its item), and the sub-event rows.
ItemsAfter(do, i) == CASE do = "createItem" -> items \cup {i}
                       [] do = "deleteItem" -> items \ {i}
                       [] OTHER -> items
QuotasAfter(do, i) ==
    CASE do = "createQuota" -> quotas \cup ({i} \cap items)
      [] do \in {"deleteQuota", "deleteQuotas", "deleteItem"} -> quotas \ {i}
      [] OTHER -> quotas
SessionsAfter(do, i) == CASE do = "insertRow" -> sessions \cup {i}
                          [] do = "deleteRow" -> sessions \ {i}
                          [] OTHER -> sessions

Effect(do, i, isSession) ==
    /\ items' = ItemsAfter(do, i) /\ quotas' = QuotasAfter(do, i)
    /\ sessions' = SessionsAfter(do, i)
    /\ given' = IF do = "createItem" THEN given \cup {i} ELSE given
    /\ meant' = IF do = "createItem" /\ isSession THEN meant \cup {i} ELSE meant
    /\ UNCHANGED sold

----------------------------------------------------------------------------
(* The server action: deletes, then updates, then creations; tickets first. *)

Every(do, s) == [k \in 1..Len(s) |-> Op(do, s[k])]
Times(do, n) == [k \in 1..n |-> Op(do, NoItem)]

SaveTickets(e) ==
    Every("deleteTicket", e.removedTickets)
    \o Every("updateTicket", SetToSeq(e.changedTickets))
    \o Times("createTicket", e.newTickets)
    \o Every("deleteSubEvent", e.removedSubs)
    \o Every("updateSubEvent", SetToSeq(e.changedSubs))
    \o Times("createSubEvent", e.newSubs)

Busy(c) == call[c].state = "running" /\ call[c].todo # <<>>
Running(c) == Head(call[c].todo)
Doing(c) == Steps[Running(c).do][call[c].step]

\* The item the step is about: the one it names, makes, or has made.
About(c, i) == IF Doing(c) = "createItem" THEN i \in Items
               ELSE i = IF Running(c).item = NoItem THEN call[c].made ELSE Running(c).item

Perform(c, i) == /\ Busy(c) /\ About(c, i) /\ Possible(Doing(c), i)
                 /\ Effect(Doing(c), i, Running(c).do = "createSubEvent")
                 /\ UNCHANGED editor

Stop(c, answer) == call' = [call EXCEPT ![c] = [IdleCall EXCEPT !.state = answer]]

\* The next step of the edit, or the next edit.
Advanced(b, i) == IF b.step < Len(Steps[Head(b.todo).do])
                  THEN [b EXCEPT !.step = b.step + 1, !.made = i]
                  ELSE [b EXCEPT !.todo = Tail(b.todo), !.step = 1, !.made = NoItem]

Succeed(c, i) ==
    /\ Perform(c, i)
    /\ call' = [call EXCEPT ![c] = Advanced(call[c], i)]

\* A refusal, no answer, or a local write that fails (the object mappings and the
\* audit entry that end each function too): the rest of the batch is skipped.
Fail(c) == call[c].state = "running" /\ Stop(c, "error") /\ UNCHANGED <<shop, editor>>

\* pretix acted, but its answer did not come in time.
ActsUnheard(c, i) == /\ Perform(c, i) /\ Stop(c, "error")
                     /\ Doing(c) \notin {"findRow", "insertRow", "deleteRow"}

Complete(c) == /\ call[c].state = "running" /\ call[c].todo = <<>>
               /\ Stop(c, "ok") /\ UNCHANGED <<shop, editor>>

----------------------------------------------------------------------------
(* The page.  It lists every pretix item as a ticket, the sessions' too.    *)

Mounted == [tickets |-> items, subs |-> sessions, newTickets |-> 0, newSubs |-> 0,
            removedTickets |-> <<>>, removedSubs |-> <<>>,
            changedTickets |-> {}, changedSubs |-> {}, waits |-> NoSave, refresh |-> FALSE]

Edit(e) == editor' = e /\ UNCHANGED <<shop, call>>

AddTicket == Edit([editor EXCEPT !.newTickets = @ + 1])
AddSub == Edit([editor EXCEPT !.newSubs = @ + 1])
DropNewTicket == editor.newTickets > 0 /\ Edit([editor EXCEPT !.newTickets = @ - 1])
DropNewSub == editor.newSubs > 0 /\ Edit([editor EXCEPT !.newSubs = @ - 1])
RemoveTicket(i) ==
    /\ i \in editor.tickets \ ToSet(editor.removedTickets)
    /\ Edit([editor EXCEPT !.removedTickets = Append(@, i), !.changedTickets = @ \ {i}])
RemoveSub(i) ==
    /\ i \in editor.subs \ ToSet(editor.removedSubs)
    /\ Edit([editor EXCEPT !.removedSubs = Append(@, i), !.changedSubs = @ \ {i}])
PatchTicket(i) == /\ i \in editor.tickets \ ToSet(editor.removedTickets)
                  /\ Edit([editor EXCEPT !.changedTickets = @ \cup {i}])
PatchSub(i) == /\ i \in editor.subs \ ToSet(editor.removedSubs)
               /\ Edit([editor EXCEPT !.changedSubs = @ \cup {i}])

Save(c) ==
    /\ editor.waits = NoSave /\ call[c].state = "idle"
    /\ editor' = [editor EXCEPT !.waits = c]
    /\ call' = [call EXCEPT ![c] = [IdleCall EXCEPT !.state = "running",
                                                    !.todo = SaveTickets(editor)]]
    /\ UNCHANGED shop

\* A success clears the removals and asks for a refresh; an error keeps all.
Saved(c) ==
    /\ editor.waits = c /\ call[c].state \in {"ok", "error"}
    /\ editor' = IF call[c].state = "ok"
                 THEN [editor EXCEPT !.waits = NoSave, !.removedTickets = <<>>,
                                     !.removedSubs = <<>>, !.refresh = TRUE]
                 ELSE [editor EXCEPT !.waits = NoSave]
    /\ call' = [call EXCEPT ![c] = IdleCall]
    /\ UNCHANGED shop

\* The call rejects ("nothing was changed"), with the server still at work.
SaveRejects == /\ editor.waits # NoSave
               /\ Edit([editor EXCEPT !.waits = NoSave])
Unread(c) == /\ editor.waits # c /\ call[c].state \in {"ok", "error"}
             /\ call' = [call EXCEPT ![c] = IdleCall] /\ UNCHANGED <<shop, editor>>

\* The refreshed lists: other ids remount the page, the same ids keep its edits.
Refresh ==
    /\ editor.refresh
    /\ Edit(IF editor.tickets = items /\ editor.subs = sessions
            THEN [editor EXCEPT !.refresh = FALSE, !.changedTickets = {}, !.changedSubs = {}]
            ELSE [Mounted EXCEPT !.waits = editor.waits])
Load == Edit(Mounted)

----------------------------------------------------------------------------
(* pretix sells what has a quota, as a ticket or as a session. *)

Sell(i) == /\ i \in items \cap quotas /\ i \notin sold
           /\ sold' = sold \cup {i}
           /\ UNCHANGED <<items, quotas, sessions, given, meant, editor, call>>

CatalogInit ==
    /\ items = {} /\ quotas = {} /\ sold = {} /\ sessions = {} /\ given = {} /\ meant = {}
    /\ editor = Mounted /\ call = [c \in Calls |-> IdleCall]

Serve(c) == \/ Fail(c) \/ Complete(c)
            \/ \E i \in Items : Succeed(c, i) \/ ActsUnheard(c, i)

CatalogNext ==
    \/ AddTicket \/ AddSub \/ DropNewTicket \/ DropNewSub \/ Refresh \/ Load \/ SaveRejects
    \/ \E i \in Items : RemoveTicket(i) \/ RemoveSub(i) \/ PatchTicket(i) \/ PatchSub(i) \/ Sell(i)
    \/ \E c \in Calls : Save(c) \/ Serve(c) \/ Saved(c) \/ Unread(c)

CatalogSpec == CatalogInit /\ [][CatalogNext]_catalogVars

----------------------------------------------------------------------------
(* What the two stores promise. *)

CatalogTypeOK ==
    /\ items \subseteq given /\ given \subseteq Items /\ quotas \subseteq items
    /\ sold \subseteq given /\ sessions \subseteq meant /\ meant \subseteq given
    /\ editor.waits \in Calls \cup {NoSave} /\ editor.refresh \in BOOLEAN
    /\ editor.newTickets \in Nat /\ editor.newSubs \in Nat
    /\ editor.subs \subseteq meant /\ editor.tickets \subseteq given
    /\ \A c \in Calls : /\ call[c].state \in {"idle", "running", "ok", "error"}
                        /\ call[c].made \in Items \cup {NoItem}
                        /\ call[c].state # "running" => call[c].todo = <<>>
                        /\ Busy(c) => call[c].step \in 1..Len(Steps[Running(c).do])

\* Dropping a session from the programme never turns what it sold, or could sell,
\* into a main ticket: whichever call of a deletion or of its retry fails, the row
\* goes only once the item is gone from pretix (deleteSubEvent, getPublicEvent).
SessionGoesWhole == [][\A i \in sessions : i \notin MainTickets']_catalogVars

\* An item with orders is never lost, whatever half of a deletion ran and however
\* often a save is repeated (saveTicketsAction, deleteItem).
OrdersKeepTheirItem == sold \subseteq items

\* The two stores fit together between any two calls (service.ts), and what the
\* page still wants deleted or changed is something that once existed.
CatalogInv == CatalogTypeOK /\ OrdersKeepTheirItem
=============================================================================
