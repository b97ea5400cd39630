----------------------------- MODULE EventAdmin -----------------------------
(***************************************************************************)
(* One event slug, kept as a pretix event and as a local mapping that the   *)
(* attendee rows and the cover picture's file hang on.  Staff create, edit, *)
(* illustrate and delete it while attendees register and pretix reports its *)
(* live state; no two of the stores share a transaction.                    *)
(*                                                                          *)
(* Of an edit only the live flag is kept, of a cover its file name.  A       *)
(* recreated pretix event has other items, told apart by its birth.         *)
(***************************************************************************)
EXTENDS Naturals, FiniteSets

CONSTANTS Jobs,             \* requests being served
          Ids, Files,       \* mapping ids and cover file names, never reused
          Orders,           \* pretix orders, never reused
          NoId, NoFile

ASSUME EventAssumption == NoId \notin Ids /\ NoFile \notin Files

VARIABLES pretix,    \* the event in pretix: there, live, its orders and birth
          mapping,   \* its EventMapping: id, live flag, cover file
          rows,      \* attendee rows: order and mapping
          disk,      \* cover files on disk
          spent,     \* ids, files and orders given out
          job        \* the requests

eventVars == <<pretix, mapping, rows, disk, spent, job>>

NoMapping == [id |-> NoId, live |-> FALSE, cover |-> NoFile]
IdleJob == [at |-> "idle", read |-> NoMapping, file |-> NoFile, live |-> FALSE, birth |-> 0]

Goto(j, at) == job' = [job EXCEPT ![j].at = at]
End(j) == job' = [job EXCEPT ![j] = IdleJob]
At(j, at) == job[j].at = at
Read(j) == job[j].read
\* A row update by id fails when the mapping is gone.
Known(j) == mapping.id = Read(j).id /\ mapping.id # NoId

\* A request for the event: it loads the mapping first.
Begin(j, at, r) == /\ job[j].at = "idle" /\ mapping.id # NoId
                   /\ job' = [job EXCEPT ![j] = [r EXCEPT !.at = at, !.read = mapping]]
                   /\ UNCHANGED <<pretix, mapping, rows, disk, spent>>

\* Any call may fail: the request ends with what it has already done.
GiveUp(j) == /\ ~At(j, "idle") /\ End(j)
             /\ UNCHANGED <<pretix, mapping, rows, disk, spent>>

----------------------------------------------------------------------------
(* createEvent. *)

\* What POST and PATCH leave in pretix.
NewEvent(live) == [there |-> TRUE, live |-> live, orders |-> {}, birth |-> pretix.birth + 1]
Patched(live) == [pretix EXCEPT !.live = live]

CreateEvent(j) ==
    /\ At(j, "idle") /\ ~pretix.there
    /\ \E live \in BOOLEAN :
          /\ pretix' = NewEvent(live)
          /\ job' = [job EXCEPT ![j] = [IdleJob EXCEPT !.at = "mapping", !.live = live]]
    /\ UNCHANGED <<mapping, rows, disk, spent>>

InsertMapping(j) ==
    /\ At(j, "mapping")
    /\ IF mapping.id = NoId
       THEN /\ \E id \in Ids \ spent :
                  /\ mapping' = [NoMapping EXCEPT !.id = id, !.live = job[j].live]
                  /\ spent' = spent \cup {id}
            /\ Goto(j, "audit")
       ELSE Goto(j, "rollback") /\ UNCHANGED <<mapping, spent>>
    /\ UNCHANGED <<pretix, rows, disk>>

CreateAudited(j) == At(j, "audit") /\ End(j) /\ UNCHANGED <<pretix, mapping, rows, disk, spent>>

\* Whichever local write fails, the mapping's or the audit's, pretix is rolled back.
CreateFails(j) == /\ job[j].at \in {"mapping", "audit"} /\ Goto(j, "rollback")
                  /\ UNCHANGED <<pretix, mapping, rows, disk, spent>>

\* pretix deletes neither a live event nor one with orders.
Deletable == pretix.there /\ ~pretix.live /\ pretix.orders = {}
Deleted == [pretix EXCEPT !.there = FALSE]

RollBack(j) == /\ At(j, "rollback") /\ End(j)
               /\ pretix' = IF Deletable THEN Deleted ELSE pretix
               /\ UNCHANGED <<mapping, rows, disk, spent>>

----------------------------------------------------------------------------
(* updateEvent, and the live-state webhook. *)

UpdateEvent(j) == \E live \in BOOLEAN : Begin(j, "patch", [IdleJob EXCEPT !.live = live])
PatchPretix(j) ==
    /\ At(j, "patch")
    /\ IF pretix.there THEN pretix' = Patched(job[j].live) /\ Goto(j, "local")
                       ELSE End(j) /\ UNCHANGED pretix
    /\ UNCHANGED <<mapping, rows, disk, spent>>
WriteLocal(j) ==
    /\ At(j, "local") /\ End(j)
    /\ mapping' = IF Known(j) THEN [mapping EXCEPT !.live = job[j].live] ELSE mapping
    /\ UNCHANGED <<pretix, rows, disk, spent>>

LiveHook(j) == Begin(j, "ask", IdleJob)
AskPretix(j) ==
    /\ At(j, "ask")
    /\ IF pretix.there THEN job' = [job EXCEPT ![j].live = pretix.live, ![j].at = "mirror"]
                       ELSE End(j)
    /\ UNCHANGED <<pretix, mapping, rows, disk, spent>>
\* updateMany by slug, whatever mapping now has it.
Mirror(j) ==
    /\ At(j, "mirror") /\ End(j)
    /\ mapping' = IF mapping.id = NoId THEN mapping ELSE [mapping EXCEPT !.live = job[j].live]
    /\ UNCHANGED <<pretix, rows, disk, spent>>

\* Staff flip the event in pretix itself.
PretixFlips == /\ pretix.there /\ pretix' = [pretix EXCEPT !.live = ~@]
               /\ UNCHANGED <<mapping, rows, disk, spent, job>>

----------------------------------------------------------------------------
(* setEventCover, removeEventCover. *)

\* A plausible bug: one file name per event, overwritten in place.
SameName(f) == f = CHOOSE g \in Files : TRUE

NewName(f) == f \in Files \ spent

SetCover(j) == Begin(j, "save", IdleJob)
SaveFile(j) ==
    /\ At(j, "save")
    /\ \E f \in Files : /\ NewName(f)
                        /\ disk' = disk \cup {f} /\ spent' = spent \cup {f}
                        /\ job' = [job EXCEPT ![j].file = f, ![j].at = "swap"]
    /\ UNCHANGED <<pretix, mapping, rows>>

RemoveCover(j) == Begin(j, "swap", IdleJob)
SwapCover(j) ==
    /\ At(j, "swap")
    /\ IF Known(j)
       THEN /\ mapping' = [mapping EXCEPT !.cover = job[j].file]
            /\ Goto(j, "unlink")
       ELSE End(j) /\ UNCHANGED mapping
    /\ UNCHANGED <<pretix, rows, disk, spent>>

\* The file deleted is the one the request read at its start.
Unlink(j) == /\ At(j, "unlink") /\ End(j)
             /\ disk' = disk \ {Read(j).cover}
             /\ UNCHANGED <<pretix, mapping, rows, spent>>

----------------------------------------------------------------------------
(* deleteEvent. *)

Deleting(j) == job[j].at \in {"count", "deletePretix", "deleteMapping"}

DeleteEvent(j) == Begin(j, "count", IdleJob)
CountRows(j) ==
    /\ At(j, "count")
    /\ IF \E r \in rows : r.id = Read(j).id THEN End(j) ELSE Goto(j, "deletePretix")
    /\ UNCHANGED <<pretix, mapping, rows, disk, spent>>

\* A plausible bug: every refusal is taken for "already gone".
AnyRefusal == TRUE

\* A 404 is tolerated, another refusal is not.
Tolerated == ~pretix.there

DeletePretix(j) ==
    /\ At(j, "deletePretix")
    /\ IF Deletable THEN pretix' = Deleted /\ Goto(j, "deleteMapping")
       ELSE /\ IF Tolerated THEN Goto(j, "deleteMapping") ELSE End(j)
            /\ UNCHANGED pretix
    /\ UNCHANGED <<mapping, rows, disk, spent>>

\* The attendee rows of the mapping go with it.
DeleteMapping(j) ==
    /\ At(j, "deleteMapping")
    /\ IF Known(j)
       THEN /\ mapping' = NoMapping /\ rows' = {r \in rows : r.id # mapping.id}
            /\ Goto(j, "unlink")
       ELSE End(j) /\ UNCHANGED <<mapping, rows>>
    /\ UNCHANGED <<pretix, disk, spent>>

----------------------------------------------------------------------------
(* register(): the storefront's event, the pretix order, the attendee row. *)

Register(j) == mapping.live /\ pretix.there /\ Begin(j, "order", [IdleJob EXCEPT !.birth = pretix.birth])
PlaceOrder(j) ==
    /\ At(j, "order")
    /\ IF pretix.there /\ pretix.birth = job[j].birth
       THEN \E o \in Orders \ spent :
              /\ pretix' = [pretix EXCEPT !.orders = @ \cup {o}] /\ spent' = spent \cup {o}
              /\ job' = [job EXCEPT ![j].file = o, ![j].at = "row"]
       ELSE End(j) /\ UNCHANGED <<pretix, spent>>
    /\ UNCHANGED <<mapping, rows, disk>>
InsertRow(j) ==
    /\ At(j, "row") /\ End(j)
    /\ rows' = IF Known(j) THEN rows \cup {[order |-> job[j].file, id |-> mapping.id]} ELSE rows
    /\ UNCHANGED <<pretix, mapping, disk, spent>>

----------------------------------------------------------------------------
EventInit ==
    /\ pretix = [there |-> FALSE, live |-> FALSE, orders |-> {}, birth |-> 0]
    /\ mapping = NoMapping /\ rows = {} /\ disk = {} /\ spent = {}
    /\ job = [j \in Jobs |-> IdleJob]

EventNext ==
    \/ PretixFlips
    \/ \E j \in Jobs :
          \/ CreateEvent(j) \/ InsertMapping(j) \/ CreateAudited(j) \/ CreateFails(j) \/ RollBack(j)
          \/ UpdateEvent(j) \/ PatchPretix(j) \/ WriteLocal(j)
          \/ LiveHook(j) \/ AskPretix(j) \/ Mirror(j)
          \/ SetCover(j) \/ SaveFile(j) \/ RemoveCover(j) \/ SwapCover(j) \/ Unlink(j)
          \/ DeleteEvent(j) \/ CountRows(j) \/ DeletePretix(j) \/ DeleteMapping(j)
          \/ Register(j) \/ PlaceOrder(j) \/ InsertRow(j) \/ GiveUp(j)

EventSpec == EventInit /\ [][EventNext]_eventVars

----------------------------------------------------------------------------
EventTypeOK ==
    /\ pretix.there \in BOOLEAN /\ pretix.live \in BOOLEAN
    /\ pretix.orders \subseteq Orders \cap spent /\ pretix.birth \in Nat
    /\ mapping.id \in {NoId} \cup Ids /\ mapping.live \in BOOLEAN
    /\ mapping.cover \in {NoFile} \cup Files
    /\ rows \subseteq [order : Orders, id : Ids]
    /\ disk \subseteq Files /\ spent \subseteq Ids \cup Files \cup Orders
    /\ \A j \in Jobs : job[j].live \in BOOLEAN /\ job[j].birth \in 0..pretix.birth

\* The cover the storefront shows has its file, whichever uploads, removals and
\* deletions overlap.
CoverOnDisk == mapping.cover # NoFile => mapping.cover \in disk

EventInv == EventTypeOK /\ CoverOnDisk

\* "... so attendee data is never silently destroyed": a registration that
\* pretix still holds keeps its row.
NoRegistrationDestroyed ==
    [][\A r \in rows \ rows' : ~(pretix.there /\ r.order \in pretix.orders)]_eventVars
=============================================================================
