---------------------------- MODULE MCBackOffice ----------------------------
(* The office's components share no state: each is explored on its own, side
   by side in one run. *)
EXTENDS Catalog, EventAdmin, Oversight, TLC

CONSTANTS i1, i2, c1, c2, m1, m2, f1, f2, o1, j1, j2, g1, g2, e1, e2, e3, s1, s2, s3

VARIABLE office
vars == <<catalogVars, eventVars, oversightVars, office>>

\* Catalog: two edits saved in one call, or one saved and saved again by a call
\* that overtakes the first; pretix gives out its ids in order.
Edits(e) == e.newTickets + e.newSubs + Len(e.removedTickets) + Len(e.removedSubs)
            + Cardinality(e.changedTickets) + Cardinality(e.changedSubs)
Batch == FoldSet(LAMBDA c, n : n + Len(call[c].todo), 0, Calls)
SmallCatalog == /\ Edits(editor) + Batch <= 2 /\ Cardinality(sold) <= 1
                /\ i2 \in given => i1 \in given
Overtaken == \E c \in Calls : call[c].state # "idle" /\ editor.waits # c
OnlyRetried == Overtaken => Edits(editor') <= Edits(editor)

\* EventAdmin: the slug is created twice, never while a deletion of it runs.
SmallEvent == /\ pretix.birth <= 2
              /\ f2 \in spent => f1 \in spent
              /\ m2 \in spent => m1 \in spent
NoReuseMidDelete == pretix'.birth > pretix.birth => \A j \in Jobs : ~Deleting(j)

\* Oversight: two organizations, the first with two events of one session each.
MCOrgOf == [e \in {e1, e2, e3} |-> IF e = e3 THEN g2 ELSE g1]
MCEventOf == [s \in {s1, s2, s3} |-> IF s = s1 THEN e1 ELSE IF s = s2 THEN e2 ELSE e3]

\* Who sees what: one order of one seat, any roles, any sessions.
Plain == [status |-> "pending", secret |-> TRUE, approval |-> "not_required"]
Gates == /\ Len(booked) <= 1 /\ \A c \in Codes : Len(booked[c].seats) <= 1
         /\ sweep = Idle /\ mailed = {} /\ \A c \in DOMAIN appRows : appRows[c] = Plain
         /\ session[s2] # "unlinked" /\ session[s3] # "unlinked"
\* An admin at the desk counts: one order in any state, or two under a sweep.
Desk == /\ members = [g \in Orgs |-> [NoMember EXCEPT !.role = IF g = g1 THEN "organizer_admin" ELSE "none"]]
        /\ session = [s \in Subs |-> "linked"] /\ \A c \in Codes : booked[c].event = e1
Numbers == Desk /\ Len(booked) <= 1 /\ sweep = Idle /\ \A c \in Codes : booked[c].seats = <<>>
Sweeping == Desk /\ mailed = {} /\ appRows = <<>> /\ \A c \in Codes : c > 1 => Len(booked[c].seats) <= 1
SmallOversight == Gates \/ Numbers \/ Sweeping

MCInit == /\ CatalogInit /\ EventInit /\ OversightInit
          /\ office \in {"catalog", "event", "oversight"}
          /\ office # "oversight" => session = [s \in Subs |-> "linked"]
MCNext ==
    /\ UNCHANGED office
    /\ \/ /\ office = "catalog" /\ CatalogNext /\ SmallCatalog' /\ OnlyRetried
          /\ UNCHANGED <<eventVars, oversightVars>>
       \/ /\ office = "event" /\ EventNext /\ SmallEvent' /\ NoReuseMidDelete
          /\ UNCHANGED <<catalogVars, oversightVars>>
       \/ /\ office = "oversight" /\ OversightNext /\ SmallOversight'
          /\ UNCHANGED <<catalogVars, eventVars>>

MCSpec == MCInit /\ [][MCNext]_vars
Symmetric == Permutations(Calls) \cup Permutations(Jobs)

\* The three stores keep their shape.
OfficeInv == CatalogInv /\ EventInv /\ OversightInv
=============================================================================
