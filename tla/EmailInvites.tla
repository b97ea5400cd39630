---------------------------- MODULE EmailInvites ----------------------------
(***************************************************************************)
(* Invites mailed to a list of addresses (createEmailInvites in             *)
(* events/service.ts and the panel it is sent from).  The link is a         *)
(* signature over what it grants, so the same terms for the same address    *)
(* are the same link; the table holds each link once.  A batch reads who is *)
(* invited already, once, then issues one address after the other.          *)
(***************************************************************************)
EXTENDS Naturals, FiniteSets, Sequences

CONSTANTS
    Addresses,   \* addresses an operator types
    Terms,       \* items, tag and expiry of a batch
    Dated,       \* the terms that expire
    Operators,   \* panels that are open on the event
    Batches      \* the lists they type: sequences of addresses

ASSUME BatchesAssumption == Batches \subseteq Seq(Addresses)
ASSUME DatedAssumption == Dated \subseteq Terms

VARIABLES
    invites,   \* the rows: the link's address and terms, and whether it is spent
    used,      \* links that were ever redeemed
    past,      \* terms whose expiry has gone by
    panel      \* each panel's batch: what is left, what it read, its counts

inviteVars == <<invites, used, past, panel>>

Quiet == [at |-> "typing", todo |-> <<>>, terms |-> "none", active |-> {},
          sent |-> {}, skipped |-> {}, asked |-> {}]

InvitesInit == /\ invites = {} /\ used = {} /\ past = {}
               /\ panel = [o \in Operators |-> Quiet]

-----------------------------------------------------------------------------
\* Addresses are cut, lowered and taken once; a list of none is refused.
Unique(batch) == {batch[i] : i \in DOMAIN batch}

createEmailInvitesAction(o, batch, terms) ==
    /\ panel[o].at \in {"typing", "sent", "error"} /\ batch # <<>>
    /\ panel' = [panel EXCEPT ![o] =
           [Quiet EXCEPT !.at = "read", !.todo = batch, !.terms = terms,
                         !.asked = Unique(batch)]]
    /\ UNCHANGED <<invites, used, past>>

activeEmails(asked) ==
    {i.to : i \in {k \in invites : ~k.redeemed /\ k.terms \notin past}} \cap asked

ReadActive(o) ==
    /\ panel[o].at = "read"
    /\ panel' = [panel EXCEPT ![o].at = "issue",
                              ![o].active = activeEmails(panel[o].asked)]
    /\ UNCHANGED <<invites, used, past>>

Issued(to, terms) == \E i \in invites : i.to = to /\ i.terms = terms

\* tokenHash is unique: the row of a link that exists stays as it is.
WithRow(to, terms) ==
    IF Issued(to, terms) THEN invites
    ELSE invites \cup {[to |-> to, terms |-> terms, redeemed |-> FALSE]}

\* Next address of the list: skipped, issued and mailed (the mail may fail), or
\* the insert throws and the rest of the list is left alone.
IssueNext(o) ==
    /\ panel[o].at = "issue" /\ panel[o].todo # <<>>
    /\ LET p  == panel[o]
           to == Head(p.todo)
       IN  \/ /\ to \in p.sent \cup p.skipped       \* taken already
              /\ panel' = [panel EXCEPT ![o].todo = Tail(@)]
              /\ UNCHANGED <<invites, used, past>>
           \/ /\ to \notin p.sent \cup p.skipped /\ to \in p.active
              /\ panel' = [panel EXCEPT ![o].todo = Tail(@), ![o].skipped = @ \cup {to}]
              /\ UNCHANGED <<invites, used, past>>
           \/ /\ to \notin p.sent \cup p.skipped \cup p.active
              /\ invites' = WithRow(to, p.terms)
              /\ panel' = IF Issued(to, p.terms)
                          THEN [panel EXCEPT ![o].at = "error"]
                          ELSE [panel EXCEPT ![o].todo = Tail(@), ![o].sent = @ \cup {to}]
              /\ UNCHANGED <<used, past>>

BatchDone(o) ==
    /\ panel[o].at = "issue" /\ panel[o].todo = <<>>
    /\ panel' = [panel EXCEPT ![o].at = "sent"] /\ UNCHANGED <<invites, used, past>>

\* The holder registers with a link that is still good; or its date goes by.
Redeem(i) ==
    /\ ~i.redeemed /\ i.terms \notin past
    /\ invites' = (invites \ {i}) \cup {[i EXCEPT !.redeemed = TRUE]}
    /\ used' = used \cup {<<i.to, i.terms>>} /\ UNCHANGED <<past, panel>>

DateGoesBy(terms) ==
    /\ past' = past \cup {terms} /\ UNCHANGED <<invites, used, panel>>

InvitesNext ==
    \/ \E o \in Operators :
          \/ \E batch \in Batches, terms \in Terms :
                createEmailInvitesAction(o, batch, terms)
          \/ ReadActive(o) \/ IssueNext(o) \/ BatchDone(o)
    \/ \E i \in invites : Redeem(i)
    \/ \E terms \in Dated : DateGoesBy(terms)

InvitesSpec == InvitesInit /\ [][InvitesNext]_inviteVars

-----------------------------------------------------------------------------
\* A panel that says "sent" has seen to every address typed: each was sent a
\* link or was named as already invited, none is both, and whoever was skipped
\* had a link that was good when the batch began.
ReportIsTrue ==
    \A o \in Operators : panel[o].at = "sent" =>
        /\ panel[o].sent \cup panel[o].skipped = panel[o].asked
        /\ panel[o].sent \cap panel[o].skipped = {}
        /\ \A to \in panel[o].skipped \cup panel[o].sent :
              \E i \in invites : i.to = to

\* One row per link, whoever issues it and however often.
LinkOnce == \A i, k \in invites : i.to = k.to /\ i.terms = k.terms => i = k

\* A link that was used never opens again, although asking for the same terms
\* again would sign the very same link.
SpentStaysSpent == \A i \in invites : <<i.to, i.terms>> \in used => i.redeemed

InvitesInv == ReportIsTrue /\ LinkOnce /\ SpentStaysSpent
=============================================================================
