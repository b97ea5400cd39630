------------------------------ MODULE MCTicket ------------------------------
(***************************************************************************)
(* An order with its seat, and the pages that wait for its ticket: parts    *)
(* that share no state, explored one at a time in one run.                  *)
(***************************************************************************)
EXTENDS MCOrderLifecycle, TicketPage, ContactCard

CONSTANTS o1, w1, w2, b1, b2, i1, i2, r1, r2

\* A page is taken down for one reason at a time.
OneReason == ~(public' = public /\ badge' = badge) => public /\ badge.live /\ ~badge.revoked

\* Two rotations overlap where no page is open; beside a page, one at a time.
OneRotation == rotation'[r2] = rotation[r2]

VARIABLE part
mirrorVars == <<vars, ticketVars, cardVars, part>>

\* Every text of up to three characters, and every way to fill in the rest.
Plain == [name |-> <<"a", " ", "b">>, company |-> <<>>, title |-> <<>>,
          type |-> "company", phone |-> <<>>, cc |-> <<>>,
          live |-> TRUE, revoked |-> FALSE]
Texts(n) == BoundedSeq({"a", " ", "\\", ",", ";", CR, LF}, n)
MCChars == {"a", "b", "c", "t", "1", "7", "+", " ", "\\", ",", ";", CR, LF}
MCBadges ==
    {[Plain EXCEPT !.company = s] : s \in Texts(3)}
    \cup {[Plain EXCEPT !.name = <<"a">> \o s, !.title = s] : s \in Texts(2)}
    \cup [name : {<<>>, <<"a">>}, company : {<<>>, <<"c">>}, title : {<<>>, <<"t">>},
          type : {"company", "freelancer", "student", "other"},
          phone : {<<>>, <<"7">>, <<"+", "7">>}, cc : {<<>>, <<"1">>, <<"+", "1">>},
          live : {TRUE}, revoked : {FALSE}]

MCInit == /\ part \in {"order", "links", "page", "mail", "card"}
          /\ Init /\ TicketInit /\ CardInit
          /\ part # "order" => hooks = {} /\ \A o \in Orders : pretix[o] = "n"
                                 /\ row[o].approval = "not_required"
          /\ part # "page" => storage = "works"
          /\ part # "card" => badge = Plain
          /\ part \in {"order", "links", "card"} => \A t \in Tickets : stage[t] = "issued"
MCNext == /\ UNCHANGED part
          /\ \/ part = "order" /\ Next /\ UNCHANGED <<ticketVars, cardVars>>
             \/ part = "links" /\ LinkNext /\ UNCHANGED <<vars, cardVars>>
             \/ part = "page" /\ PageNext /\ OneRotation /\ UNCHANGED <<vars, cardVars>>
             \/ part = "mail" /\ (MailNext \/ \E t \in Tickets : RowMoves(t))
                /\ UNCHANGED <<vars, cardVars>>
             \/ part = "card" /\ CardNext /\ OneReason
                /\ UNCHANGED <<vars, ticketVars>>

PagesInv == TicketInv /\ CardInv

\* Without a hook or a task, and without a tab, no fair action is enabled.
MCFairSpec == /\ MCInit /\ [][MCNext]_mirrorVars
              /\ \A w \in Workers : HandlerFairness(w)
              /\ \A o \in Orders : DeliveryFairness(o)
              /\ TicketFairness
=============================================================================
