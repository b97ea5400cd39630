---------------------------- MODULE ContactCard ----------------------------
(***************************************************************************)
(* The page behind a badge's QR (c/[slug]) and the contact a stranger saves *)
(* from it (contact-card.tsx, checkin/vcard.ts).  A text is a sequence of   *)
(* characters: a vCard gives some of them a meaning, so what a reader finds *)
(* in the file depends on how each value was escaped.                       *)
(***************************************************************************)
EXTENDS Naturals, SequencesExt

CONSTANTS
    Chars,   \* what may be typed
    Badges   \* the rows a badge may point at: what the attendee gave

Types == {"company", "freelancer", "student", "other"}

ASSUME BadgesAssumption ==
    Badges \subseteq [name : Seq(Chars), company : Seq(Chars), title : Seq(Chars),
                      phone : Seq(Chars), cc : Seq(Chars), type : Types,
                      live : BOOLEAN, revoked : BOOLEAN]

VARIABLES
    badge,   \* the attendee's row
    public,  \* BADGE_PROFILES_ENABLED
    page,    \* what the stranger's phone shows: nothing, a 404 or the card
    file     \* the contact it has saved

cardVars == <<badge, public, page, file>>

None == <<>>
CR == "\r"
LF == "\n"
Space == " "
Comma == ","
Semicolon == ";"
Blank == {Space, CR, LF}

\* String.prototype.trim, and || null: a blank value is no value.
Trimmed(s) ==
    LET full == {i \in DOMAIN s : s[i] \notin Blank}
    IN  IF full = {} THEN None ELSE SubSeq(s, Min(full), Max(full))

Replaced(s, c, by) ==
    FlattenSeq([i \in DOMAIN s |-> IF s[i] = c THEN by ELSE <<s[i]>>])

\* Cutting a text at separators, empty pieces left out: the pieces so far, and
\* the one under way.
Cut(r, c, separators) ==
    IF c \notin separators THEN [r EXCEPT !.piece = Append(@, c)]
    ELSE IF r.piece = None THEN r
    ELSE [pieces |-> Append(r.pieces, r.piece), piece |-> None]
Cuts(s, separators) ==
    LET cut[i \in 0..Len(s)] ==
            IF i = 0 THEN [pieces |-> <<>>, piece |-> None]
            ELSE Cut(cut[i - 1], s[i], separators)
    IN  cut[Len(s)]
Pieces(s, separators) == Cuts(s, separators).pieces

CardInit ==
    /\ badge \in Badges /\ public = TRUE /\ page = "nothing" /\ file = None

-----------------------------------------------------------------------------
(* The card: name and affiliation lead, the pill adds what they do not say. *)

TypeLabel(type) == CASE type = "company" -> <<"Company">>
                     [] type = "freelancer" -> <<"Freelancer">>
                     [] type = "student" -> <<"Student">>
                     [] OTHER -> None

\* ?? takes the first that is there.
Or(a, b) == IF a # None THEN a ELSE b

formatPhone(phone, cc) ==
    LET n == Trimmed(phone)
        c == Trimmed(cc)
    IN  IF n = None \/ c = None \/ Head(n) = "+" THEN n
        ELSE (IF Head(c) = "+" THEN c ELSE <<"+">> \o c) \o <<Space>> \o n

Card(row) ==
    LET company == Trimmed(row.company)
        label   == TypeLabel(row.type)
        named   == row.type # "company"
    IN  [name |-> Or(Trimmed(row.name), <<"Attendee">>),
         title |-> Trimmed(row.title),
         affiliation |-> Or(company, IF named THEN label ELSE None),
         pill |-> IF company # None /\ named THEN label ELSE None,
         contact |-> [FN    |-> Or(Trimmed(row.name), <<"Attendee">>),
                      ORG   |-> company,
                      TITLE |-> Or(Trimmed(row.title), label),
                      TEL   |-> formatPhone(row.phone, row.cc)]]

-----------------------------------------------------------------------------
(* The file.                                                               *)

\* \r\n? becomes \n: a line feed after a carriage return is the same line break.
Folded(s) ==
    FlattenSeq([i \in DOMAIN s |->
        IF s[i] = CR THEN <<LF>>
        ELSE IF s[i] = LF /\ i > 1 /\ s[i - 1] = CR THEN None ELSE <<s[i]>>])

escapeVCardValue(s) ==
    LET t == Folded(Replaced(s, "\\", <<"\\", "\\">>))
    IN  Replaced(Replaced(Replaced(t, LF, <<"\\", "n">>), Comma, <<"\\", Comma>>),
                 Semicolon, <<"\\", Semicolon>>)

\* No additional names, no prefix, no suffix.
Nothing == <<Semicolon, Semicolon, Semicolon>>

\* family;given;;; - the last word is the family name.
structuredName(s) ==
    LET words == Pieces(s \o <<Space>>, Blank)
        given == FlattenSeq([i \in 1..(Len(words) - 1) |->
                                IF i = 1 THEN words[1] ELSE <<Space>> \o words[i]])
    IN  IF Len(words) < 2 THEN <<Semicolon>> \o escapeVCardValue(s) \o Nothing
        ELSE escapeVCardValue(Last(words)) \o <<Semicolon>> \o escapeVCardValue(given)
                \o Nothing

Line(head, value) == <<head>> \o value \o <<CR, LF>>
OptionalLine(head, value) ==
    IF value = None THEN None ELSE Line(head, escapeVCardValue(value))

buildVCard(c) ==
    Line("BEGIN", None) \o Line("N", structuredName(c.FN))
        \o Line("FN", escapeVCardValue(c.FN))
        \o OptionalLine("ORG", c.ORG) \o OptionalLine("TITLE", c.TITLE)
        \o OptionalLine("TEL", c.TEL) \o Line("END", None)

-----------------------------------------------------------------------------
(* What an address book reads: lines end at a CR or an LF, values fall apart *)
(* at a bare semicolon, a backslash makes the next character plain.          *)

Lines(text) == Pieces(text, {CR, LF})

\* The values so far, the one under way, and whether a backslash came before.
Scan(r, c) ==
    IF r.plain
    THEN [r EXCEPT !.plain = FALSE, !.value = Append(@, IF c = "n" THEN LF ELSE c)]
    ELSE CASE c = "\\" -> [r EXCEPT !.plain = TRUE]
           [] c = Semicolon -> [r EXCEPT !.value = None, !.values = Append(@, r.value)]
           [] OTHER    -> [r EXCEPT !.value = Append(@, c)]
Scanned(line) ==
    LET scan[i \in 0..Len(line)] ==
            IF i = 0 THEN [values |-> <<>>, value |-> None, plain |-> FALSE]
            ELSE Scan(scan[i - 1], line[i])
    IN  scan[Len(line)]
Values(line) == Append(Scanned(line).values, Scanned(line).value)

Read(text, head) ==
    LET lines == Lines(text)
        mine  == {i \in DOMAIN lines : lines[i][1] = head}
    IN  IF mine = {} THEN <<None>> ELSE Values(Tail(lines[Min(mine)]))

-----------------------------------------------------------------------------
BadgeProfilePage ==
    /\ page' = IF public /\ badge.live /\ ~badge.revoked THEN "card" ELSE "404"
    /\ UNCHANGED <<badge, public, file>>

TakenDown ==
    /\ \/ badge' = [badge EXCEPT !.revoked = TRUE] /\ UNCHANGED public
       \/ badge' = [badge EXCEPT !.live = FALSE] /\ UNCHANGED public
       \/ public' = FALSE /\ UNCHANGED badge
    /\ UNCHANGED <<page, file>>

\* The file is built from the card on the page: no request is made.
SaveContact ==
    /\ page = "card" /\ file' = buildVCard(Card(badge).contact)
    /\ UNCHANGED <<badge, public, page>>

CardNext == BadgeProfilePage \/ TakenDown \/ SaveContact

CardSpec == CardInit /\ [][CardNext]_cardVars

-----------------------------------------------------------------------------
Fields == {"FN", "ORG", "TITLE", "TEL"}

\* Whatever the attendee typed - commas, semicolons, backslashes, line breaks -
\* the address book reads back exactly the card's values, one each, and no line
\* that the card did not write.
ContactReadsBack ==
    file # None =>
        LET c == Card(badge).contact
            lines == Lines(file)
        IN  /\ \A f \in Fields : Read(file, f) = <<Folded(c[f])>>
            /\ Len(Read(file, "N")) = 5
            /\ {lines[i][1] : i \in DOMAIN lines} =
                   {"BEGIN", "N", "END"} \cup {f \in Fields : c[f] # None}
            /\ \A i, k \in DOMAIN lines : lines[i][1] = lines[k][1] => i = k

\* A plus only in front, if at all.
PlusLeads(s) == \A i \in DOMAIN s : s[i] = "+" => i = 1

\* Unless somebody typed a label as their company, the pill never repeats the line
\* above it, neither says "Company", and a freelancer or a student is named by one
\* of the two.  A number that is given a country code does not double the plus.
CardSpeaks ==
    LET card == Card(badge)
        typed == Trimmed(badge.company)
    IN  /\ typed \notin {TypeLabel(t) : t \in Types \ {"other"}} =>
              /\ card.pill # None => card.pill # card.affiliation
              /\ <<"Company">> \notin {card.affiliation, card.pill}
              /\ badge.type \in {"freelancer", "student"} =>
                    TypeLabel(badge.type) \in {card.affiliation, card.pill}
        /\ PlusLeads(Trimmed(badge.phone)) /\ PlusLeads(Trimmed(badge.cc)) =>
              PlusLeads(card.contact.TEL)

CardInv == CardSpeaks /\ ContactReadsBack
=============================================================================
