------------------------------ MODULE StaffForms ------------------------------
(***************************************************************************)
(* The forms in which staff type somebody's details: the walk-in desk, the *)
(* door's walk-in form and the Fix dialog of a printed badge, with the     *)
(* rules they share (attendee-fields.tsx, registration/job-title.ts,       *)
(* badges/tags.ts) and what the server makes of what they send.            *)
(*                                                                         *)
(* The forms show some fields only for some values of others, and keep the *)
(* text of a field that is hidden.  `chosen` records which fields somebody *)
(* filled in for the person served, and for the employer on screen; `read` *)
(* is the row a Fix was opened on.  The program keeps neither.             *)
(***************************************************************************)
EXTENDS Naturals, FiniteSets

CONSTANTS
    Guests,        \* people at the desk or at the door
    Companies,     \* company names
    Presets,       \* job titles of the list
    Typed,         \* job titles that are not of it
    TooLong,       \* job titles above JOB_TITLE_MAX, from before the limit
    FixedRoles,    \* badge roles with a text of their own
    RoleTexts,     \* texts typed for the role "other"
    StoredBefore,  \* rows that predate these forms
    NoRow

Blank == ""
JOB_TITLE_OTHER == "Other"
ROLE_OTHER == "other"
Visitor == "visitor"

ASSUME StaffFormsAssumption ==
    /\ Blank \notin Companies \cup Presets \cup Typed \cup TooLong \cup RoleTexts
    /\ JOB_TITLE_OTHER \notin Presets \cup Typed \cup TooLong
    /\ TooLong \cap (Presets \cup Typed) = {}
    /\ Visitor \in FixedRoles /\ ROLE_OTHER \notin FixedRoles

VARIABLES
    rows,     \* company, title, tag and label of everybody registered
    desk,     \* the desk's walk-in form is used, or the door's
    stage,    \* "closed", "filling", "sent", "done" or "stuck"
    serving,  \* whom it is filled in for
    fields,   \* WalkInAttendee, as the form holds it
    shown,    \* what was on screen when it was submitted
    chosen,   \* the fields filled in for this person, under this employer
    fix       \* the Fix dialog

staffVars == <<rows, desk, stage, serving, fields, shown, chosen, fix>>

-----------------------------------------------------------------------------
(* What is stored, and the forms *)

StaffRow == [company : Companies \cup {Blank},
        title : Presets \cup Typed \cup TooLong \cup {Blank, JOB_TITLE_OTHER},
        tag : FixedRoles \cup {ROLE_OTHER}, label : RoleTexts \cup {Blank}]

ASSUME StoredBeforeAssumption == StoredBefore \subseteq StaffRow /\ NoRow \notin StaffRow

Details == [company : Companies \cup {Blank},
            jobTitle : Presets \cup {Blank, JOB_TITLE_OTHER},
            jobTitleOther : Typed \cup {Blank},
            roleTag : FixedRoles \cup {ROLE_OTHER}, roleOther : RoleTexts \cup {Blank}]

WalkInAttendee == [name : {"none", "first", "both"}, details : Details]

EMPTY_WALK_IN_ATTENDEE ==
    [name |-> "none",
     details |-> [company |-> Blank, jobTitle |-> Blank, jobTitleOther |-> Blank,
                  roleTag |-> Visitor, roleOther |-> Blank]]

NoFix == [who |-> NoRow, stage |-> "closed"]

StaffTypeOK ==
    /\ rows \in [Guests -> StaffRow \cup {NoRow}]
    /\ desk \in BOOLEAN
    /\ stage \in {"closed", "filling", "sent", "done", "stuck"}
    /\ serving \in Guests
    /\ fields \in WalkInAttendee /\ shown \in StaffRow \cup {NoRow}
    /\ chosen \subseteq {"name"} \cup DOMAIN EMPTY_WALK_IN_ATTENDEE.details
    /\ fix = NoFix \/ fix \in [who : Guests, stage : {"open", "saving"}, read : StaffRow,
                                details : Details,
                                edited : SUBSET DOMAIN EMPTY_WALK_IN_ATTENDEE.details]

StaffInit ==
    /\ rows \in [Guests -> StoredBefore \cup {NoRow}]
    /\ desk \in BOOLEAN /\ serving \in Guests
    /\ stage = IF desk THEN "filling" ELSE "closed"
    /\ fields = EMPTY_WALK_IN_ATTENDEE /\ shown = NoRow /\ chosen = {}
    /\ fix = NoFix

-----------------------------------------------------------------------------
(* The rules the forms share *)

Unresolved == [ok |-> FALSE, value |-> Blank]
Resolved(value) == [ok |-> TRUE, value |-> value]

resolveJobTitleSelection(selection, otherText) ==
    IF selection # JOB_TITLE_OTHER THEN Resolved(selection)
    ELSE IF otherText \in Typed \cup Presets THEN Resolved(otherText) ELSE Unresolved

resolveVisibleJobTitle(visible, selection, otherText) ==
    IF visible THEN resolveJobTitleSelection(selection, otherText) ELSE Resolved(Blank)

resolveRoleLabel(tag, otherText) ==
    IF tag # ROLE_OTHER THEN Resolved(Blank)
    ELSE IF otherText = Blank THEN Unresolved ELSE Resolved(otherText)

\* A plausible bug: an emptied company only hides the title.
TitleStays(company, d) == [d EXCEPT !.company = company]

jobTitleForCompanyChange(company, d) ==
    IF company # Blank THEN [d EXCEPT !.company = company]
    ELSE [d EXCEPT !.company = Blank, !.jobTitle = Blank, !.jobTitleOther = Blank]

SelectTitle(selection, d) ==
    [d EXCEPT !.jobTitle = selection,
              !.jobTitleOther = IF selection = JOB_TITLE_OTHER THEN @ ELSE Blank]

\* resolveWalkInAttendee after its check of the name
resolveDetails(d) ==
    LET title == resolveVisibleJobTitle(d.company # Blank, d.jobTitle, d.jobTitleOther)
        role == resolveRoleLabel(d.roleTag, d.roleOther)
    IN  IF title.ok /\ role.ok
        THEN [company |-> d.company, title |-> title.value,
              tag |-> d.roleTag, label |-> role.value]
        ELSE NoRow

\* What AttendeeFields renders: the title under a company, the two texts
\* behind their "Other".
OnScreen(d) ==
    [company |-> d.company,
     title |-> IF d.company = Blank THEN Blank
               ELSE IF d.jobTitle = JOB_TITLE_OTHER THEN d.jobTitleOther ELSE d.jobTitle,
     tag |-> d.roleTag,
     label |-> IF d.roleTag = ROLE_OTHER THEN d.roleOther ELSE Blank]

-----------------------------------------------------------------------------
(* Walk-ins *)

Fill(name, d, field) ==
    /\ stage = "filling"
    /\ fields' = [name |-> name, details |-> d]
    /\ chosen' = chosen \cup {field}
    /\ UNCHANGED <<rows, desk, stage, serving, shown, fix>>

TypeName == fields.name # "both" /\ Fill("both", fields.details, "name")

TypeCompany(company) ==
    /\ stage = "filling" /\ company # fields.details.company
    /\ fields' = [fields EXCEPT !.details = jobTitleForCompanyChange(company, @)]
    /\ chosen' = IF company = Blank THEN chosen \ {"jobTitle", "jobTitleOther"}
                 ELSE chosen \cup {"company"}
    /\ UNCHANGED <<rows, desk, stage, serving, shown, fix>>

PickTitle(selection) ==
    /\ fields.details.company # Blank /\ selection # fields.details.jobTitle
    /\ Fill(fields.name, SelectTitle(selection, fields.details), "jobTitle")

TypeTitle(text) ==
    /\ fields.details.company # Blank /\ fields.details.jobTitle = JOB_TITLE_OTHER
    /\ Fill(fields.name, [fields.details EXCEPT !.jobTitleOther = text], "jobTitleOther")

PickRole(tag) == Fill(fields.name, [fields.details EXCEPT !.roleTag = tag], "roleTag")

TypeRole(text) ==
    /\ fields.details.roleTag = ROLE_OTHER
    /\ Fill(fields.name, [fields.details EXCEPT !.roleOther = text], "roleOther")

\* The door's form is mounted with the search's text as the name (splitName).
OpenDoorForm(g, name) ==
    /\ ~desk /\ stage = "closed" /\ rows[g] = NoRow
    /\ stage' = "filling" /\ serving' = g
    /\ fields' = [EMPTY_WALK_IN_ATTENDEE EXCEPT !.name = name]
    /\ chosen' = IF name = "none" THEN {} ELSE {"name"}
    /\ UNCHANGED <<rows, desk, shown, fix>>

CancelDoorForm ==
    /\ ~desk /\ stage = "filling"
    /\ stage' = "closed" /\ fields' = EMPTY_WALK_IN_ATTENDEE /\ chosen' = {}
    /\ UNCHANGED <<rows, desk, serving, shown, fix>>

\* SendWalkIn of both forms: nothing is sent unless everything resolves.
SendWalkIn ==
    /\ stage = "filling" /\ rows[serving] = NoRow
    /\ fields.name = "both" /\ resolveDetails(fields.details) # NoRow
    /\ stage' = "sent" /\ shown' = OnScreen(fields.details)
    /\ UNCHANGED <<rows, desk, serving, fields, chosen, fix>>

\* register(): the schema refuses the sentinel; a title is kept only with a
\* company, a label only as the role resolves.
Registrable(sent) == sent.title # JOB_TITLE_OTHER /\ sent.title \notin TooLong

StoredRow(sent) ==
    [company |-> sent.company,
     title |-> IF sent.company # Blank THEN sent.title ELSE Blank,
     tag |-> sent.tag, label |-> resolveRoleLabel(sent.tag, sent.label).value]

\* Stored; the desk's form is reset, the door's is unmounted.
Registered ==
    LET sent == resolveDetails(fields.details) IN
    /\ stage = "sent" /\ Registrable(sent)
    /\ rows' = [rows EXCEPT ![serving] = StoredRow(sent)]
    /\ stage' = IF desk THEN "done" ELSE "closed"
    /\ fields' = EMPTY_WALK_IN_ATTENDEE /\ shown' = NoRow /\ chosen' = {}
    /\ UNCHANGED <<desk, serving, fix>>

\* Refused, by the schema or by pretix; the form stays as it is.
NotRegistered ==
    /\ stage = "sent" /\ stage' = "filling" /\ shown' = NoRow
    /\ UNCHANGED <<rows, desk, serving, fields, chosen, fix>>

\* The call itself is rejected; the door's form has a finally, the desk's has none.
CallRejected ==
    /\ stage = "sent"
    /\ stage' = IF desk THEN "stuck" ELSE "filling"
    /\ shown' = NoRow
    /\ UNCHANGED <<rows, desk, serving, fields, chosen, fix>>

RegisterAnother(g) ==
    /\ desk /\ stage = "done" /\ rows[g] = NoRow
    /\ stage' = "filling" /\ serving' = g
    /\ UNCHANGED <<rows, desk, fields, shown, chosen, fix>>

-----------------------------------------------------------------------------
(* Fix *)

Legacy(title) == title \in TooLong \cup {JOB_TITLE_OTHER}

\* A plausible bug: a title that is not of the list opens as none.
ListedOnly(row) == [selection |-> IF row.title \in Presets THEN row.title ELSE Blank,
                    text |-> Blank]

Reopened(row) ==
    IF row.title \in Presets \cup {Blank} \/ Legacy(row.title)
    THEN [selection |-> IF row.title \in Presets THEN row.title ELSE Blank, text |-> Blank]
    ELSE [selection |-> JOB_TITLE_OTHER, text |-> row.title]

OpenFix(g) ==
    /\ fix = NoFix /\ rows[g] # NoRow
    /\ fix' = [who |-> g, stage |-> "open", read |-> rows[g], edited |-> {},
               details |-> [company |-> rows[g].company,
                            jobTitle |-> Reopened(rows[g]).selection,
                            jobTitleOther |-> Reopened(rows[g]).text,
                            roleTag |-> rows[g].tag, roleOther |-> rows[g].label]]
    /\ UNCHANGED <<rows, desk, stage, serving, fields, shown, chosen>>

EditFix(d, field) ==
    /\ fix.stage = "open" /\ d # fix.details
    /\ fix' = [fix EXCEPT !.details = d, !.edited = @ \cup {field}]
    /\ UNCHANGED <<rows, desk, stage, serving, fields, shown, chosen>>

FixCompany(company) == EditFix([fix.details EXCEPT !.company = company], "company")
FixTitle(selection) == EditFix(SelectTitle(selection, fix.details), "jobTitle")
FixTitleText(text) ==
    /\ fix.stage = "open" /\ fix.details.jobTitle = JOB_TITLE_OTHER
    /\ EditFix([fix.details EXCEPT !.jobTitleOther = text], "jobTitle")
FixRole(tag) == EditFix([fix.details EXCEPT !.roleTag = tag], "roleTag")
FixRoleText(text) ==
    /\ fix.stage = "open" /\ fix.details.roleTag = ROLE_OTHER
    /\ EditFix([fix.details EXCEPT !.roleOther = text], "roleTag")

\* The dialog's own checks: unlike a walk-in, the title needs no company.
Saveable(d) == /\ resolveJobTitleSelection(d.jobTitle, d.jobTitleOther).ok
               /\ resolveRoleLabel(d.roleTag, d.roleOther).ok

SaveFix ==
    /\ fix.stage = "open" /\ Saveable(fix.details)
    /\ fix' = [fix EXCEPT !.stage = "saving"]
    /\ UNCHANGED <<rows, desk, stage, serving, fields, shown, chosen>>

\* updateAttendeeDetails writes every field of the dialog.
Corrected(d) ==
    [company |-> d.company,
     title |-> resolveJobTitleSelection(d.jobTitle, d.jobTitleOther).value,
     tag |-> d.roleTag, label |-> resolveRoleLabel(d.roleTag, d.roleOther).value]

FixSaved ==
    /\ fix.stage = "saving"
    /\ rows' = [rows EXCEPT ![fix.who] = Corrected(fix.details)]
    /\ fix' = NoFix
    /\ UNCHANGED <<desk, stage, serving, fields, shown, chosen>>

\* Refused, or the reply is lost; the dialog stays open.
FixNotSaved ==
    /\ fix.stage = "saving"
    /\ fix' = [fix EXCEPT !.stage = "open"]
    /\ UNCHANGED <<rows, desk, stage, serving, fields, shown, chosen>>

CloseFix ==
    /\ fix.stage = "open" /\ fix' = NoFix
    /\ UNCHANGED <<rows, desk, stage, serving, fields, shown, chosen>>

-----------------------------------------------------------------------------
FillIn ==
    \/ TypeName
    \/ \E c \in Companies \cup {Blank} : TypeCompany(c)
    \/ \E t \in Presets \cup {Blank, JOB_TITLE_OTHER} : PickTitle(t)
    \/ \E t \in Typed \cup {Blank} : TypeTitle(t)
    \/ \E t \in FixedRoles \cup {ROLE_OTHER} : PickRole(t)
    \/ \E t \in RoleTexts \cup {Blank} : TypeRole(t)

WalkIn ==
    \/ \E g \in Guests : RegisterAnother(g) \/ \E n \in {"none", "first", "both"} : OpenDoorForm(g, n)
    \/ CancelDoorForm \/ SendWalkIn \/ Registered \/ NotRegistered \/ CallRejected

Fixing ==
    \/ \E g \in Guests : OpenFix(g)
    \/ \E c \in Companies \cup {Blank} : FixCompany(c)
    \/ \E t \in Presets \cup {Blank, JOB_TITLE_OTHER} : FixTitle(t)
    \/ \E t \in Typed \cup {Blank} : FixTitleText(t)
    \/ \E t \in FixedRoles \cup {ROLE_OTHER} : FixRole(t)
    \/ \E t \in RoleTexts \cup {Blank} : FixRoleText(t)
    \/ SaveFix \/ FixSaved \/ FixNotSaved \/ CloseFix

StaffNext == FillIn \/ WalkIn \/ Fixing

StaffSpec == StaffInit /\ [][StaffNext]_staffVars

-----------------------------------------------------------------------------
(* Correctness *)

\* A value a walk-in form holds, on screen or hidden, was given for the person
\* being served, and a job title under the employer on screen: nobody is
\* registered with the last walk-in's answers or the last company's title.
NothingCarriesOver ==
    stage = "filling" =>
        \A f \in DOMAIN fields.details \ chosen :
            fields.details[f] = EMPTY_WALK_IN_ATTENDEE.details[f]

\* A Fix opened and saved as it stands is accepted, whatever old title the row
\* has: only a role "other" whose text never reached the row has to be typed.
UntouchedFixSaves ==
    fix.stage = "open" /\ fix.edited = {} =>
        Saveable(fix.details) \/ (fix.read.tag = ROLE_OTHER /\ fix.read.label = Blank)

\* Types, and what the forms hold.
StaffFormsInv == StaffTypeOK /\ NothingCarriesOver /\ UntouchedFixSaves

\* What `edited` leaves alone in the row a Fix was opened on; a title from
\* before the limit is cleared, and a label kept only for "other".
AsRead(row, edited) ==
    /\ "company" \notin edited => row.company = fix.read.company
    /\ "jobTitle" \notin edited =>
          row.title = IF Legacy(fix.read.title) THEN Blank ELSE fix.read.title
    /\ "roleTag" \notin edited =>
          row.tag = fix.read.tag
          /\ row.label = IF fix.read.tag = ROLE_OTHER THEN fix.read.label ELSE Blank

\* What is stored is what the operator saw: a new row is the screen at the
\* moment of submitting, no more and no less; a Fix changes no field but those
\* that were edited; and no row says "Other" or carries a text of another role.
SeenIsStored ==
    [][\A g \in Guests : rows'[g] # rows[g] =>
          /\ rows'[g].title # JOB_TITLE_OTHER
          /\ rows'[g].label # Blank <=> rows'[g].tag = ROLE_OTHER
          /\ IF rows[g] = NoRow THEN rows'[g] = shown
             ELSE fix.who = g /\ AsRead(rows'[g], fix.edited)]_staffVars
=============================================================================
