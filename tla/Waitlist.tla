------------------------------ MODULE Waitlist ------------------------------
(***************************************************************************)
(* The waitlist of a full event (waitlist/service.ts): a join reads whether *)
(* the address waits already, reads the last position, then writes its own; *)
(* other joins run between its steps.  Nothing removes an entry.            *)
(***************************************************************************)
EXTENDS Naturals, Sequences

CONSTANTS
    Visitors,    \* addresses that ask for a place
    Joins,       \* joins the server handles at once
    MaxEntries   \* bound on the entries ever written

VARIABLES
    entries,   \* the rows, in the order they were written
    joining    \* what each join has read so far, how long the list was when
               \* it began, and the answer it has given

waitVars == <<entries, joining>>

Entry == [who : Visitors, position : Nat \ {0}, status : {"waiting", "promoted"},
          began : Nat]
NotJoining == [at |-> "idle", who |-> "nobody", began |-> 0, last |-> 0, answer |-> 0]

WaitInit == /\ entries = <<>> /\ joining = [j \in Joins |-> NotJoining]

-----------------------------------------------------------------------------
Waiting(who) == {i \in DOMAIN entries : entries[i].who = who
                                        /\ entries[i].status = "waiting"}

\* A plausible bug: those who were promoted no longer count.
LastWaiting ==
    LET open == {entries[i].position : i \in {k \in DOMAIN entries :
                                              entries[k].status = "waiting"}}
    IN  IF open = {} THEN 0 ELSE CHOOSE p \in open : \A q \in open : q <= p

LastPosition ==
    LET all == {entries[i].position : i \in DOMAIN entries}
    IN  IF all = {} THEN 0 ELSE CHOOSE p \in all : \A q \in all : q <= p

\* The form in one tab, or a call of the API: an address that waits already
\* is answered with the place it has.
joinWaitlist(j, who) ==
    /\ joining[j].at \in {"idle", "answered"}
    /\ joining' = [joining EXCEPT ![j] =
           [at |-> "look", who |-> who, began |-> Len(entries), last |-> 0,
            answer |-> 0]]
    /\ UNCHANGED entries

LookForExisting(j) ==
    /\ joining[j].at = "look"
    /\ IF Waiting(joining[j].who) # {}
       THEN \E i \in Waiting(joining[j].who) :
               joining' = [joining EXCEPT ![j].at = "answered",
                                          ![j].answer = entries[i].position]
       ELSE joining' = [joining EXCEPT ![j].at = "last"]
    /\ UNCHANGED entries

ReadLast(j) ==
    /\ joining[j].at = "last"
    /\ joining' = [joining EXCEPT ![j].at = "create", ![j].last = LastPosition]
    /\ UNCHANGED entries

CreateEntry(j) ==
    /\ joining[j].at = "create" /\ Len(entries) < MaxEntries
    /\ entries' = Append(entries, [who |-> joining[j].who,
                                   position |-> joining[j].last + 1,
                                   status |-> "waiting",
                                   began |-> joining[j].began])
    /\ joining' = [joining EXCEPT ![j].at = "answered",
                                  ![j].answer = joining[j].last + 1]

\* The database refuses a call: the form says so and may be sent again.
JoinFails(j) ==
    /\ joining[j].at \in {"look", "last", "create"}
    /\ joining' = [joining EXCEPT ![j] = NotJoining]
    /\ UNCHANGED entries

\* Whatever the entry's status is: two organisers may promote it at once.
promote(i) ==
    /\ i \in DOMAIN entries
    /\ entries' = [entries EXCEPT ![i].status = "promoted"]
    /\ UNCHANGED joining

WaitNext ==
    \/ \E j \in Joins : LookForExisting(j) \/ ReadLast(j) \/ CreateEntry(j)
                            \/ JoinFails(j) \/ \E v \in Visitors : joinWaitlist(j, v)
    \/ \E i \in 1..MaxEntries : promote(i)

WaitSpec == WaitInit /\ [][WaitNext]_waitVars

-----------------------------------------------------------------------------
WaitTypeOK == \A i \in DOMAIN entries : entries[i] \in Entry

\* Whoever was on the list when somebody asked stands before them, promoted
\* since or not; only joins that overlap may share a place.
FirstComeFirstListed ==
    \A i \in DOMAIN entries : \A k \in 1..entries[i].began :
        entries[k].position < entries[i].position

\* The places handed out run from 1 without a hole.
NoPlaceMissing ==
    \A i \in DOMAIN entries : \A p \in 1..entries[i].position :
        \E k \in DOMAIN entries : entries[k].position = p

\* An address waits twice only if its two joins overlapped.
WaitsOnce ==
    \A i, k \in DOMAIN entries :
        i < k /\ entries[i].who = entries[k].who
              /\ entries[i].status = "waiting" /\ entries[k].status = "waiting"
        => entries[k].began < i

\* The position somebody was told is a place that is theirs.
ToldIsTheirs ==
    \A j \in Joins : joining[j].at = "answered" =>
        \E i \in DOMAIN entries : entries[i].who = joining[j].who
                                  /\ entries[i].position = joining[j].answer

WaitlistInv == WaitTypeOK /\ FirstComeFirstListed /\ NoPlaceMissing
                  /\ WaitsOnce /\ ToldIsTheirs
=============================================================================
