-------------------------- MODULE Outreach_proofs --------------------------
(***************************************************************************)
(* Proofs about the waitlist, the mailed invites and the outbound webhooks, *)
(* for any number of addresses, overlapping requests, endpoints and faults. *)
(***************************************************************************)
EXTENDS MCOutreach, TLAPS, FiniteSetTheorems, WellFoundedInduction

-----------------------------------------------------------------------------
(* The waitlist *)

Join == [at : {"idle", "look", "last", "create", "answered"},
         who : Visitors \cup {"nobody"}, began : Nat, last : Nat, answer : Nat]

ListTypeOK == /\ entries \in Seq(Entry)
              /\ joining \in [Joins -> Join]

\* Some entry stands last, so "the last position" is one that exists.
SomebodyIsLast ==
    entries # <<>> => \E m \in DOMAIN entries : \A i \in DOMAIN entries :
                          entries[i].position <= entries[m].position

\* What a join has read stays true while other joins write.
JoinKnows(j) ==
    /\ joining[j].at # "idle" =>
          joining[j].who \in Visitors /\ joining[j].began <= Len(entries)
    /\ joining[j].at \in {"last", "create"} =>
          \A i \in DOMAIN entries :
              entries[i].who = joining[j].who /\ entries[i].status = "waiting"
                  => joining[j].began < i
    /\ joining[j].at = "create" =>
          /\ \A k \in 1..joining[j].began :
                entries[k].position <= joining[j].last
          /\ \A p \in 1..joining[j].last :
                \E k \in DOMAIN entries : entries[k].position = p

JoinsKnow == \A j \in Joins : JoinKnows(j)

EntriesBegan == \A i \in DOMAIN entries : entries[i].began < i

ListInv == /\ ListTypeOK /\ SomebodyIsLast /\ JoinsKnow /\ EntriesBegan
           /\ FirstComeFirstListed /\ NoPlaceMissing /\ WaitsOnce
           /\ ToldIsTheirs

LEMMA EntryFields ==
    ASSUME ListTypeOK, NEW i \in DOMAIN entries
    PROVE  /\ entries[i] \in Entry
           /\ entries[i].who \in Visitors
           /\ entries[i].position \in Nat \ {0}
           /\ entries[i].began \in Nat
           /\ entries[i].status \in {"waiting", "promoted"}
  <1>1. entries[i] \in Entry
    BY DEF ListTypeOK
  <1>. QED
    BY <1>1 DEF Entry

LEMMA LastIsThere ==
    ASSUME ListTypeOK, SomebodyIsLast
    PROVE  /\ LastPosition \in Nat
           /\ \A i \in DOMAIN entries : entries[i].position <= LastPosition
           /\ LastPosition # 0 => \E k \in DOMAIN entries :
                                     entries[k].position = LastPosition
  <1> DEFINE all == {entries[i].position : i \in DOMAIN entries}
  <1>1. LastPosition = IF all = {} THEN 0
                       ELSE CHOOSE p \in all : \A q \in all : q <= p
    BY DEF LastPosition
  <1>2. all \subseteq Nat \ {0}
    BY EntryFields
  <1>3. CASE all = {}
    BY <1>1, <1>3
  <1>4. CASE all # {}
    <2>1. \E p \in all : \A q \in all : q <= p
      <3>1. entries # <<>>
        BY <1>4
      <3>2. PICK m \in DOMAIN entries : \A i \in DOMAIN entries :
                entries[i].position <= entries[m].position
        BY <3>1 DEF SomebodyIsLast
      <3>. QED
        BY <3>2
    <2>2. LastPosition \in all /\ \A q \in all : q <= LastPosition
      BY <1>1, <1>4, <2>1
    <2>. QED
      BY <1>2, <2>2
  <1>. QED
    BY <1>3, <1>4

LEMMA ListInit == WaitInit => ListInv
  <1> SUFFICES ASSUME WaitInit PROVE ListInv
    OBVIOUS
  <1>1. ListTypeOK
    BY DEF WaitInit, ListTypeOK, Join, NotJoining
  <1>2. entries = <<>> /\ \A j \in Joins : joining[j].at = "idle"
    BY DEF WaitInit, NotJoining
  <1>3. DOMAIN entries = {}
    BY <1>2
  <1>. QED
    BY <1>1, <1>2, <1>3
    DEF ListInv, SomebodyIsLast, JoinsKnow, JoinKnows, EntriesBegan,
        FirstComeFirstListed, NoPlaceMissing, WaitsOnce, ToldIsTheirs

\* A join that only reads.
LEMMA ReadingStep ==
    ASSUME ListInv, NEW j \in Joins,
           \/ \E v \in Visitors : joinWaitlist(j, v)
           \/ LookForExisting(j) \/ ReadLast(j) \/ JoinFails(j)
    PROVE  ListInv'
  <1>1. ListTypeOK /\ entries' = entries
    BY DEF ListInv, joinWaitlist, LookForExisting, ReadLast, JoinFails
  <1>2. \A k \in Joins \ {j} : joining'[k] = joining[k]
    BY <1>1 DEF joinWaitlist, LookForExisting, ReadLast, JoinFails, ListTypeOK
  <1>3. ASSUME NEW v \in Visitors, joinWaitlist(j, v)
        PROVE  /\ joining' \in [Joins -> Join]
               /\ JoinKnows(j)' /\ joining'[j].at # "answered"
    <2>1. joining' \in [Joins -> Join]
      BY <1>1, <1>3 DEF joinWaitlist, ListTypeOK, Join
    <2>2. /\ joining'[j].at = "look" /\ joining'[j].who = v
          /\ joining'[j].began = Len(entries)
      BY <1>1, <1>3 DEF joinWaitlist, ListTypeOK
    <2>. QED
      BY <1>1, <2>1, <2>2 DEF JoinKnows, ListTypeOK
  <1>4. CASE JoinFails(j)
    <2>1. joining' \in [Joins -> Join] /\ joining'[j].at = "idle"
      BY <1>1, <1>4 DEF JoinFails, NotJoining, ListTypeOK, Join
    <2>. QED
      BY <1>1, <1>2, <2>1 DEF ListInv, ListTypeOK, SomebodyIsLast, JoinsKnow,
         JoinKnows, EntriesBegan, FirstComeFirstListed, NoPlaceMissing,
         WaitsOnce, ToldIsTheirs
  <1>5. CASE LookForExisting(j) /\ Waiting(joining[j].who) # {}
    <2>1. PICK i \in Waiting(joining[j].who) :
              joining' = [joining EXCEPT ![j].at = "answered",
                                         ![j].answer = entries[i].position]
      BY <1>5 DEF LookForExisting
    <2>2. i \in DOMAIN entries /\ entries[i].who = joining[j].who
      BY <2>1 DEF Waiting
    <2>3. entries[i].position \in Nat
      BY <1>1, <2>2, EntryFields
    <2>4. /\ joining' \in [Joins -> Join]
          /\ joining'[j].at = "answered"
          /\ joining'[j].who = joining[j].who
          /\ joining'[j].began = joining[j].began
          /\ joining'[j].answer = entries[i].position
      BY <1>1, <2>1, <2>3 DEF ListTypeOK, Join
    <2>5. JoinKnows(j)
      BY DEF ListInv, JoinsKnow
    <2>6. joining[j].at = "look"
      BY <1>5 DEF LookForExisting
    <2>7. JoinKnows(j)'
      BY <1>1, <2>4, <2>5, <2>6 DEF JoinKnows
    <2>. QED
      BY <1>1, <1>2, <2>2, <2>4, <2>7 DEF ListInv, ListTypeOK, SomebodyIsLast,
         JoinsKnow, JoinKnows, EntriesBegan, FirstComeFirstListed,
         NoPlaceMissing, WaitsOnce, ToldIsTheirs
  <1>6. CASE LookForExisting(j) /\ Waiting(joining[j].who) = {}
    <2>1. /\ joining' \in [Joins -> Join]
          /\ joining'[j].at = "last"
          /\ joining'[j].who = joining[j].who
          /\ joining'[j].began = joining[j].began
      BY <1>1, <1>6 DEF LookForExisting, ListTypeOK, Join
    <2>2. JoinKnows(j)'
      BY <1>1, <1>6, <2>1
      DEF ListInv, JoinsKnow, JoinKnows, LookForExisting, Waiting
    <2>. QED
      BY <1>1, <1>2, <2>1, <2>2 DEF ListInv, ListTypeOK, SomebodyIsLast,
         JoinsKnow, JoinKnows, EntriesBegan, FirstComeFirstListed,
         NoPlaceMissing, WaitsOnce, ToldIsTheirs
  <1>7. CASE ReadLast(j)
    <2>1. /\ LastPosition \in Nat
          /\ \A i \in DOMAIN entries : entries[i].position <= LastPosition
          /\ LastPosition # 0 => \E k \in DOMAIN entries :
                                    entries[k].position = LastPosition
      BY LastIsThere DEF ListInv
    <2>2. /\ joining' \in [Joins -> Join]
          /\ joining'[j].at = "create"
          /\ joining'[j].who = joining[j].who
          /\ joining'[j].began = joining[j].began
          /\ joining'[j].last = LastPosition
      BY <1>1, <1>7, <2>1 DEF ReadLast, ListTypeOK, Join
    <2>3. joining[j].at = "last" /\ JoinKnows(j)
      BY <1>7 DEF ReadLast, ListInv, JoinsKnow
    <2>4. \A k \in 1..joining[j].began : entries[k].position <= LastPosition
      BY <1>1, <2>1, <2>3 DEF JoinKnows, ListTypeOK, Join
    <2>5. \A p \in 1..LastPosition :
              \E k \in DOMAIN entries : entries[k].position = p
      BY <2>1 DEF ListInv, NoPlaceMissing
    <2>6. JoinKnows(j)'
      BY <1>1, <2>2, <2>3, <2>4, <2>5 DEF JoinKnows
    <2>. QED
      BY <1>1, <1>2, <2>2, <2>6 DEF ListInv, ListTypeOK, SomebodyIsLast,
         JoinsKnow, JoinKnows, EntriesBegan, FirstComeFirstListed,
         NoPlaceMissing, WaitsOnce, ToldIsTheirs
  <1>8. ASSUME NEW v \in Visitors, joinWaitlist(j, v) PROVE ListInv'
    BY <1>1, <1>2, <1>3, <1>8 DEF ListInv, ListTypeOK, SomebodyIsLast,
       JoinsKnow, JoinKnows, EntriesBegan, FirstComeFirstListed,
       NoPlaceMissing, WaitsOnce, ToldIsTheirs
  <1>. QED
    BY <1>4, <1>5, <1>6, <1>7, <1>8

\* An entry is written: it goes behind all that were there when its join began,
\* takes the place after the last one read, and leaves no hole.
LEMMA WritingStep ==
    ASSUME ListInv, NEW j \in Joins, CreateEntry(j)
    PROVE  ListInv'
  <1> DEFINE n == Len(entries) + 1
             place == joining[j].last + 1
             new == [who |-> joining[j].who, position |-> place,
                     status |-> "waiting", began |-> joining[j].began]
  <1>1. /\ ListTypeOK /\ JoinKnows(j) /\ joining[j].at = "create"
        /\ joining[j] \in Join
    BY DEF ListInv, JoinsKnow, CreateEntry, ListTypeOK
  <1>2. new \in Entry /\ place \in Nat \ {0} /\ joining[j].began \in Nat
        /\ joining[j].who \in Visitors /\ joining[j].began < n
    BY <1>1 DEF Entry, Join, JoinKnows, ListTypeOK
  <1>3. entries' = Append(entries, new)
    BY DEF CreateEntry
  <1>4. /\ entries' \in Seq(Entry) /\ Len(entries') = n
        /\ DOMAIN entries' = 1..n /\ DOMAIN entries = 1..(n - 1)
        /\ entries'[n] = new
        /\ \A i \in 1..(n - 1) : entries'[i] = entries[i]
        /\ n \in Nat \ {0}
    BY <1>1, <1>2, <1>3 DEF ListTypeOK
  <1>5. /\ new.who = joining[j].who /\ new.position = place
        /\ new.status = "waiting" /\ new.began = joining[j].began
    OBVIOUS
  <1>6. /\ joining' \in [Joins -> Join]
        /\ joining'[j].at = "answered"
        /\ joining'[j].who = joining[j].who
        /\ joining'[j].began = joining[j].began
        /\ joining'[j].answer = place
        /\ \A k \in Joins \ {j} : joining'[k] = joining[k]
    BY <1>1, <1>2 DEF CreateEntry, ListTypeOK, Join
  <1> HIDE DEF n, place, new
  <1>7. \A i \in 1..(n - 1) : /\ entries[i].position \in Nat \ {0}
                              /\ entries[i].began \in Nat
    BY <1>1, <1>4, EntryFields
  <1>8. \A k \in 1..joining[j].began : entries[k].position < place
    BY <1>1, <1>2, <1>4, <1>7 DEF JoinKnows, place, Join
  <1>9. \A p \in 1..place : \E k \in DOMAIN entries' : entries'[k].position = p
    <2> SUFFICES ASSUME NEW p \in 1..place
                 PROVE  \E k \in DOMAIN entries' : entries'[k].position = p
      OBVIOUS
    <2>1. CASE p = place
      BY <1>4, <1>5, <2>1
    <2>2. CASE p # place
      <3>1. p \in 1..joining[j].last
        BY <1>1, <2>2 DEF place, Join
      <3>2. PICK k \in DOMAIN entries : entries[k].position = p
        BY <1>1, <3>1 DEF JoinKnows
      <3>. QED
        BY <1>4, <3>2
    <2>. QED
      BY <2>1, <2>2
  <1>10. ListTypeOK' /\ EntriesBegan'
    <2>1. ListTypeOK'
      BY <1>4, <1>6 DEF ListTypeOK
    <2>2. ASSUME NEW i \in 1..n PROVE entries'[i].began < i
      BY <1>2, <1>4, <1>5 DEF EntriesBegan, ListInv
    <2>. QED
      BY <1>4, <2>1, <2>2 DEF EntriesBegan
  <1>11. SomebodyIsLast'
    <2>1. CASE entries = <<>>
      <3>1. n = 1
        BY <2>1 DEF n
      <3>2. DOMAIN entries' = {1} /\ entries'[1].position \in Nat
        BY <1>2, <1>4, <1>5, <3>1
      <3>. QED
        BY <3>2 DEF SomebodyIsLast
    <2>2. CASE entries # <<>>
      <3>1. PICK m \in DOMAIN entries : \A i \in DOMAIN entries :
                entries[i].position <= entries[m].position
        BY <2>2 DEF ListInv, SomebodyIsLast
      <3>2. CASE entries[m].position <= place
        <4>1. ASSUME NEW i \in 1..n PROVE entries'[i].position <= place
          <5>1. CASE i = n
            BY <1>2, <1>4, <1>5, <5>1
          <5>2. CASE i # n
            <6>1. i \in DOMAIN entries /\ entries'[i] = entries[i]
              BY <1>4, <5>2
            <6>2. /\ entries[i].position <= entries[m].position
                  /\ entries[i].position \in Nat
                  /\ entries[m].position \in Nat
              BY <1>4, <1>7, <3>1, <6>1
            <6>. QED
              BY <1>2, <3>2, <6>1, <6>2
          <5>. QED
            BY <5>1, <5>2
        <4>2. n \in DOMAIN entries' /\ entries'[n].position = place
          BY <1>4, <1>5
        <4>. QED
          BY <1>4, <4>1, <4>2 DEF SomebodyIsLast
      <3>3. CASE ~(entries[m].position <= place)
        <4>1. m \in 1..(n - 1) /\ entries'[m] = entries[m]
          BY <1>4, <3>1
        <4>2. ASSUME NEW i \in 1..n
              PROVE  entries'[i].position <= entries[m].position
          <5>1. entries[m].position \in Nat
            BY <1>7, <4>1
          <5>2. CASE i = n
            BY <1>2, <1>4, <1>5, <3>3, <5>1, <5>2
          <5>3. CASE i # n
            <6>1. i \in DOMAIN entries /\ entries'[i] = entries[i]
              BY <1>4, <5>3
            <6>. QED
              BY <3>1, <6>1
          <5>. QED
            BY <5>2, <5>3
        <4>. QED
          BY <1>4, <4>1, <4>2 DEF SomebodyIsLast
      <3>. QED
        BY <3>2, <3>3
    <2>. QED
      BY <2>1, <2>2
  <1>12. ASSUME NEW k \in Joins PROVE JoinKnows(k)'
    <2>1. CASE k = j
      BY <1>1, <1>2, <1>4, <1>6, <2>1 DEF JoinKnows
    <2>2. CASE k # j
      <3>1. JoinKnows(k) /\ joining'[k] = joining[k] /\ joining[k] \in Join
        BY <1>1, <1>6, <2>2 DEF ListInv, JoinsKnow, ListTypeOK
      <3>2. joining[k].began \in Nat /\ joining[k].last \in Nat
        BY <3>1 DEF Join
      <3>. QED
        BY <1>4, <1>5, <3>1, <3>2 DEF JoinKnows
    <2>. QED
      BY <2>1, <2>2
  <1>13. FirstComeFirstListed'
    BY <1>2, <1>4, <1>5, <1>7, <1>8
    DEF ListInv, FirstComeFirstListed, EntriesBegan
  <1>14. NoPlaceMissing'
    <2> SUFFICES ASSUME NEW i \in 1..n, NEW p \in 1..entries'[i].position
                 PROVE  \E k \in DOMAIN entries' : entries'[k].position = p
      BY <1>4 DEF NoPlaceMissing
    <2>1. CASE i = n
      BY <1>4, <1>5, <1>9, <2>1
    <2>2. CASE i # n
      <3>1. i \in DOMAIN entries /\ entries'[i] = entries[i]
        BY <1>4, <2>2
      <3>2. PICK k \in DOMAIN entries : entries[k].position = p
        BY <3>1 DEF ListInv, NoPlaceMissing
      <3>. QED
        BY <1>4, <3>2
    <2>. QED
      BY <2>1, <2>2
  <1>15. WaitsOnce'
    <2> SUFFICES ASSUME NEW i \in 1..n, NEW k \in 1..n, i < k,
                        entries'[i].who = entries'[k].who,
                        entries'[i].status = "waiting",
                        entries'[k].status = "waiting"
                 PROVE  entries'[k].began < i
      BY <1>4 DEF WaitsOnce
    <2>1. i \in DOMAIN entries /\ entries'[i] = entries[i]
      BY <1>4
    <2>2. CASE k = n
      BY <1>1, <1>4, <1>5, <2>1, <2>2 DEF JoinKnows
    <2>3. CASE k # n
      BY <1>4, <2>1, <2>3 DEF ListInv, WaitsOnce
    <2>. QED
      BY <2>2, <2>3
  <1>16. ToldIsTheirs'
    <2> SUFFICES ASSUME NEW k \in Joins, joining'[k].at = "answered"
                 PROVE  \E i \in DOMAIN entries' :
                            /\ entries'[i].who = joining'[k].who
                            /\ entries'[i].position = joining'[k].answer
      BY DEF ToldIsTheirs
    <2>1. CASE k = j
      BY <1>4, <1>5, <1>6, <2>1
    <2>2. CASE k # j
      BY <1>4, <1>6, <2>2 DEF ListInv, ToldIsTheirs
    <2>. QED
      BY <2>1, <2>2
  <1>. QED
    BY <1>10, <1>11, <1>12, <1>13, <1>14, <1>15, <1>16 DEF ListInv, JoinsKnow

\* A promotion changes nobody's place.
LEMMA PromotionStep ==
    ASSUME ListInv, NEW i, promote(i)
    PROVE  ListInv'
  <1>1. ListTypeOK /\ i \in DOMAIN entries /\ joining' = joining
    BY DEF ListInv, promote
  <1>2. /\ entries' \in Seq(Entry) /\ Len(entries') = Len(entries)
        /\ DOMAIN entries' = DOMAIN entries
        /\ DOMAIN entries = 1..Len(entries) /\ Len(entries) \in Nat
    <2>1. [entries[i] EXCEPT !.status = "promoted"] \in Entry
      BY <1>1, EntryFields DEF Entry
    <2>. QED
      BY <1>1, <2>1 DEF promote, ListTypeOK
  <1>3. \A k \in DOMAIN entries :
            /\ entries'[k].who = entries[k].who
            /\ entries'[k].position = entries[k].position
            /\ entries'[k].began = entries[k].began
            /\ entries'[k].status = "waiting" => entries[k].status = "waiting"
    BY <1>1 DEF promote, ListTypeOK, Entry
  <1>4. ListTypeOK' /\ EntriesBegan' /\ ToldIsTheirs'
    BY <1>1, <1>2, <1>3 DEF ListInv, ListTypeOK, EntriesBegan, ToldIsTheirs
  <1>5. SomebodyIsLast'
    BY <1>1, <1>2, <1>3 DEF ListInv, SomebodyIsLast
  <1>6. ASSUME NEW j \in Joins PROVE JoinKnows(j)'
    <2>1. JoinKnows(j) /\ joining[j] \in Join
      BY <1>1 DEF ListInv, JoinsKnow, ListTypeOK
    <2>2. joining[j].began \in Nat
      BY <2>1 DEF Join
    <2>. QED
      BY <1>1, <1>2, <1>3, <2>1, <2>2 DEF JoinKnows
  <1>7. FirstComeFirstListed'
    <2> SUFFICES ASSUME NEW k \in DOMAIN entries,
                        NEW p \in 1..entries[k].began
                 PROVE  entries'[p].position < entries'[k].position
      BY <1>2, <1>3 DEF FirstComeFirstListed
    <2>1. entries[k].began \in Nat /\ entries[k].began < k
      BY <1>1, EntryFields DEF ListInv, EntriesBegan
    <2>2. p \in DOMAIN entries
      BY <1>2, <2>1
    <2>. QED
      BY <1>3, <2>2 DEF ListInv, FirstComeFirstListed
  <1>8. NoPlaceMissing' /\ WaitsOnce'
    BY <1>2, <1>3 DEF ListInv, NoPlaceMissing, WaitsOnce
  <1>. QED
    BY <1>4, <1>5, <1>6, <1>7, <1>8 DEF ListInv, JoinsKnow

LEMMA ListStep == ListInv /\ [WaitNext]_waitVars => ListInv'
  <1> SUFFICES ASSUME ListInv, [WaitNext]_waitVars PROVE ListInv'
    OBVIOUS
  <1>1. CASE UNCHANGED waitVars
    BY <1>1 DEF waitVars, ListInv, ListTypeOK, SomebodyIsLast, JoinsKnow,
       JoinKnows, EntriesBegan, FirstComeFirstListed, NoPlaceMissing,
       WaitsOnce, ToldIsTheirs
  <1>. QED
    BY <1>1, ReadingStep, WritingStep, PromotionStep DEF WaitNext

LEMMA ListIsFair == ListInv => WaitlistInv
  BY DEF ListInv, ListTypeOK, WaitlistInv, WaitTypeOK

\* However joins overlap, fail and are sent again, and whoever is promoted in
\* between: whoever was on the list when somebody asked stands before them, the
\* places have no hole, an address waits twice only if its joins overlapped,
\* and everyone was told a place that is theirs.
THEOREM WaitlistIsFair == WaitSpec => []WaitlistInv
  BY ListInit, ListStep, ListIsFair, PTL DEF WaitSpec

-----------------------------------------------------------------------------
(* Outbound webhooks *)

Delivery == [to : Endpoints, attempts : Nat, success : BOOLEAN,
             due : BOOLEAN, posts : Nat, shared : BOOLEAN]

Counts == UNION {[S -> Nat] : S \in SUBSET Nat}

Request == [at : {"idle", "create", "next", "post", "update", "over"},
            listed : SUBSET (Endpoints \cup Nat),
            todo : SUBSET (Endpoints \cup Nat), counts : Counts,
            row : Nat, tries : Nat,
            answer : {"none", "ok", "refused", "unreached"},
            done : SUBSET (Endpoints \cup Nat)]

WebTypeOK == /\ active \subseteq Endpoints
             /\ delivery \in Seq(Delivery)
             /\ sender \in [Senders -> Request]
             /\ lost \in Nat

\* A delivery a sweep may take: it has failed, and has attempts left.
Waits(d) == /\ ~delivery[d].success /\ delivery[d].due
            /\ delivery[d].attempts < MAX_ATTEMPTS

\* What the request that wrote a row knows of it until it updates it: it has not
\* been tried, and so no sweep may have listed it.
EmitterOK(e) ==
    /\ sender[e].todo \subseteq Endpoints
    /\ Delivering(e) =>
          /\ sender[e].row \in DOMAIN delivery
          /\ sender[e].tries = 0 /\ delivery[sender[e].row].attempts = 0
          /\ ~delivery[sender[e].row].success

\* The attempts a sweep will take the row to have.
Believed(q, d) == IF d \in sender[q].todo THEN sender[q].counts[d] ELSE sender[q].tries

\* What a sweep knows of a row it has listed: that it was tried; and, if no other
\* sweep has had it at the same time, that it is as it was when it was listed.
Known(q, d) ==
    /\ d \in DOMAIN delivery /\ delivery[d].attempts > 0
    /\ ~delivery[d].shared => Waits(d) /\ Believed(q, d) = delivery[d].attempts

SweepOK(q) ==
    /\ \A d \in Nat : Holds(q, d) => Known(q, d)
    /\ Delivering(q) => sender[q].row \notin sender[q].todo
    /\ sender[q].todo \subseteq DOMAIN sender[q].counts
    /\ sender[q].at # "create"

Current(s) == IF s \in Sweepers THEN sender[s].row ELSE delivery[sender[s].row].to

\* What a round has listed is done, in hand or still to do.
RoundOK(s) ==
    /\ sender[s].at \in {"create", "next"} =>
          sender[s].listed = sender[s].done \cup sender[s].todo
    /\ Delivering(s) =>
          sender[s].listed = sender[s].done \cup sender[s].todo \cup {Current(s)}
    /\ sender[s].at = "over" => sender[s].done = sender[s].listed

SenderOK(s) == /\ s \in Emitters => EmitterOK(s)
               /\ s \in Sweepers => SweepOK(s)
               /\ RoundOK(s)

\* Posts that no attempt accounts for were lost, or are being recorded.
RowOK(d) ==
    /\ delivery[d].due => delivery[d].attempts > 0
    /\ ~delivery[d].shared =>
          /\ delivery[d].attempts <= MAX_ATTEMPTS
          /\ \/ delivery[d].posts <= delivery[d].attempts + lost
             \/ /\ delivery[d].posts <= delivery[d].attempts + lost + 1
                /\ \E s \in Senders : sender[s].at = "update" /\ sender[s].row = d

\* A row is marked as soon as a second sweep lists it.
Alone(d) ==
    ~delivery[d].shared =>
        \A p, q \in Sweepers : Holds(p, d) /\ Holds(q, d) => p = q

EmittersApart ==
    \A e, f \in Emitters :
        Delivering(e) /\ Delivering(f) /\ e # f => sender[e].row # sender[f].row

WebInv == /\ WebTypeOK
          /\ \A s \in Senders : SenderOK(s)
          /\ \A d \in DOMAIN delivery : RowOK(d) /\ Alone(d)
          /\ EmittersApart /\ NoneIsForgotten

USE SweeperAssumption, AttemptsAssumption

LEMMA RowFields ==
    ASSUME WebTypeOK, NEW d \in DOMAIN delivery
    PROVE  /\ delivery[d] \in Delivery
           /\ delivery[d].to \in Endpoints
           /\ delivery[d].attempts \in Nat /\ delivery[d].posts \in Nat
           /\ delivery[d].success \in BOOLEAN /\ delivery[d].due \in BOOLEAN
           /\ delivery[d].shared \in BOOLEAN
           /\ d \in Nat
  <1>1. delivery[d] \in Delivery /\ d \in Nat
    BY DEF WebTypeOK
  <1>. QED
    BY <1>1 DEF Delivery

LEMMA RequestFields ==
    ASSUME WebTypeOK, NEW s \in Senders
    PROVE  /\ sender[s] \in Request
           /\ sender[s].at \in {"idle", "create", "next", "post", "update", "over"}
           /\ sender[s].listed \subseteq Endpoints \cup Nat
           /\ sender[s].todo \subseteq Endpoints \cup Nat
           /\ sender[s].done \subseteq Endpoints \cup Nat
           /\ sender[s].row \in Nat /\ sender[s].tries \in Nat
  <1>1. sender[s] \in Request
    BY DEF WebTypeOK
  <1>. QED
    BY <1>1 DEF Request

LEMMA RestingIsARequest == Resting \in Request
  <1>1. <<>> \in [{} -> Nat]
    OBVIOUS
  <1>2. <<>> \in Counts
    BY <1>1 DEF Counts
  <1>. QED
    BY <1>2 DEF Resting, Request

\* Two requests have one row in hand only if both are sweeps that share it.
LEMMA HandsApart ==
    ASSUME WebInv, NEW s \in Senders, NEW t \in Senders, s # t, NEW d \in Nat,
           Delivering(s), sender[s].row = d,
           \/ Delivering(t) /\ sender[t].row = d
           \/ t \in Sweepers /\ Holds(t, d)
    PROVE  s \in Sweepers /\ t \in Sweepers /\ Holds(t, d) /\ delivery[d].shared
  <1>1. SenderOK(s) /\ SenderOK(t) /\ EmittersApart
    BY DEF WebInv
  <1>2. t \in Sweepers => Holds(t, d) /\ d \in DOMAIN delivery /\ delivery[d].attempts > 0
    BY <1>1 DEF SenderOK, SweepOK, Known, Holds
  <1>3. s \in Sweepers => Holds(s, d) /\ d \in DOMAIN delivery /\ delivery[d].attempts > 0
    BY <1>1 DEF SenderOK, SweepOK, Known, Holds
  <1>4. t \in Emitters => delivery[d].attempts = 0 /\ Delivering(t) /\ sender[t].row = d
    BY <1>1 DEF SenderOK, EmitterOK
  <1>5. s \in Emitters => delivery[d].attempts = 0
    BY <1>1 DEF SenderOK, EmitterOK
  <1>6. ~(s \in Emitters /\ t \in Emitters)
    BY <1>1, <1>4 DEF EmittersApart
  <1>7. s \in Sweepers /\ t \in Sweepers
    BY <1>2, <1>3, <1>4, <1>5, <1>6 DEF Senders
  <1>8. Alone(d)
    BY <1>2, <1>7 DEF WebInv
  <1>. QED
    BY <1>2, <1>3, <1>7, <1>8 DEF Alone

\* What a step leaves of a row for those that know of it.
Kept(e) ==
    /\ e \in DOMAIN delivery'
    /\ delivery'[e].to = delivery[e].to
    /\ delivery'[e].attempts = delivery[e].attempts
    /\ delivery'[e].success = delivery[e].success
    /\ delivery'[e].due = delivery[e].due
    /\ delivery[e].shared => delivery'[e].shared

\* What a step may do to a row that others share.
NotTheirs(t, e) ==
    /\ e \in DOMAIN delivery' /\ delivery'[e].to = delivery[e].to
    /\ t \in Emitters /\ Delivering(t) => sender[t].row # e
    /\ t \in Sweepers /\ Holds(t, e) => delivery'[e].shared /\ delivery'[e].attempts > 0

\* A step leaves every other request alone.
LEMMA OthersStand ==
    ASSUME WebInv, NEW t \in Senders, sender'[t] = sender[t],
           \A e \in DOMAIN delivery : Kept(e) \/ NotTheirs(t, e)
    PROVE  SenderOK(t)'
  <1>1. SenderOK(t)
    BY DEF WebInv
  <1>2. /\ Delivering(t)' = Delivering(t)
        /\ \A d \in Nat : Holds(t, d)' = Holds(t, d) /\ Believed(t, d)' = Believed(t, d)
    BY DEF Delivering, Holds, Believed
  <1>3. t \in Emitters => EmitterOK(t)'
    BY <1>1, <1>2 DEF SenderOK, EmitterOK, Kept, NotTheirs
  <1>4. ASSUME t \in Sweepers, NEW d \in Nat, Holds(t, d) PROVE Known(t, d)'
    <2>1. Known(t, d) /\ d \in DOMAIN delivery
      BY <1>1, <1>4 DEF SenderOK, SweepOK, Known
    <2>2. CASE Kept(d)
      BY <1>2, <2>1, <2>2 DEF Kept, Known, Waits
    <2>3. CASE NotTheirs(t, d)
      BY <1>4, <2>3 DEF NotTheirs, Known
    <2>. QED
      BY <2>1, <2>2, <2>3
  <1>5. t \in Sweepers => SweepOK(t)'
    BY <1>1, <1>2, <1>4 DEF SenderOK, SweepOK
  <1>6. Delivering(t) => Current(t)' = Current(t)
    <2>1. CASE t \in Sweepers
      BY <2>1 DEF Current
    <2>2. CASE t \in Emitters
      BY <1>1, <2>2 DEF SenderOK, EmitterOK, Current, Kept, NotTheirs
    <2>. QED
      BY <2>1, <2>2 DEF Senders
  <1>7. RoundOK(t)'
    BY <1>1, <1>2, <1>6 DEF SenderOK, RoundOK
  <1>. QED
    BY <1>3, <1>5, <1>7 DEF SenderOK

\* A step that moves one request only, and writes no row.
LEMMA QuietStep ==
    ASSUME WebInv, NEW s \in Senders, WebTypeOK', delivery' = delivery,
           lost' = lost,
           \A t \in Senders \ {s} : sender'[t] = sender[t],
           sender[s].at # "update", SenderOK(s)',
           s \in Emitters => ~Delivering(s)',
           s \in Sweepers => \A d \in Nat : Holds(s, d)' => Holds(s, d)
    PROVE  WebInv'
  <1>0. WebTypeOK
    BY DEF WebInv
  <1>1. ASSUME NEW t \in Senders \ {s} PROVE SenderOK(t)'
    <2>1. \A e \in DOMAIN delivery : Kept(e)
      BY DEF Kept
    <2>. QED
      BY <2>1, OthersStand
  <1>2. ASSUME NEW d \in DOMAIN delivery PROVE RowOK(d)'
    <2>1. RowOK(d)
      BY DEF WebInv
    <2>. QED
      BY <2>1 DEF RowOK
  <1>3. ASSUME NEW d \in DOMAIN delivery PROVE Alone(d)'
    <2>1. Alone(d) /\ d \in Nat
      BY <1>0, RowFields DEF WebInv
    <2>2. ASSUME NEW p \in Sweepers, Holds(p, d)' PROVE Holds(p, d)
      <3>1. CASE p = s
        BY <2>1, <2>2, <3>1
      <3>2. CASE p # s
        BY <2>2, <3>2 DEF Holds, Delivering, Senders
      <3>. QED
        BY <3>1, <3>2
    <2>. QED
      BY <2>1, <2>2 DEF Alone
  <1>4. EmittersApart'
    <2> SUFFICES ASSUME NEW e \in Emitters, NEW f \in Emitters, e # f,
                        Delivering(e)', Delivering(f)'
                 PROVE  sender'[e].row # sender'[f].row
      BY DEF EmittersApart
    <2>1. e # s /\ f # s
      OBVIOUS
    <2>. QED
      BY <2>1 DEF WebInv, EmittersApart, Delivering, Senders
  <1>5. NoneIsForgotten'
    BY DEF WebInv, NoneIsForgotten
  <1>. QED
    BY <1>1, <1>2, <1>3, <1>4, <1>5 DEF WebInv

\* A request that lists endpoints, or finds its list empty, delivers nothing yet.
LEMMA StartStep ==
    ASSUME WebInv, NEW s \in Senders,
           \/ emit(s) \/ \E w \in Endpoints : testWebhook(s, w)
           \/ NothingToDo(s)
    PROVE  WebInv'
  <1>1. /\ WebTypeOK /\ SenderOK(s) /\ sender[s] \in Request
        /\ active' = active /\ delivery' = delivery /\ lost' = lost
    BY DEF WebInv, WebTypeOK, emit, testWebhook, NothingToDo
  <1>2. sender[s].at \in {"idle", "over", "create", "next"}
    BY DEF emit, testWebhook, NothingToDo
  <1>3. \A t \in Senders \ {s} : sender'[t] = sender[t]
    BY <1>1 DEF WebTypeOK, emit, testWebhook, NothingToDo
  <1>4. ASSUME s \in Emitters, NEW S \in SUBSET Endpoints,
               sender' = [sender EXCEPT ![s] = [Resting EXCEPT !.at = "create",
                                                !.listed = S, !.todo = S]]
        PROVE  WebInv'
    <2>1. [Resting EXCEPT !.at = "create", !.listed = S, !.todo = S] \in Request
      BY <1>4, RestingIsARequest DEF Request, Resting
    <2>2. /\ sender' \in [Senders -> Request]
          /\ sender'[s].at = "create" /\ sender'[s].listed = S
          /\ sender'[s].todo = S /\ sender'[s].done = {}
      BY <1>1, <1>4, <2>1 DEF WebTypeOK, Resting
    <2>3. SenderOK(s)' /\ ~Delivering(s)'
      BY <1>1, <1>4, <2>2 DEF SenderOK, EmitterOK, Delivering, RoundOK
    <2>4. WebTypeOK'
      BY <1>1, <2>2 DEF WebTypeOK
    <2>. QED
      BY <1>1, <1>2, <1>3, <1>4, <2>3, <2>4, QuietStep
  <1>5. CASE emit(s)
    <2>1. /\ s \in Emitters /\ active \in SUBSET Endpoints
          /\ sender' = [sender EXCEPT ![s] = [Resting EXCEPT !.at = "create",
                                              !.listed = active, !.todo = active]]
      BY <1>1, <1>5 DEF emit, WebTypeOK
    <2>. QED
      BY <1>4, <2>1
  <1>6. ASSUME NEW w \in Endpoints, testWebhook(s, w) PROVE WebInv'
    <2>1. /\ s \in Emitters /\ {w} \in SUBSET Endpoints
          /\ sender' = [sender EXCEPT ![s] = [Resting EXCEPT !.at = "create",
                                              !.listed = {w}, !.todo = {w}]]
      BY <1>6 DEF testWebhook
    <2>. QED
      BY <1>4, <2>1
  <1>7. CASE NothingToDo(s)
    <2>1. /\ sender' \in [Senders -> Request]
          /\ sender'[s].at = "over" /\ sender'[s].listed = sender[s].listed
          /\ sender'[s].todo = {} /\ sender'[s].done = sender[s].done
          /\ sender[s].at \in {"create", "next"} /\ sender[s].todo = {}
      BY <1>1, <1>7 DEF NothingToDo, WebTypeOK, Request
    <2>2. ~Delivering(s)' /\ \A d \in Nat : ~Holds(s, d)'
      BY <2>1 DEF Delivering, Holds
    <2>3. SenderOK(s)'
      <3>1. RoundOK(s)'
        BY <1>1, <2>1, <2>2 DEF SenderOK, RoundOK
      <3>2. s \in Emitters => EmitterOK(s)'
        BY <2>1, <2>2 DEF EmitterOK
      <3>3. s \in Sweepers => SweepOK(s)'
        BY <2>1, <2>2 DEF SweepOK
      <3>. QED
        BY <3>1, <3>2, <3>3 DEF SenderOK
    <2>4. WebTypeOK'
      BY <1>1, <2>1 DEF WebTypeOK
    <2>. QED
      BY <1>1, <1>2, <1>3, <2>2, <2>3, <2>4, QuietStep
  <1>. QED
    BY <1>5, <1>6, <1>7

\* A sweep lists what is due, and marks what another sweep has listed already.
LEMMA SweepStep ==
    ASSUME WebInv, NEW q \in Sweepers, retryDue(q)
    PROVE  WebInv'
  <1>1. /\ WebTypeOK /\ q \in Senders /\ q \notin Emitters
        /\ sender[q].at \in {"idle", "over"}
        /\ active' = active /\ lost' = lost
    BY DEF WebInv, Senders, retryDue
  <1>2. Due \subseteq DOMAIN delivery /\ Due \subseteq Nat
    BY <1>1 DEF Due, WebTypeOK
  <1> DEFINE c == [d \in Due |-> delivery[d].attempts]
             r == [Resting EXCEPT !.at = "next", !.listed = Due, !.todo = Due,
                                  !.counts = c]
  <1>3. c \in Counts /\ DOMAIN c = Due /\ \A d \in Due : c[d] = delivery[d].attempts
    <2>1. \A d \in Due : delivery[d].attempts \in Nat
      BY <1>1, <1>2, RowFields
    <2>2. c \in [Due -> Nat]
      BY <2>1
    <2>. QED
      BY <1>2, <2>2 DEF Counts
  <1>4. /\ r \in Request /\ r.at = "next" /\ r.listed = Due /\ r.todo = Due
        /\ r.counts = c /\ r.done = {}
    <2> HIDE DEF c
    <2>. QED
      BY <1>2, <1>3 DEF Request, Resting
  <1>5. sender' = [sender EXCEPT ![q] = r]
    BY DEF retryDue
  <1> HIDE DEF r, c
  <1>6. /\ sender' \in [Senders -> Request] /\ sender'[q] = r
        /\ \A t \in Senders \ {q} : sender'[t] = sender[t]
    BY <1>1, <1>4, <1>5 DEF WebTypeOK
  <1>7. /\ delivery' \in Seq(Delivery) /\ DOMAIN delivery' = DOMAIN delivery
        /\ \A d \in DOMAIN delivery :
              /\ delivery'[d].posts = delivery[d].posts /\ Kept(d)
              /\ delivery'[d].shared = (delivery[d].shared \/ (d \in Due /\ Shared(q, d)))
              /\ d \in Due /\ Shared(q, d) => delivery'[d].shared
    <2> DEFINE marked(d) == IF d \in Due /\ Shared(q, d)
                            THEN [delivery[d] EXCEPT !.shared = TRUE] ELSE delivery[d]
    <2>1. delivery' = [d \in DOMAIN delivery |-> marked(d)]
      BY DEF retryDue
    <2>2. ASSUME NEW d \in DOMAIN delivery
          PROVE  /\ marked(d) \in Delivery
                 /\ marked(d).to = delivery[d].to
                 /\ marked(d).attempts = delivery[d].attempts
                 /\ marked(d).success = delivery[d].success
                 /\ marked(d).due = delivery[d].due
                 /\ marked(d).posts = delivery[d].posts
                 /\ marked(d).shared = (delivery[d].shared \/ (d \in Due /\ Shared(q, d)))
      <3>1. delivery[d] \in Delivery
        BY <1>1, RowFields
      <3>. QED
        BY <3>1 DEF Delivery
    <2> HIDE DEF marked
    <2>3. DOMAIN delivery = 1..Len(delivery) /\ Len(delivery) \in Nat
      BY <1>1 DEF WebTypeOK
    <2>4. delivery' \in Seq(Delivery) /\ DOMAIN delivery' = DOMAIN delivery
      BY <2>1, <2>2, <2>3
    <2>. QED
      BY <2>1, <2>2, <2>4 DEF Kept
  <1>8. Delivering(q)' = FALSE /\ \A d \in Nat : Holds(q, d)' = (d \in Due)
    BY <1>4, <1>6 DEF Delivering, Holds
  <1>9. ASSUME NEW d \in Due PROVE Known(q, d)'
    <2>1. /\ ~delivery[d].success /\ delivery[d].due
          /\ delivery[d].attempts < MAX_ATTEMPTS /\ d \in DOMAIN delivery
      BY DEF Due
    <2>2. delivery[d].attempts > 0
      BY <2>1 DEF WebInv, RowOK
    <2>3. Believed(q, d)' = delivery[d].attempts
      BY <1>3, <1>4, <1>6 DEF Believed
    <2>. QED
      BY <1>7, <2>1, <2>2, <2>3 DEF Known, Waits, Kept
  <1>10. SenderOK(q)'
    <2>1. SweepOK(q)'
      BY <1>3, <1>4, <1>6, <1>8, <1>9 DEF SweepOK
    <2>2. RoundOK(q)'
      BY <1>4, <1>6, <1>8 DEF RoundOK
    <2>. QED
      BY <1>1, <2>1, <2>2 DEF SenderOK
  <1>11. ASSUME NEW t \in Senders \ {q} PROVE SenderOK(t)'
    BY <1>6, <1>7, OthersStand
  <1>12. ASSUME NEW d \in DOMAIN delivery PROVE RowOK(d)'
    <2>1. RowOK(d)
      BY DEF WebInv
    <2>2. ASSUME NEW s \in Senders, sender[s].at = "update" PROVE sender'[s] = sender[s]
      BY <1>1, <1>6, <2>2
    <2>. QED
      BY <1>1, <1>7, <2>1, <2>2 DEF RowOK, Kept
  <1>13. ASSUME NEW d \in DOMAIN delivery PROVE Alone(d)'
    <2>1. Alone(d) /\ d \in Nat
      BY <1>1, RowFields DEF WebInv
    <2>2. ASSUME NEW p \in Sweepers \ {q} PROVE Holds(p, d)' = Holds(p, d)
      BY <1>6 DEF Holds, Delivering, Senders
    <2>3. d \in Due /\ ~delivery'[d].shared => \A p \in Sweepers \ {q} : ~Holds(p, d)
      BY <1>7 DEF Shared
    <2>4. ~delivery'[d].shared => ~delivery[d].shared
      BY <1>7 DEF Kept
    <2>. QED
      BY <1>8, <2>1, <2>2, <2>3, <2>4 DEF Alone
  <1>14. EmittersApart'
    BY <1>1, <1>6 DEF WebInv, EmittersApart, Delivering, Senders
  <1>15. NoneIsForgotten'
    BY <1>7 DEF WebInv, NoneIsForgotten, Kept
  <1>16. WebTypeOK'
    BY <1>1, <1>6, <1>7 DEF WebTypeOK
  <1>. QED
    BY <1>7, <1>10, <1>11, <1>12, <1>13, <1>14, <1>15, <1>16 DEF WebInv

\* The sweep takes the next row of its list, as it was listed.
LEMMA RetryStep ==
    ASSUME WebInv, NEW q \in Sweepers, RetryNext(q)
    PROVE  WebInv'
  <1>1. /\ WebTypeOK /\ q \in Senders /\ q \notin Emitters /\ SenderOK(q)
        /\ sender[q] \in Request /\ sender[q].at = "next" /\ ~Delivering(q)
        /\ active' = active /\ delivery' = delivery /\ lost' = lost
    BY DEF WebInv, WebTypeOK, Senders, RetryNext, Delivering
  <1>2. PICK d \in sender[q].todo :
            sender' = [sender EXCEPT ![q].at = "post", ![q].row = d,
                          ![q].todo = @ \ {d}, ![q].tries = sender[q].counts[d]]
    BY DEF RetryNext
  <1>3. sender[q].counts[d] \in Nat /\ d \in Nat
    <2>1. d \in DOMAIN sender[q].counts /\ sender[q].counts \in Counts
      BY <1>1 DEF SenderOK, SweepOK, Request
    <2>2. ASSUME NEW c \in Counts, NEW e \in DOMAIN c PROVE c[e] \in Nat /\ e \in Nat
      <3>1. PICK S \in SUBSET Nat : c \in [S -> Nat]
        BY DEF Counts
      <3>. QED
        BY <3>1
    <2>. QED
      BY <2>1, <2>2
  <1>4. /\ sender' \in [Senders -> Request]
        /\ sender'[q].at = "post" /\ sender'[q].row = d
        /\ sender'[q].todo = sender[q].todo \ {d}
        /\ sender'[q].counts = sender[q].counts
        /\ sender'[q].tries = sender[q].counts[d]
        /\ sender'[q].listed = sender[q].listed
        /\ sender'[q].done = sender[q].done
        /\ \A t \in Senders \ {q} : sender'[t] = sender[t]
    BY <1>1, <1>2, <1>3 DEF WebTypeOK, Request
  <1>5. Delivering(q)' /\ \A e \in Nat : Holds(q, e)' = Holds(q, e)
    BY <1>1, <1>4 DEF Holds, Delivering
  <1>6. \A e \in Nat : Holds(q, e) => Believed(q, e)' = Believed(q, e)
    BY <1>1, <1>4 DEF Holds, Believed
  <1>7. ASSUME NEW e \in Nat, Holds(q, e) PROVE Known(q, e)'
    <2>1. Known(q, e) /\ Believed(q, e)' = Believed(q, e)
      BY <1>1, <1>6, <1>7 DEF SenderOK, SweepOK
    <2>. QED
      BY <1>1, <2>1 DEF Known, Waits
  <1>8. SweepOK(q)'
    BY <1>1, <1>4, <1>5, <1>7 DEF SenderOK, SweepOK
  <1>9. RoundOK(q)'
    BY <1>1, <1>4, <1>5 DEF SenderOK, RoundOK, Current
  <1>10. SenderOK(q)'
    BY <1>1, <1>8, <1>9 DEF SenderOK
  <1>11. WebTypeOK'
    BY <1>1, <1>4 DEF WebTypeOK
  <1>. QED
    BY <1>1, <1>4, <1>5, <1>10, <1>11, QuietStep

\* A new row is nobody else's.
LEMMA CreateStep ==
    ASSUME WebInv, NEW s \in Senders, CreateDelivery(s)
    PROVE  WebInv'
  <1> DEFINE n == Len(delivery) + 1
  <1>1. /\ WebTypeOK /\ SenderOK(s) /\ sender[s] \in Request
        /\ sender[s].at = "create" /\ s \in Emitters /\ s \notin Sweepers
        /\ active' = active /\ lost' = lost
    BY DEF WebInv, WebTypeOK, CreateDelivery
  <1>2. PICK w \in sender[s].todo :
            /\ delivery' = Append(delivery, NewRow(w))
            /\ sender' = [sender EXCEPT ![s].at = "post", ![s].todo = @ \ {w},
                             ![s].row = Len(delivery) + 1, ![s].tries = 0]
    BY DEF CreateDelivery
  <1>3. w \in Endpoints /\ NewRow(w) \in Delivery
    BY <1>1 DEF SenderOK, EmitterOK, NewRow, Delivery
  <1>4. /\ delivery' \in Seq(Delivery) /\ n \in Nat
        /\ DOMAIN delivery = 1..(n - 1) /\ DOMAIN delivery' = 1..n
        /\ n \notin DOMAIN delivery /\ n \in DOMAIN delivery'
        /\ \A e \in DOMAIN delivery : delivery'[e] = delivery[e]
        /\ delivery'[n] = NewRow(w)
    BY <1>1, <1>2, <1>3 DEF WebTypeOK
  <1>5. /\ delivery'[n].to = w /\ delivery'[n].attempts = 0
        /\ ~delivery'[n].success /\ ~delivery'[n].due
        /\ delivery'[n].posts = 0
    BY <1>4 DEF NewRow
  <1>6. /\ sender' \in [Senders -> Request]
        /\ sender'[s].at = "post" /\ sender'[s].row = n
        /\ sender'[s].todo = sender[s].todo \ {w} /\ sender'[s].tries = 0
        /\ sender'[s].listed = sender[s].listed
        /\ sender'[s].done = sender[s].done
        /\ \A t \in Senders \ {s} : sender'[t] = sender[t]
    BY <1>1, <1>2, <1>4 DEF WebTypeOK, Request
  <1> HIDE DEF n
  <1>7. SenderOK(s)'
    <2>1. EmitterOK(s)'
      BY <1>1, <1>4, <1>5, <1>6 DEF SenderOK, EmitterOK
    <2>2. RoundOK(s)'
      BY <1>1, <1>5, <1>6 DEF SenderOK, RoundOK, Current, Delivering
    <2>. QED
      BY <1>1, <2>1, <2>2 DEF SenderOK
  <1>8. ASSUME NEW t \in Senders \ {s} PROVE SenderOK(t)'
    <2>1. \A e \in DOMAIN delivery : Kept(e)
      BY <1>4 DEF Kept
    <2>. QED
      BY <1>6, <2>1, OthersStand
  <1>9. \A q \in Sweepers : ~Holds(q, n)
    BY <1>4 DEF WebInv, Senders, SenderOK, SweepOK, Known
  <1>10. ASSUME NEW d \in DOMAIN delivery' PROVE RowOK(d)'
    <2>1. CASE d = n
      BY <1>1, <1>5, <2>1 DEF RowOK, WebTypeOK
    <2>2. CASE d # n
      <3>1. d \in DOMAIN delivery /\ RowOK(d) /\ delivery'[d] = delivery[d]
        BY <1>4, <2>2 DEF WebInv
      <3>2. ASSUME NEW t \in Senders, sender[t].at = "update"
            PROVE  sender'[t] = sender[t]
        BY <1>1, <1>6, <3>2
      <3>. QED
        BY <1>1, <3>1, <3>2 DEF RowOK
    <2>. QED
      BY <2>1, <2>2
  <1>11. ASSUME NEW d \in DOMAIN delivery' PROVE Alone(d)'
    <2>1. ASSUME NEW q \in Sweepers PROVE Holds(q, d)' = Holds(q, d)
      BY <1>1, <1>6 DEF Holds, Delivering, Senders
    <2>2. CASE d = n
      BY <1>9, <2>1, <2>2 DEF Alone
    <2>3. CASE d # n
      <3>1. d \in DOMAIN delivery /\ Alone(d) /\ delivery'[d] = delivery[d]
        BY <1>4, <2>3 DEF WebInv
      <3>. QED
        BY <2>1, <3>1 DEF Alone
    <2>. QED
      BY <2>2, <2>3
  <1>12. EmittersApart'
    <2> SUFFICES ASSUME NEW e \in Emitters, NEW f \in Emitters, e # f,
                        Delivering(e)', Delivering(f)'
                 PROVE  sender'[e].row # sender'[f].row
      BY DEF EmittersApart
    <2>1. ASSUME NEW t \in Emitters, t # s, Delivering(t)'
          PROVE  /\ Delivering(t) /\ sender'[t].row = sender[t].row
                 /\ sender[t].row # n
      <3>1. Delivering(t) /\ sender'[t] = sender[t]
        BY <1>6, <2>1 DEF Delivering, Senders
      <3>2. SenderOK(t)
        BY DEF WebInv, Senders
      <3>. QED
        BY <1>4, <3>1, <3>2 DEF SenderOK, EmitterOK
    <2>2. CASE e # s /\ f # s
      BY <2>1, <2>2 DEF WebInv, EmittersApart
    <2>3. CASE e = s \/ f = s
      BY <1>6, <2>1, <2>3
    <2>. QED
      BY <2>2, <2>3
  <1>13. NoneIsForgotten'
    <2> SUFFICES ASSUME NEW d \in DOMAIN delivery',
                        delivery'[d].attempts > 0
                 PROVE  \/ delivery'[d].success /\ ~delivery'[d].due
                        \/ /\ ~delivery'[d].success
                           /\ delivery'[d].due
                                = (delivery'[d].attempts < MAX_ATTEMPTS)
      BY DEF NoneIsForgotten
    <2>1. d # n
      BY <1>5
    <2>2. d \in DOMAIN delivery /\ delivery'[d] = delivery[d]
      BY <1>4, <2>1
    <2>. QED
      BY <2>2 DEF WebInv, NoneIsForgotten
  <1>14. WebTypeOK'
    BY <1>1, <1>4, <1>6 DEF WebTypeOK
  <1>. QED
    BY <1>7, <1>8, <1>10, <1>11, <1>12, <1>13, <1>14 DEF WebInv

\* The POST of a row goes out of the hands that hold it.
LEMMA PostStep ==
    ASSUME WebInv, NEW s \in Senders, Post(s)
    PROVE  WebInv'
  <1> DEFINE d == sender[s].row
  <1>1. /\ WebTypeOK /\ SenderOK(s) /\ sender[s] \in Request
        /\ sender[s].at = "post" /\ Delivering(s)
        /\ active' = active /\ lost' = lost /\ d \in Nat
    BY RequestFields DEF WebInv, WebTypeOK, Post, Delivering
  <1>2. d \in DOMAIN delivery
    <2>1. CASE s \in Emitters
      BY <1>1, <2>1 DEF SenderOK, EmitterOK
    <2>2. CASE s \in Sweepers
      BY <1>1, <2>2 DEF SenderOK, SweepOK, Holds, Known
    <2>. QED
      BY <2>1, <2>2 DEF Senders
  <1>3. /\ delivery[d] \in Delivery /\ RowOK(d)
        /\ delivery[d].posts \in Nat /\ delivery[d].attempts \in Nat
        /\ lost \in Nat
    BY <1>1, <1>2, RowFields DEF WebInv, WebTypeOK
  <1>4. PICK more \in {0, 1}, answer \in {"ok", "refused", "unreached"} :
            /\ sender' = [sender EXCEPT ![s].at = "update",
                                        ![s].answer = answer]
            /\ delivery' = [delivery EXCEPT ![d].posts = @ + more]
    BY DEF Post
  <1>5. /\ delivery' \in Seq(Delivery) /\ DOMAIN delivery' = DOMAIN delivery
        /\ \A e \in DOMAIN delivery : e # d => delivery'[e] = delivery[e]
        /\ delivery'[d].to = delivery[d].to
        /\ delivery'[d].attempts = delivery[d].attempts
        /\ delivery'[d].success = delivery[d].success
        /\ delivery'[d].due = delivery[d].due
        /\ delivery'[d].shared = delivery[d].shared
        /\ delivery'[d].posts \in {delivery[d].posts, delivery[d].posts + 1}
    <2> DEFINE r == [delivery[d] EXCEPT !.posts = @ + more]
    <2>1. /\ r \in Delivery /\ r.to = delivery[d].to
          /\ r.attempts = delivery[d].attempts /\ r.success = delivery[d].success
          /\ r.due = delivery[d].due /\ r.shared = delivery[d].shared
          /\ r.posts \in {delivery[d].posts, delivery[d].posts + 1}
      BY <1>3, <1>4 DEF Delivery
    <2>2. delivery' = [delivery EXCEPT ![d] = r] /\ delivery \in Seq(Delivery)
      BY <1>1, <1>4 DEF WebTypeOK
    <2> HIDE DEF r, d
    <2>3. /\ delivery' \in Seq(Delivery) /\ DOMAIN delivery' = DOMAIN delivery
          /\ \A e \in DOMAIN delivery : e # d => delivery'[e] = delivery[e]
          /\ delivery'[d] = r
      BY <1>2, <2>1, <2>2
    <2>. QED
      BY <2>1, <2>3
  <1>6. /\ sender' \in [Senders -> Request]
        /\ sender'[s].at = "update" /\ sender'[s].row = d
        /\ sender'[s].todo = sender[s].todo
        /\ sender'[s].counts = sender[s].counts
        /\ sender'[s].tries = sender[s].tries
        /\ sender'[s].listed = sender[s].listed
        /\ sender'[s].done = sender[s].done
        /\ \A t \in Senders \ {s} : sender'[t] = sender[t]
    BY <1>1, <1>4 DEF WebTypeOK, Request
  <1>7. \A e \in DOMAIN delivery : Kept(e) /\ delivery'[e].shared = delivery[e].shared
    BY <1>5 DEF Kept
  <1>8. /\ Delivering(s)'
        /\ \A e \in Nat : Holds(s, e)' = Holds(s, e) /\ Believed(s, e)' = Believed(s, e)
    BY <1>1, <1>6 DEF Delivering, Holds, Believed
  <1> HIDE DEF d
  <1>9. SenderOK(s)'
    <2>1. s \in Emitters => EmitterOK(s)'
      BY <1>1, <1>2, <1>6, <1>7 DEF SenderOK, EmitterOK, Kept, d
    <2>2. ASSUME s \in Sweepers, NEW e \in Nat, Holds(s, e) PROVE Known(s, e)'
      <3>1. Known(s, e)
        BY <1>1, <2>2 DEF SenderOK, SweepOK
      <3>. QED
        BY <1>7, <1>8, <3>1 DEF Known, Kept, Waits
    <2>3. s \in Sweepers => SweepOK(s)'
      BY <1>1, <1>6, <1>8, <2>2 DEF SenderOK, SweepOK, d
    <2>4. Current(s)' = Current(s)
      BY <1>2, <1>6, <1>7 DEF Current, Kept, d
    <2>5. RoundOK(s)'
      BY <1>1, <1>6, <1>8, <2>4 DEF SenderOK, RoundOK
    <2>. QED
      BY <2>1, <2>3, <2>5 DEF SenderOK
  <1>10. ASSUME NEW t \in Senders \ {s} PROVE SenderOK(t)'
    BY <1>6, <1>7, OthersStand
  <1>11. ASSUME NEW e \in DOMAIN delivery' PROVE RowOK(e)'
    <2>1. CASE e = d /\ ~delivery[d].shared
      <3>1. ASSUME NEW t \in Senders, sender[t].at = "update"
            PROVE  sender[t].row # d
        <4>1. t # s /\ Delivering(t)
          BY <1>1, <3>1 DEF Delivering
        <4>. QED
          BY <1>1, <2>1, <4>1, HandsApart DEF d
      <3>2. delivery[d].posts <= delivery[d].attempts + lost
        BY <1>3, <2>1, <3>1 DEF RowOK
      <3>3. delivery'[d].posts <= delivery'[d].attempts + lost' + 1
        BY <1>1, <1>3, <1>5, <3>2
      <3>. QED
        BY <1>3, <1>5, <1>6, <2>1, <3>3 DEF RowOK
    <2>2. CASE e = d /\ delivery[d].shared
      BY <1>3, <1>5, <2>2 DEF RowOK
    <2>3. CASE e # d
      <3>1. e \in DOMAIN delivery /\ RowOK(e) /\ delivery'[e] = delivery[e]
        BY <1>5, <2>3 DEF WebInv
      <3>2. ASSUME NEW t \in Senders, sender[t].at = "update"
            PROVE  sender'[t] = sender[t]
        BY <1>1, <1>6, <3>2
      <3>. QED
        BY <1>1, <3>1, <3>2 DEF RowOK
    <2>. QED
      BY <2>1, <2>2, <2>3
  <1>12. ASSUME NEW e \in DOMAIN delivery' PROVE Alone(e)'
    <2>1. Alone(e) /\ e \in Nat
      BY <1>1, <1>5, RowFields DEF WebInv
    <2>2. ASSUME NEW q \in Sweepers PROVE Holds(q, e)' = Holds(q, e)
      <3>1. CASE q = s
        BY <1>8, <2>1, <3>1
      <3>2. CASE q # s
        BY <1>6, <3>2 DEF Holds, Delivering, Senders
      <3>. QED
        BY <3>1, <3>2
    <2>. QED
      BY <1>5, <1>7, <2>1, <2>2 DEF Alone
  <1>13. EmittersApart'
    <2>1. ASSUME NEW v \in Senders, Delivering(v)'
          PROVE  Delivering(v) /\ sender'[v].row = sender[v].row
      BY <1>1, <1>6, <2>1 DEF Delivering, d
    <2>. QED
      BY <2>1 DEF WebInv, EmittersApart, Senders
  <1>14. NoneIsForgotten'
    BY <1>5, <1>7 DEF WebInv, NoneIsForgotten, Kept
  <1>15. WebTypeOK'
    BY <1>1, <1>5, <1>6 DEF WebTypeOK
  <1>. QED
    BY <1>9, <1>10, <1>11, <1>12, <1>13, <1>14, <1>15 DEF WebInv

\* A row with the outcome of an attempt in it.
RowAfter(x, ok, again, n) ==
    [x EXCEPT !.success = ok, !.attempts = n, !.due = again]

LEMMA RecordedRow ==
    ASSUME NEW x \in Delivery, NEW ok \in BOOLEAN, NEW again \in BOOLEAN,
           NEW n \in Nat
    PROVE  /\ RowAfter(x, ok, again, n) \in Delivery
           /\ RowAfter(x, ok, again, n).to = x.to
           /\ RowAfter(x, ok, again, n).attempts = n
           /\ RowAfter(x, ok, again, n).success = ok
           /\ RowAfter(x, ok, again, n).due = again
           /\ RowAfter(x, ok, again, n).posts = x.posts
           /\ RowAfter(x, ok, again, n).shared = x.shared
BY DEF Delivery, RowAfter

\* The answer is written to the row, over whatever another sweep has written
\* there: it is let go of.
LEMMA UpdateStep ==
    ASSUME WebInv, NEW s \in Senders, Update(s)
    PROVE  WebInv'
  <1> DEFINE d == sender[s].row
             hit == IF s \in Sweepers THEN d ELSE delivery[d].to
             tried == sender[s].tries + 1
  <1>1. /\ WebTypeOK /\ SenderOK(s) /\ sender[s] \in Request
        /\ sender[s].at = "update" /\ Delivering(s)
        /\ active' = active /\ lost' = lost /\ d \in Nat /\ sender[s].tries \in Nat
    BY RequestFields DEF WebInv, WebTypeOK, Update, Delivering
  <1>2. /\ d \in DOMAIN delivery
        /\ ~delivery[d].shared => /\ sender[s].tries = delivery[d].attempts
                                  /\ delivery[d].attempts < MAX_ATTEMPTS
    <2>1. CASE s \in Emitters
      BY <1>1, <2>1 DEF SenderOK, EmitterOK
    <2>2. CASE s \in Sweepers
      <3>1. Known(s, d) /\ d \notin sender[s].todo
        BY <1>1, <2>2 DEF SenderOK, SweepOK, Holds
      <3>. QED
        BY <3>1 DEF Known, Waits, Believed
    <2>. QED
      BY <2>1, <2>2 DEF Senders
  <1>3. /\ delivery[d] \in Delivery /\ RowOK(d)
        /\ delivery[d].posts \in Nat /\ delivery[d].attempts \in Nat
        /\ lost \in Nat /\ delivery[d].to \in Endpoints
    BY <1>1, <1>2, RowFields DEF WebInv, WebTypeOK
  <1>4. PICK ok, again :
        /\ ok \in BOOLEAN /\ again \in BOOLEAN
        /\ delivery' = [delivery EXCEPT ![d].success = ok,
                           ![d].attempts = tried, ![d].due = again]
        /\ again <=> ~ok /\ tried < MAX_ATTEMPTS
        /\ sender' = [sender EXCEPT ![s].at = After(s),
                                    ![s].done = @ \cup {hit}]
    BY DEF Update, Recorded
  <1>0. tried \in Nat /\ tried > 0
    BY <1>1
  <1>5. /\ delivery' \in Seq(Delivery) /\ DOMAIN delivery' = DOMAIN delivery
        /\ \A e \in DOMAIN delivery : e # d => delivery'[e] = delivery[e]
        /\ delivery'[d].to = delivery[d].to
        /\ delivery'[d].attempts = tried
        /\ delivery'[d].success = ok
        /\ delivery'[d].due = again
        /\ delivery'[d].posts = delivery[d].posts
        /\ delivery'[d].shared = delivery[d].shared
    <2> HIDE DEF tried, d
    <2> DEFINE r == RowAfter(delivery[d], ok, again, tried)
    <2>1. delivery' = [delivery EXCEPT ![d] = r]
      BY <1>1, <1>2, <1>4 DEF RowAfter, WebTypeOK
    <2>2. /\ r \in Delivery
          /\ r.to = delivery[d].to /\ r.attempts = tried
          /\ r.success = ok /\ r.due = again /\ r.posts = delivery[d].posts
          /\ r.shared = delivery[d].shared
      <3>1. delivery[d] \in Delivery /\ tried \in Nat
        BY <1>3, <1>0
      <3>2. ok \in BOOLEAN /\ again \in BOOLEAN
        BY <1>4
      <3>3. PICK x \in Delivery, n \in Nat : x = delivery[d] /\ n = tried
        BY <3>1
      <3>4. /\ RowAfter(x, ok, again, n) \in Delivery
            /\ RowAfter(x, ok, again, n).to = x.to
            /\ RowAfter(x, ok, again, n).attempts = n
            /\ RowAfter(x, ok, again, n).success = ok
            /\ RowAfter(x, ok, again, n).due = again
            /\ RowAfter(x, ok, again, n).posts = x.posts
            /\ RowAfter(x, ok, again, n).shared = x.shared
        BY <3>2, RecordedRow
      <3>5. r = RowAfter(x, ok, again, n)
        BY <3>3
      <3>. QED
        BY <3>3, <3>4, <3>5
    <2> HIDE DEF r
    <2>3. delivery' \in Seq(Delivery) /\ DOMAIN delivery' = DOMAIN delivery
      BY <1>1, <1>2, <2>1, <2>2 DEF WebTypeOK
    <2>4. /\ \A e \in DOMAIN delivery : e # d => delivery'[e] = delivery[e]
          /\ delivery'[d] = r
      BY <1>1, <1>2, <2>1 DEF WebTypeOK
    <2>. QED
      BY <2>2, <2>3, <2>4
  <1>6. After(s) \in {"over", "next", "create"}
        /\ (s \in Sweepers => After(s) # "create")
        /\ (After(s) = "over" => sender[s].todo = {})
    BY DEF After
  <1>7. /\ sender' \in [Senders -> Request]
        /\ sender'[s].at = After(s)
        /\ sender'[s].todo = sender[s].todo
        /\ sender'[s].counts = sender[s].counts
        /\ sender'[s].listed = sender[s].listed
        /\ sender'[s].done = sender[s].done \cup {hit}
        /\ \A t \in Senders \ {s} : sender'[t] = sender[t]
    BY <1>1, <1>2, <1>3, <1>4, <1>6 DEF WebTypeOK, Request
  <1>8. ~Delivering(s)' /\ \A e \in Nat : Holds(s, e)' = (e \in sender[s].todo)
    BY <1>6, <1>7 DEF Delivering, Holds
  <1>9. SenderOK(s)'
    <2>1. s \in Emitters => EmitterOK(s)'
      BY <1>1, <1>7, <1>8 DEF SenderOK, EmitterOK
    <2>2. ASSUME s \in Sweepers, NEW e \in Nat, e \in sender[s].todo PROVE Known(s, e)'
      <3>1. Known(s, e) /\ e # d
        BY <1>1, <2>2 DEF SenderOK, SweepOK, Holds
      <3>2. e \in DOMAIN delivery /\ delivery'[e] = delivery[e]
        BY <1>5, <3>1 DEF Known
      <3>3. Believed(s, e)' = Believed(s, e)
        BY <1>7, <2>2 DEF Believed
      <3>. QED
        BY <1>5, <3>1, <3>2, <3>3 DEF Known, Waits
    <2>3. s \in Sweepers => SweepOK(s)'
      BY <1>1, <1>6, <1>7, <1>8, <2>2 DEF SenderOK, SweepOK
    <2>4. sender[s].listed = sender[s].done \cup sender[s].todo \cup {hit}
      BY <1>1 DEF SenderOK, RoundOK, Current
    <2>5. RoundOK(s)'
      BY <1>6, <1>7, <1>8, <2>4 DEF RoundOK
    <2>. QED
      BY <2>1, <2>3, <2>5 DEF SenderOK
  <1> HIDE DEF d, hit, tried
  <1>10. ASSUME NEW t \in Senders \ {s} PROVE SenderOK(t)'
    <2>1. \A e \in DOMAIN delivery : e # d => Kept(e)
      BY <1>5 DEF Kept
    <2>2. NotTheirs(t, d)
      <3>1. t \in Emitters /\ Delivering(t) => sender[t].row # d
        BY <1>1, HandsApart DEF d
      <3>2. t \in Sweepers /\ Holds(t, d) => delivery[d].shared
        BY <1>1, HandsApart DEF d
      <3>. QED
        BY <1>0, <1>2, <1>5, <3>1, <3>2 DEF NotTheirs
    <2>. QED
      BY <1>7, <2>1, <2>2, OthersStand
  <1>11. ASSUME NEW e \in DOMAIN delivery' PROVE RowOK(e)'
    <2>1. CASE e = d /\ delivery[d].shared
      BY <1>0, <1>5, <2>1 DEF RowOK
    <2>2. CASE e = d /\ ~delivery[d].shared
      <3>1. delivery[d].posts <= delivery[d].attempts + lost + 1
        BY <1>3, <2>2 DEF RowOK
      <3>2. tried = delivery[d].attempts + 1 /\ delivery[d].attempts < MAX_ATTEMPTS
        BY <1>2, <2>2 DEF tried
      <3>3. tried <= MAX_ATTEMPTS /\ delivery[d].posts <= tried + lost
        BY <1>3, <3>1, <3>2
      <3>. QED
        BY <1>0, <1>1, <1>5, <2>2, <3>3 DEF RowOK
    <2>3. CASE e # d
      <3>1. e \in DOMAIN delivery /\ RowOK(e) /\ delivery'[e] = delivery[e]
        BY <1>5, <2>3 DEF WebInv
      <3>2. ASSUME NEW t \in Senders, sender[t].at = "update",
                   sender[t].row = e
            PROVE  sender'[t] = sender[t]
        BY <1>7, <2>3, <3>2 DEF d
      <3>. QED
        BY <1>1, <3>1, <3>2 DEF RowOK
    <2>. QED
      BY <2>1, <2>2, <2>3
  <1>12. ASSUME NEW e \in DOMAIN delivery' PROVE Alone(e)'
    <2>1. Alone(e) /\ e \in Nat
      BY <1>1, <1>5, RowFields DEF WebInv
    <2>2. ASSUME NEW q \in Sweepers, Holds(q, e)' PROVE Holds(q, e)
      <3>1. CASE q = s
        BY <1>8, <2>1, <2>2, <3>1 DEF Holds
      <3>2. CASE q # s
        BY <1>7, <2>2, <3>2 DEF Holds, Delivering, Senders
      <3>. QED
        BY <3>1, <3>2
    <2>3. delivery'[e].shared = delivery[e].shared
      BY <1>5
    <2>. QED
      BY <2>1, <2>2, <2>3 DEF Alone
  <1>13. EmittersApart'
    <2>1. ASSUME NEW v \in Senders, Delivering(v)'
          PROVE  Delivering(v) /\ sender'[v].row = sender[v].row
      BY <1>7, <1>8, <2>1 DEF Delivering
    <2>. QED
      BY <2>1 DEF WebInv, EmittersApart, Senders
  <1>14. NoneIsForgotten'
    <2> SUFFICES ASSUME NEW e \in DOMAIN delivery,
                        delivery'[e].attempts > 0
                 PROVE  \/ delivery'[e].success /\ ~delivery'[e].due
                        \/ /\ ~delivery'[e].success
                           /\ delivery'[e].due
                                = (delivery'[e].attempts < MAX_ATTEMPTS)
      BY <1>5 DEF NoneIsForgotten
    <2>1. CASE e = d
      BY <1>4, <1>5, <2>1
    <2>2. CASE e # d
      BY <1>5, <2>2 DEF WebInv, NoneIsForgotten
    <2>. QED
      BY <2>1, <2>2
  <1>15. WebTypeOK'
    BY <1>1, <1>5, <1>7 DEF WebTypeOK
  <1>. QED
    BY <1>5, <1>9, <1>10, <1>11, <1>12, <1>13, <1>14, <1>15 DEF WebInv

\* A refused update is tried once more, as a failure.
LEMMA RefusedStep ==
    ASSUME WebInv, NEW s \in Senders, UpdateRefused(s)
    PROVE  WebInv'
  <1>1. /\ WebTypeOK /\ sender[s] \in Request
        /\ active' = active /\ delivery' = delivery
        /\ lost' = lost + 1 /\ lost \in Nat
    BY DEF WebInv, WebTypeOK, UpdateRefused
  <1>2. /\ sender' \in [Senders -> Request]
        /\ \A t \in Senders : /\ sender'[t].at = sender[t].at
                              /\ sender'[t].row = sender[t].row
                              /\ sender'[t].tries = sender[t].tries
                              /\ sender'[t].todo = sender[t].todo
                              /\ sender'[t].counts = sender[t].counts
                              /\ sender'[t].listed = sender[t].listed
                              /\ sender'[t].done = sender[t].done
    BY <1>1 DEF UpdateRefused, WebTypeOK, Request
  <1>3. ASSUME NEW t \in Senders
        PROVE  /\ Delivering(t)' = Delivering(t) /\ Current(t)' = Current(t)
               /\ \A d : Holds(t, d)' = Holds(t, d) /\ Believed(t, d)' = Believed(t, d)
    BY <1>1, <1>2 DEF Delivering, Current, Holds, Believed
  <1>4. ASSUME NEW t \in Senders PROVE SenderOK(t)'
    <2>1. SenderOK(t)
      BY DEF WebInv
    <2>2. t \in Emitters => EmitterOK(t)'
      BY <1>1, <1>2, <1>3, <2>1 DEF SenderOK, EmitterOK
    <2>3. ASSUME t \in Sweepers, NEW d \in Nat, Holds(t, d) PROVE Known(t, d)'
      <3>1. Known(t, d)
        BY <2>1, <2>3 DEF SenderOK, SweepOK
      <3>. QED
        BY <1>1, <1>3, <3>1 DEF Known, Waits
    <2>4. t \in Sweepers => SweepOK(t)'
      BY <1>2, <1>3, <2>1, <2>3 DEF SenderOK, SweepOK
    <2>5. RoundOK(t)'
      BY <1>2, <1>3, <2>1 DEF SenderOK, RoundOK
    <2>. QED
      BY <2>2, <2>4, <2>5 DEF SenderOK
  <1>5. ASSUME NEW d \in DOMAIN delivery PROVE RowOK(d)'
    <2>1. RowOK(d) /\ delivery[d].posts \in Nat /\ delivery[d].attempts \in Nat
      BY <1>1, RowFields DEF WebInv
    <2>. QED
      BY <1>1, <1>2, <2>1 DEF RowOK
  <1>6. ASSUME NEW d \in DOMAIN delivery PROVE Alone(d)'
    BY <1>1, <1>3 DEF WebInv, Alone, Senders
  <1>7. EmittersApart' /\ NoneIsForgotten'
    BY <1>1, <1>2, <1>3 DEF WebInv, EmittersApart, NoneIsForgotten, Senders
  <1>8. WebTypeOK'
    BY <1>1, <1>2 DEF WebTypeOK
  <1>. QED
    BY <1>1, <1>4, <1>5, <1>6, <1>7, <1>8 DEF WebInv

\* A request that dies lets go of its row; what it had posted is lost.
LEMMA AbandonStep ==
    ASSUME WebInv, NEW s \in Senders, Abandon(s)
    PROVE  WebInv'
  <1>1. /\ WebTypeOK /\ active' = active /\ delivery' = delivery
        /\ lost' = lost + 1 /\ lost \in Nat
    BY DEF WebInv, WebTypeOK, Abandon
  <1>2. /\ sender' \in [Senders -> Request]
        /\ sender'[s].at = "idle" /\ sender'[s].todo = {}
        /\ \A t \in Senders \ {s} : sender'[t] = sender[t]
    BY <1>1, RestingIsARequest DEF Abandon, WebTypeOK, Resting
  <1>3. ~Delivering(s)' /\ \A d : ~Holds(s, d)'
    BY <1>2 DEF Delivering, Holds
  <1>4. ASSUME NEW t \in Senders PROVE SenderOK(t)'
    <2>1. CASE t = s
      BY <1>2, <1>3, <2>1 DEF SenderOK, EmitterOK, SweepOK, RoundOK
    <2>2. CASE t # s
      <3>1. \A e \in DOMAIN delivery : Kept(e)
        BY <1>1 DEF Kept
      <3>. QED
        BY <1>2, <2>2, <3>1, OthersStand
    <2>. QED
      BY <2>1, <2>2
  <1>5. ASSUME NEW d \in DOMAIN delivery PROVE RowOK(d)'
    <2>1. RowOK(d) /\ delivery[d].posts \in Nat /\ delivery[d].attempts \in Nat
      BY <1>1, RowFields DEF WebInv
    <2>. QED
      BY <1>1, <2>1 DEF RowOK
  <1>6. ASSUME NEW t \in Senders \ {s}
        PROVE  /\ Delivering(t)' = Delivering(t) /\ sender'[t].row = sender[t].row
               /\ \A d : Holds(t, d)' = Holds(t, d)
    BY <1>2 DEF Delivering, Holds
  <1>7. ASSUME NEW d \in DOMAIN delivery PROVE Alone(d)'
    BY <1>1, <1>3, <1>6 DEF WebInv, Alone, Senders
  <1>8. EmittersApart'
    BY <1>3, <1>6 DEF WebInv, EmittersApart, Senders
  <1>9. NoneIsForgotten'
    BY <1>1 DEF WebInv, NoneIsForgotten
  <1>10. WebTypeOK'
    BY <1>1, <1>2 DEF WebTypeOK
  <1>. QED
    BY <1>1, <1>4, <1>5, <1>7, <1>8, <1>9, <1>10 DEF WebInv

LEMMA SwitchStep ==
    ASSUME WebInv, active' \subseteq Endpoints,
           UNCHANGED <<delivery, sender, lost>>
    PROVE  WebInv'
  <1>1. WebTypeOK'
    BY DEF WebInv, WebTypeOK
  <1>2. ASSUME NEW t \in Senders PROVE SenderOK(t)'
    <2>1. \A e \in DOMAIN delivery : Kept(e)
      BY DEF Kept
    <2>. QED
      BY <2>1, OthersStand
  <1>3. ASSUME NEW d \in DOMAIN delivery PROVE RowOK(d)' /\ Alone(d)'
    <2>1. RowOK(d) /\ Alone(d)
      BY DEF WebInv
    <2>. QED
      BY <2>1 DEF RowOK, Alone, Holds, Delivering
  <1>. QED
    BY <1>1, <1>2, <1>3 DEF WebInv, EmittersApart, Delivering, NoneIsForgotten

LEMMA WebInit == WebhooksInit => WebInv
  <1> SUFFICES ASSUME WebhooksInit PROVE WebInv
    OBVIOUS
  <1>1. WebTypeOK
    BY RestingIsARequest DEF WebhooksInit, WebTypeOK
  <1>2. /\ DOMAIN delivery = {}
        /\ \A s \in Senders : sender[s].at = "idle" /\ sender[s].todo = {}
    BY DEF WebhooksInit, Resting
  <1>3. \A s \in Senders : ~Delivering(s) /\ \A d : ~Holds(s, d)
    BY <1>2 DEF Delivering, Holds
  <1>4. ASSUME NEW s \in Senders PROVE SenderOK(s)
    BY <1>2, <1>3 DEF SenderOK, EmitterOK, SweepOK, RoundOK
  <1>5. EmittersApart
    BY <1>3 DEF EmittersApart, Senders
  <1>. QED
    BY <1>1, <1>2, <1>4, <1>5 DEF WebInv, NoneIsForgotten

LEMMA WebStep == WebInv /\ [WebhooksNext]_webhookVars => WebInv'
  <1> SUFFICES ASSUME WebInv, [WebhooksNext]_webhookVars PROVE WebInv'
    OBVIOUS
  <1>1. CASE UNCHANGED webhookVars
    <2>1. active' \subseteq Endpoints /\ UNCHANGED <<delivery, sender, lost>>
      BY <1>1 DEF webhookVars, WebInv, WebTypeOK
    <2>. QED
      BY <2>1, SwitchStep
  <1>2. ASSUME NEW s \in Senders,
               \/ emit(s) \/ CreateDelivery(s) \/ Post(s) \/ Update(s)
               \/ UpdateRefused(s) \/ Abandon(s) \/ NothingToDo(s)
               \/ \E w \in Endpoints : testWebhook(s, w)
        PROVE  WebInv'
    BY <1>2, StartStep, CreateStep, PostStep, UpdateStep, RefusedStep,
       AbandonStep
  <1>3. ASSUME NEW q \in Senders, retryDue(q) PROVE WebInv'
    <2>1. q \in Sweepers
      BY <1>3 DEF retryDue
    <2>. QED
      BY <1>3, <2>1, SweepStep
  <1>4. ASSUME NEW q \in Senders, RetryNext(q) PROVE WebInv'
    <2>1. q \in Sweepers
      BY <1>4 DEF RetryNext
    <2>. QED
      BY <1>4, <2>1, RetryStep
  <1>5. ASSUME NEW w \in Endpoints, setWebhookEnabled(w) PROVE WebInv'
    <2>1. active' \subseteq Endpoints /\ UNCHANGED <<delivery, sender, lost>>
      BY <1>5 DEF setWebhookEnabled, WebInv, WebTypeOK
    <2>. QED
      BY <2>1, SwitchStep
  <1>. QED
    BY <1>1, <1>2, <1>3, <1>4, <1>5 DEF WebhooksNext

LEMMA WebIsSafe == WebInv => WebhooksInv
  <1> SUFFICES ASSUME WebInv PROVE WebhooksInv
    OBVIOUS
  <1>0. WebTypeOK /\ lost \in Nat
    BY DEF WebInv, WebTypeOK
  <1>1. NoneIsForgotten
    BY DEF WebInv
  <1>2. EveryoneIsTried
    BY DEF WebInv, SenderOK, RoundOK, EveryoneIsTried
  <1>3. FirstTryIsAlone
    <2> SUFFICES ASSUME NEW e \in Emitters, Delivering(e)
                 PROVE  /\ \A q \in Sweepers : ~Holds(q, sender[e].row)
                        /\ \A s \in Emitters \ {e} :
                              Delivering(s) => sender[s].row # sender[e].row
      BY DEF FirstTryIsAlone
    <2>1. e \in Senders /\ e \notin Sweepers /\ sender[e].row \in Nat
      BY <1>0, RequestFields DEF Senders
    <2>2. ASSUME NEW q \in Sweepers PROVE ~Holds(q, sender[e].row)
      <3>1. q \in Senders /\ q # e
        BY <2>1 DEF Senders
      <3>. QED
        BY <2>1, <3>1, HandsApart
    <2>. QED
      BY <2>2 DEF WebInv, EmittersApart
  <1>4. ASSUME NEW d \in DOMAIN delivery, ~delivery[d].shared
        PROVE  delivery[d].posts <= MAX_ATTEMPTS + lost
    <2>1. /\ RowOK(d) /\ d \in Nat
          /\ delivery[d].posts \in Nat /\ delivery[d].attempts \in Nat
      BY <1>0, RowFields DEF WebInv
    <2>2. CASE delivery[d].posts <= delivery[d].attempts + lost
      BY <1>0, <1>4, <2>1, <2>2 DEF RowOK
    <2>3. ASSUME NEW s \in Senders, sender[s].at = "update",
                 sender[s].row = d,
                 delivery[d].posts <= delivery[d].attempts + lost + 1
          PROVE  delivery[d].posts <= MAX_ATTEMPTS + lost
      <3>1. SenderOK(s) /\ Delivering(s)
        BY <2>3 DEF WebInv, Delivering
      <3>2. delivery[d].attempts < MAX_ATTEMPTS
        <4>1. CASE s \in Emitters
          BY <2>3, <3>1, <4>1 DEF SenderOK, EmitterOK
        <4>2. CASE s \in Sweepers
          BY <1>4, <2>1, <2>3, <3>1, <4>2 DEF SenderOK, SweepOK, Holds, Known, Waits
        <4>. QED
          BY <4>1, <4>2 DEF Senders
      <3>. QED
        BY <1>0, <2>1, <2>3, <3>2
    <2>. QED
      BY <1>4, <2>1, <2>2, <2>3 DEF RowOK
  <1>5. ASSUME NEW d \in DOMAIN delivery, ~delivery[d].shared,
               delivery[d].success, NEW q \in Sweepers
        PROVE  ~Holds(q, d)
    <2>1. d \in Nat /\ SenderOK(q)
      BY <1>0, RowFields DEF WebInv, Senders
    <2>. QED
      BY <1>5, <2>1 DEF SenderOK, SweepOK, Known, Waits
  <1>. QED
    BY <1>1, <1>2, <1>3, <1>4, <1>5 DEF WebhooksInv, PostsAreCounted

\* However many events are emitted and sweeps run at once, whoever dies and
\* whatever updates are refused: a first try is in one request's hands, a delivery
\* that no two sweeps have listed together is posted at most MAX_ATTEMPTS times but
\* for what was lost and is in no list once taken; none is forgotten; and a round
\* that ends has tried every endpoint it listed.
THEOREM DeliveriesAreKept == WebhooksSpec => []WebhooksInv
  BY WebInit, WebStep, WebIsSafe, PTL DEF WebhooksSpec

-----------------------------------------------------------------------------
(* Mailed invites *)

Link == [to : Addresses, terms : Terms, redeemed : BOOLEAN]

Panel == [at : {"typing", "read", "issue", "sent", "error"},
          todo : Seq(Addresses), terms : Terms \cup {"none"},
          active : SUBSET Addresses, sent : SUBSET Addresses,
          skipped : SUBSET Addresses, asked : SUBSET Addresses]

HasLink(to) == \E i \in invites : i.to = to

\* A batch that is going on has seen to some and has the rest to do.
PanelOK(o) ==
    /\ panel[o] \in Panel
    /\ panel[o].at \in {"read", "issue"} => panel[o].terms \in Terms
    /\ panel[o].at = "read" =>
          /\ panel[o].sent = {} /\ panel[o].skipped = {}
          /\ panel[o].asked = Unique(panel[o].todo)
    /\ panel[o].at = "issue" =>
          /\ panel[o].asked = panel[o].sent \cup panel[o].skipped
                                  \cup Unique(panel[o].todo)
          /\ \A to \in panel[o].active : HasLink(to)
    /\ panel[o].at = "sent" =>
          panel[o].asked = panel[o].sent \cup panel[o].skipped
    /\ panel[o].sent \cap panel[o].skipped = {}
    /\ \A to \in panel[o].sent \cup panel[o].skipped : HasLink(to)

UsedAreSpent ==
    \A u \in used : \E i \in invites : u = <<i.to, i.terms>> /\ i.redeemed

BatchInv == /\ invites \subseteq Link
            /\ panel \in [Operators -> Panel]
            /\ \A o \in Operators : PanelOK(o)
            /\ LinkOnce /\ UsedAreSpent

USE BatchesAssumption

LEMMA HeadIsTaken ==
    ASSUME NEW todo \in Seq(Addresses), todo # <<>>
    PROVE  /\ Head(todo) \in Addresses /\ Tail(todo) \in Seq(Addresses)
           /\ Unique(todo) = {Head(todo)} \cup Unique(Tail(todo))
  <1>1. /\ Head(todo) = todo[1] /\ 1 \in DOMAIN todo
        /\ Tail(todo) \in Seq(Addresses)
    OBVIOUS
  <1>2. ASSUME NEW i \in DOMAIN todo, i # 1
        PROVE  i - 1 \in DOMAIN Tail(todo) /\ Tail(todo)[i - 1] = todo[i]
    BY <1>2
  <1>3. ASSUME NEW i \in DOMAIN Tail(todo)
        PROVE  i + 1 \in DOMAIN todo /\ Tail(todo)[i] = todo[i + 1]
    BY <1>3
  <1>4. Unique(todo) \subseteq {Head(todo)} \cup Unique(Tail(todo))
    <2> SUFFICES ASSUME NEW i \in DOMAIN todo, todo[i] # Head(todo)
                 PROVE  todo[i] \in Unique(Tail(todo))
      BY DEF Unique
    <2>. QED
      BY <1>1, <1>2 DEF Unique
  <1>5. {Head(todo)} \cup Unique(Tail(todo)) \subseteq Unique(todo)
    BY <1>1, <1>3 DEF Unique
  <1>. QED
    BY <1>1, <1>4, <1>5

LEMMA PanelFields ==
    ASSUME NEW p \in Panel
    PROVE  /\ p.at \in {"typing", "read", "issue", "sent", "error"}
           /\ p.todo \in Seq(Addresses)
           /\ p.active \subseteq Addresses /\ p.sent \subseteq Addresses
           /\ p.skipped \subseteq Addresses /\ p.asked \subseteq Addresses
BY DEF Panel

\* Links are never taken away, so what a panel knows stays true.
LEMMA PanelStands ==
    ASSUME BatchInv, NEW o \in Operators, panel'[o] = panel[o],
           \A to \in Addresses : HasLink(to) => HasLink(to)'
    PROVE  PanelOK(o)'
  <1>1. PanelOK(o) /\ panel[o] \in Panel
    BY DEF BatchInv
  <1>2. /\ panel[o].active \subseteq Addresses
        /\ panel[o].sent \cup panel[o].skipped \subseteq Addresses
    BY <1>1, PanelFields
  <1>3. ASSUME NEW to \in panel[o].sent \cup panel[o].skipped
        PROVE  HasLink(to)'
    BY <1>1, <1>2 DEF PanelOK
  <1>4. panel[o].at = "issue" => \A to \in panel[o].active : HasLink(to)'
    BY <1>1, <1>2 DEF PanelOK
  <1>. QED
    BY <1>1, <1>3, <1>4 DEF PanelOK

\* A step of one panel that adds no link.
LEMMA PanelStep ==
    ASSUME BatchInv, NEW o \in Operators, PanelOK(o)',
           panel' \in [Operators -> Panel],
           \A q \in Operators \ {o} : panel'[q] = panel[q],
           UNCHANGED <<invites, used>>
    PROVE  BatchInv'
  <1>1. \A to \in Addresses : HasLink(to) => HasLink(to)'
    BY DEF HasLink
  <1>2. \A q \in Operators : PanelOK(q)'
    BY <1>1, PanelStands
  <1>. QED
    BY <1>2 DEF BatchInv, LinkOnce, UsedAreSpent

LEMMA AskStep ==
    ASSUME BatchInv, NEW o \in Operators, NEW batch \in Batches,
           NEW terms \in Terms, createEmailInvitesAction(o, batch, terms)
    PROVE  BatchInv'
  <1> DEFINE p == [Quiet EXCEPT !.at = "read", !.todo = batch,
                                !.terms = terms, !.asked = Unique(batch)]
  <1>1. /\ panel \in [Operators -> Panel] /\ UNCHANGED <<invites, used>>
        /\ panel' = [panel EXCEPT ![o] = p]
    BY DEF BatchInv, createEmailInvitesAction
  <1>2. batch \in Seq(Addresses) /\ Unique(batch) \subseteq Addresses
    BY DEF Unique
  <1>3. /\ p.at = "read" /\ p.todo = batch /\ p.terms = terms
        /\ p.asked = Unique(batch) /\ p.active = {} /\ p.sent = {}
        /\ p.skipped = {} /\ p \in Panel
    BY <1>2 DEF Quiet, Panel
  <1> HIDE DEF p
  <1>4. /\ panel' \in [Operators -> Panel] /\ panel'[o] = p
        /\ \A q \in Operators \ {o} : panel'[q] = panel[q]
    BY <1>1, <1>3
  <1>5. PanelOK(o)'
    BY <1>3, <1>4 DEF PanelOK
  <1>. QED
    BY <1>1, <1>4, <1>5, PanelStep

LEMMA ReadStep ==
    ASSUME BatchInv, NEW o \in Operators, ReadActive(o)
    PROVE  BatchInv'
  <1> DEFINE open == activeEmails(panel[o].asked)
             p == [panel[o] EXCEPT !.at = "issue", !.active = open]
  <1>1. /\ panel \in [Operators -> Panel] /\ UNCHANGED <<invites, used>>
        /\ panel' = [panel EXCEPT ![o] = p]
        /\ panel[o].at = "read" /\ panel[o] \in Panel /\ PanelOK(o)
    BY DEF BatchInv, ReadActive
  <1>2. panel[o].asked \subseteq Addresses
    BY <1>1, PanelFields
  <1>3. open \subseteq Addresses /\ \A to \in open : HasLink(to)
    BY <1>2 DEF activeEmails, HasLink
  <1>4. /\ p \in Panel /\ p.at = "issue" /\ p.active = open
        /\ p.todo = panel[o].todo /\ p.terms = panel[o].terms
        /\ p.sent = panel[o].sent /\ p.skipped = panel[o].skipped
        /\ p.asked = panel[o].asked
    <2> HIDE DEF open
    <2>. QED
      BY <1>1, <1>3 DEF Panel
  <1> HIDE DEF p, open
  <1>5. /\ panel' \in [Operators -> Panel] /\ panel'[o] = p
        /\ \A q \in Operators \ {o} : panel'[q] = panel[q]
    BY <1>1, <1>4
  <1>6. \A to \in open : HasLink(to)'
    BY <1>1, <1>3 DEF HasLink
  <1>7. PanelOK(o)'
    BY <1>1, <1>4, <1>5, <1>6 DEF PanelOK
  <1>. QED
    BY <1>1, <1>5, <1>7, PanelStep

LEMMA DoneStep ==
    ASSUME BatchInv, NEW o \in Operators, BatchDone(o)
    PROVE  BatchInv'
  <1> DEFINE p == [panel[o] EXCEPT !.at = "sent"]
  <1>1. /\ panel \in [Operators -> Panel] /\ UNCHANGED <<invites, used>>
        /\ panel' = [panel EXCEPT ![o] = p]
        /\ panel[o].at = "issue" /\ panel[o].todo = <<>>
        /\ panel[o] \in Panel /\ PanelOK(o)
    BY DEF BatchInv, BatchDone
  <1>2. /\ p \in Panel /\ p.at = "sent"
        /\ p.sent = panel[o].sent /\ p.skipped = panel[o].skipped
        /\ p.asked = panel[o].asked
    BY <1>1 DEF Panel
  <1> HIDE DEF p
  <1>3. /\ panel' \in [Operators -> Panel] /\ panel'[o] = p
        /\ \A q \in Operators \ {o} : panel'[q] = panel[q]
    BY <1>1, <1>2
  <1>4. Unique(panel[o].todo) = {}
    BY <1>1 DEF Unique
  <1>5. \A to \in panel[o].sent \cup panel[o].skipped : HasLink(to)'
    BY <1>1 DEF HasLink, PanelOK
  <1>6. PanelOK(o)'
    BY <1>1, <1>2, <1>3, <1>4, <1>5 DEF PanelOK
  <1>. QED
    BY <1>1, <1>3, <1>6, PanelStep
\* The next address of the list: it was seen to, it is skipped, its link is
\* issued, or the insert throws and the batch ends there.
LEMMA IssueStep ==
    ASSUME BatchInv, NEW o \in Operators, IssueNext(o)
    PROVE  BatchInv'
  <1> DEFINE p == panel[o]
             to == Head(p.todo)
             rest == Tail(p.todo)
  <1>1. /\ panel \in [Operators -> Panel] /\ p \in Panel /\ PanelOK(o)
        /\ p.at = "issue" /\ p.todo # <<>> /\ used' = used
        /\ invites \subseteq Link /\ p.terms \in Terms
    BY DEF BatchInv, IssueNext, PanelOK
  <1>2. /\ to \in Addresses /\ rest \in Seq(Addresses)
        /\ Unique(p.todo) = {to} \cup Unique(rest)
    <2>1. p.todo \in Seq(Addresses)
      BY <1>1, PanelFields
    <2>. QED
      BY <1>1, <2>1, HeadIsTaken
  <1>3. /\ p.asked = p.sent \cup p.skipped \cup {to} \cup Unique(rest)
        /\ \A x \in p.active \cup p.sent \cup p.skipped : HasLink(x)
        /\ p.sent \cap p.skipped = {}
    BY <1>1, <1>2 DEF PanelOK
  <1>4. ASSUME UNCHANGED invites, to \in p.sent \cup p.skipped,
               panel' = [panel EXCEPT ![o].todo = rest]
        PROVE  BatchInv'
    <2> DEFINE r == [p EXCEPT !.todo = rest]
    <2>1. panel' = [panel EXCEPT ![o] = r]
      BY <1>1, <1>4
    <2>2. /\ r \in Panel /\ r.at = "issue" /\ r.todo = rest
          /\ r.terms = p.terms /\ r.active = p.active
          /\ r.sent = p.sent /\ r.skipped = p.skipped /\ r.asked = p.asked
      <3> HIDE DEF rest
      <3>. QED
        BY <1>1, <1>2 DEF Panel
    <2> HIDE DEF p, to, rest, r
    <2>3. /\ panel' \in [Operators -> Panel] /\ panel'[o] = r
          /\ \A q \in Operators \ {o} : panel'[q] = panel[q]
      BY <1>1, <2>1, <2>2
    <2>4. \A x \in p.active \cup p.sent \cup p.skipped : HasLink(x)'
      BY <1>3, <1>4 DEF HasLink
    <2>5. PanelOK(o)'
      <3>1. r.asked = r.sent \cup r.skipped \cup Unique(r.todo)
        BY <1>3, <1>4, <2>2
      <3>. QED
        BY <1>1, <1>3, <2>2, <2>3, <2>4, <3>1 DEF PanelOK
    <2>. QED
      BY <1>1, <1>4, <2>3, <2>5, PanelStep
  <1>5. ASSUME UNCHANGED invites, to \notin p.sent \cup p.skipped,
               to \in p.active,
               panel' = [panel EXCEPT ![o].todo = rest,
                                      ![o].skipped = @ \cup {to}]
        PROVE  BatchInv'
    <2> DEFINE skip == p.skipped \cup {to}
               r == [p EXCEPT !.todo = rest, !.skipped = skip]
    <2>1. panel' = [panel EXCEPT ![o] = r]
      BY <1>1, <1>5
    <2>2. skip \subseteq Addresses
      BY <1>1, <1>2, PanelFields
    <2>3. /\ r \in Panel /\ r.at = "issue" /\ r.todo = rest
          /\ r.terms = p.terms /\ r.active = p.active
          /\ r.sent = p.sent /\ r.skipped = skip /\ r.asked = p.asked
      <3> HIDE DEF rest, skip
      <3>. QED
        BY <1>1, <1>2, <2>2 DEF Panel
    <2> HIDE DEF p, to, rest, r, skip
    <2>4. /\ panel' \in [Operators -> Panel] /\ panel'[o] = r
          /\ \A q \in Operators \ {o} : panel'[q] = panel[q]
      BY <1>1, <2>1, <2>3
    <2>5. \A x \in p.active \cup p.sent \cup p.skipped : HasLink(x)'
      BY <1>3, <1>5 DEF HasLink
    <2>6. PanelOK(o)'
      <3>1. /\ r.asked = r.sent \cup r.skipped \cup Unique(r.todo)
            /\ r.sent \cap r.skipped = {}
            /\ r.sent \cup r.skipped \subseteq
                   p.active \cup p.sent \cup p.skipped
        BY <1>3, <1>5, <2>3 DEF skip
      <3>. QED
        BY <1>1, <1>3, <2>3, <2>4, <2>5, <3>1 DEF PanelOK
    <2>. QED
      BY <1>1, <1>5, <2>4, <2>6, PanelStep
  <1>6. ASSUME UNCHANGED invites, panel' = [panel EXCEPT ![o].at = "error"]
        PROVE  BatchInv'
    <2> DEFINE r == [p EXCEPT !.at = "error"]
    <2>1. panel' = [panel EXCEPT ![o] = r]
      BY <1>1, <1>6
    <2>2. /\ r \in Panel /\ r.at = "error"
          /\ r.sent = p.sent /\ r.skipped = p.skipped
      BY <1>1 DEF Panel
    <2> HIDE DEF p, to, rest, r
    <2>3. /\ panel' \in [Operators -> Panel] /\ panel'[o] = r
          /\ \A q \in Operators \ {o} : panel'[q] = panel[q]
      BY <1>1, <2>1, <2>2
    <2>4. \A x \in p.sent \cup p.skipped : HasLink(x)'
      BY <1>3, <1>6 DEF HasLink
    <2>5. PanelOK(o)'
      BY <1>3, <2>2, <2>3, <2>4 DEF PanelOK
    <2>. QED
      BY <1>1, <1>6, <2>3, <2>5, PanelStep
  <1>7. ASSUME to \notin p.sent \cup p.skipped, ~Issued(to, p.terms),
               invites' = invites \cup
                   {[to |-> to, terms |-> p.terms, redeemed |-> FALSE]},
               panel' = [panel EXCEPT ![o].todo = rest,
                                      ![o].sent = @ \cup {to}]
        PROVE  BatchInv'
    <2> DEFINE out == p.sent \cup {to}
               link == [to |-> to, terms |-> p.terms, redeemed |-> FALSE]
               r == [p EXCEPT !.todo = rest, !.sent = out]
    <2>1. panel' = [panel EXCEPT ![o] = r]
      BY <1>1, <1>7
    <2>2. out \subseteq Addresses
      BY <1>1, <1>2, PanelFields
    <2>3. /\ r \in Panel /\ r.at = "issue" /\ r.todo = rest
          /\ r.terms = p.terms /\ r.active = p.active
          /\ r.sent = out /\ r.skipped = p.skipped /\ r.asked = p.asked
      <3> HIDE DEF rest, out
      <3>. QED
        BY <1>1, <1>2, <2>2 DEF Panel
    <2>4. /\ link \in Link /\ link.to = to /\ link.terms = p.terms
      <3> HIDE DEF p, to
      <3>. QED
        BY <1>1, <1>2 DEF Link
    <2>5. invites' = invites \cup {link}
      BY <1>7
    <2> HIDE DEF p, to, rest, r, link, out
    <2>6. /\ panel' \in [Operators -> Panel] /\ panel'[o] = r
          /\ \A q \in Operators \ {o} : panel'[q] = panel[q]
      BY <1>1, <2>1, <2>3
    <2>7. /\ \A x \in {to} : HasLink(x)'
          /\ \A x \in Addresses : HasLink(x) => HasLink(x)'
      BY <2>4, <2>5 DEF HasLink
    <2>8. \A x \in p.active \cup p.sent \cup p.skipped : HasLink(x)'
      BY <1>3, <2>5 DEF HasLink
    <2>9. PanelOK(o)'
      <3>1. /\ r.asked = r.sent \cup r.skipped \cup Unique(r.todo)
            /\ r.sent \cap r.skipped = {}
            /\ r.sent \cup r.skipped \subseteq
                   p.sent \cup p.skipped \cup {to}
        BY <1>3, <1>7, <2>3 DEF out
      <3>. QED
        BY <1>1, <1>3, <2>3, <2>6, <2>7, <2>8, <3>1 DEF PanelOK
    <2>10. \A q \in Operators : PanelOK(q)'
      BY <2>6, <2>7, <2>9, PanelStands
    <2>11. LinkOnce'
      BY <1>7, <2>4, <2>5 DEF BatchInv, LinkOnce, Issued
    <2>12. UsedAreSpent'
      BY <1>1, <2>5 DEF BatchInv, UsedAreSpent
    <2>. QED
      BY <1>1, <2>4, <2>5, <2>6, <2>10, <2>11, <2>12 DEF BatchInv
  <1>. QED
    BY <1>4, <1>5, <1>6, <1>7 DEF IssueNext, WithRow

\* A link is spent: its row stays, and stays the only one of its link.
LEMMA RedeemStep ==
    ASSUME BatchInv, NEW i \in invites, Redeem(i)
    PROVE  BatchInv'
  <1> DEFINE spent == [i EXCEPT !.redeemed = TRUE]
  <1>1. /\ invites \subseteq Link /\ panel' = panel /\ ~i.redeemed
        /\ invites' = (invites \ {i}) \cup {spent}
        /\ used' = used \cup {<<i.to, i.terms>>}
    BY DEF BatchInv, Redeem
  <1>2. /\ spent \in Link /\ spent.to = i.to /\ spent.terms = i.terms
        /\ spent.redeemed
    BY <1>1 DEF Link
  <1> HIDE DEF spent
  <1>3. \A x \in Addresses : HasLink(x) => HasLink(x)'
    BY <1>1, <1>2 DEF HasLink
  <1>4. \A q \in Operators : PanelOK(q)'
    BY <1>1, <1>3, PanelStands
  <1>5. LinkOnce'
    <2> SUFFICES ASSUME NEW k \in invites', NEW l \in invites',
                        k.to = l.to, k.terms = l.terms
                 PROVE  k = l
      BY DEF LinkOnce
    <2>1. ASSUME NEW m \in invites \ {i}
          PROVE  ~(m.to = spent.to /\ m.terms = spent.terms)
      BY <1>2 DEF BatchInv, LinkOnce
    <2>. QED
      BY <1>1, <2>1 DEF BatchInv, LinkOnce
  <1>6. UsedAreSpent'
    <2> SUFFICES ASSUME NEW u \in used'
                 PROVE  \E k \in invites' : u = <<k.to, k.terms>> /\ k.redeemed
      BY DEF UsedAreSpent
    <2>1. CASE u = <<i.to, i.terms>>
      BY <1>1, <1>2, <2>1
    <2>2. CASE u \in used
      <3>1. PICK k \in invites : u = <<k.to, k.terms>> /\ k.redeemed
        BY <2>2 DEF BatchInv, UsedAreSpent
      <3>. QED
        BY <1>1, <3>1
    <2>. QED
      BY <1>1, <2>1, <2>2
  <1>7. invites' \subseteq Link
    BY <1>1, <1>2
  <1>. QED
    BY <1>1, <1>4, <1>5, <1>6, <1>7 DEF BatchInv

LEMMA BatchInit == InvitesInit => BatchInv
  <1> SUFFICES ASSUME InvitesInit PROVE BatchInv
    OBVIOUS
  <1>1. Quiet \in Panel
    BY DEF Quiet, Panel
  <1>2. /\ Quiet.at = "typing" /\ Quiet.sent = {} /\ Quiet.skipped = {}
    BY DEF Quiet
  <1>3. panel \in [Operators -> Panel] /\ \A o \in Operators : panel[o] = Quiet
    BY <1>1 DEF InvitesInit
  <1>4. invites = {} /\ used = {}
    BY DEF InvitesInit
  <1> HIDE DEF Quiet
  <1>. QED
    BY <1>1, <1>2, <1>3, <1>4 DEF BatchInv, PanelOK, LinkOnce, UsedAreSpent

LEMMA BatchStep == BatchInv /\ [InvitesNext]_inviteVars => BatchInv'
  <1> SUFFICES ASSUME BatchInv, [InvitesNext]_inviteVars PROVE BatchInv'
    OBVIOUS
  <1>1. CASE UNCHANGED <<invites, used, panel>>
    <2>1. \A x \in Addresses : HasLink(x) => HasLink(x)'
      BY <1>1 DEF HasLink
    <2>2. \A q \in Operators : PanelOK(q)'
      BY <1>1, <2>1, PanelStands
    <2>. QED
      BY <1>1, <2>2 DEF BatchInv, LinkOnce, UsedAreSpent
  <1>2. ASSUME NEW terms \in Dated, DateGoesBy(terms) PROVE BatchInv'
    BY <1>1, <1>2 DEF DateGoesBy
  <1>. QED
    BY <1>1, <1>2, AskStep, ReadStep, IssueStep, DoneStep, RedeemStep
    DEF InvitesNext, inviteVars

LEMMA BatchIsSafe == BatchInv => InvitesInv
  <1> SUFFICES ASSUME BatchInv PROVE InvitesInv
    OBVIOUS
  <1>1. ReportIsTrue
    BY DEF BatchInv, PanelOK, ReportIsTrue, HasLink
  <1>2. SpentStaysSpent
    <2> SUFFICES ASSUME NEW i \in invites, <<i.to, i.terms>> \in used
                 PROVE  i.redeemed
      BY DEF SpentStaysSpent
    <2>1. PICK k \in invites : <<i.to, i.terms>> = <<k.to, k.terms>>
                               /\ k.redeemed
      BY DEF BatchInv, UsedAreSpent
    <2>. QED
      BY <2>1 DEF BatchInv, LinkOnce
  <1>. QED
    BY <1>1, <1>2 DEF BatchInv, InvitesInv

\* However many panels send batches for the same addresses at once, and whatever
\* is redeemed or expires meanwhile: a panel's report is true, a link has one
\* row, and a link that was used never opens again.
THEOREM InvitesAreHonest == InvitesSpec => []InvitesInv
  BY BatchInit, BatchStep, BatchIsSafe, PTL DEF InvitesSpec

-----------------------------------------------------------------------------
(* Mail, its log, and the script that sends the failed tickets again *)

Mailed == [of : Mails, status : {"sent", "failed", "disabled"}]

ScriptRun == [at : {"idle", "sending", "stopped", "done", "dead"},
              queue : Seq(Mails), sent : Seq(Mails), failed : Seq(Mails)]

MailTypeOK == /\ mode \in MailModes /\ refusing \in BOOLEAN
              /\ log \in Seq(Mailed) /\ got \in [Mails -> Nat]
              /\ script \in ScriptRun /\ before \in Seq(Mailed)

SentHaveArrived == \A i \in DOMAIN log : log[i].status = "sent" => got[log[i].of] > 0

Without(rows, a) == \A i \in DOMAIN rows : rows[i].status = "sent" => To(rows, i) # a

In(x, s) == \E i \in DOMAIN s : s[i] = x

\* No two of these orders have one address.
Distinct(s) == \A i, k \in DOMAIN s : AddressOf[s[i]] = AddressOf[s[k]] => i = k

\* The queue of a run, against the log it was read from.
QueueOK ==
    /\ Distinct(script.queue)
    /\ \A i \in DOMAIN script.queue :
          \E k \in Unserved(before) : before[k].of = script.queue[i]
    /\ \A k \in Unserved(before) : In(before[k].of, script.queue)
    /\ \A i \in DOMAIN before : before[i].status = "sent" => got[before[i].of] > 0

\* Whom a run has tried: the head of its queue, each once.
TriedOK ==
    /\ Tried <= Len(script.queue) /\ Tried <= Limit
    /\ \A i \in DOMAIN script.sent : \E k \in 1..Tried : script.sent[i] = script.queue[k]
    /\ \A i \in DOMAIN script.failed : \E k \in 1..Tried : script.failed[i] = script.queue[k]
    /\ \A k \in 1..Tried : In(script.queue[k], script.sent) \/ In(script.queue[k], script.failed)
    /\ Distinct(script.sent) /\ Distinct(script.failed)
    /\ \A i \in DOMAIN script.sent, k \in DOMAIN script.failed :
          AddressOf[script.sent[i]] # AddressOf[script.failed[k]]
    /\ \A i \in DOMAIN script.sent : got[script.sent[i]] > 0
    /\ Len(script.failed) <= GiveUpAfter
    /\ script.at = "sending" => Len(script.failed) < GiveUpAfter
    /\ script.at = "done" => Tried = Len(script.queue) \/ Tried >= Limit

MailInv == MailTypeOK /\ LogIsHonest /\ SentHaveArrived /\ QueueOK /\ TriedOK

USE MailModesAssumption, LimitsAssumption

LEMMA RunFields ==
    ASSUME script \in ScriptRun
    PROVE  /\ script.queue \in Seq(Mails) /\ script.sent \in Seq(Mails)
           /\ script.failed \in Seq(Mails)
           /\ script.at \in {"idle", "sending", "stopped", "done", "dead"}
           /\ Len(script.queue) \in Nat /\ Len(script.sent) \in Nat
           /\ Len(script.failed) \in Nat /\ Tried \in Nat
  BY DEF ScriptRun, Tried

\* The newest of some rows: a set of numbers up to n has a greatest one.
LEMMA NewestIsThere ==
    ASSUME NEW n \in Nat, NEW S, S \subseteq 1..n, S # {}
    PROVE  \E m \in S : \A k \in S : k <= m
  <1> DEFINE T == {n - k : k \in S}
             R == {p \in Nat \X Nat : p[1] < p[2]}
  <1>1. T \subseteq Nat /\ T # {}
    <2>1. \A k \in S : n - k \in Nat
      OBVIOUS
    <2>2. PICK k \in S : TRUE
      OBVIOUS
    <2>3. n - k \in T
      BY <2>2
    <2>. QED
      BY <2>1, <2>3
  <1>2. IsWellFoundedOn(R, Nat)
    BY NatLessThanWellFounded DEF OpToRel
  <1>3. PICK t \in T : \A y \in T : ~ (<<y, t>> \in R)
    <2> HIDE DEF T, R
    <2>. QED
      BY <1>1, <1>2, WFMin
  <1>4. PICK m \in S : t = n - m
    OBVIOUS
  <1>5. ASSUME NEW k \in S PROVE k <= m
    <2>1. n - k \in T /\ n - k \in Nat /\ t \in Nat
      BY <1>1
    <2>2. ~ (n - k < t)
      BY <1>3, <2>1
    <2>. QED
      BY <1>4, <2>1, <2>2
  <1>. QED
    BY <1>5

LEMMA MailedFields ==
    ASSUME NEW l \in Seq(Mailed), NEW i \in DOMAIN l
    PROVE  /\ l[i] \in Mailed /\ l[i].of \in Mails
           /\ l[i].status \in {"sent", "failed", "disabled"}
           /\ To(l, i) \in Recipients /\ To(l, i) = AddressOf[l[i].of]
  <1>1. l[i] \in Mailed
    OBVIOUS
  <1>2. l[i].of \in Mails /\ l[i].status \in {"sent", "failed", "disabled"}
    BY <1>1 DEF Mailed
  <1>. QED
    BY <1>1, <1>2, AddressAssumption DEF To

\* An address for which a mail has failed has a ticket in the log, or a newest
\* failure that a run takes up.
LEMMA EveryFailureHasANewest ==
    ASSUME NEW rows \in Seq(Mailed), NEW j \in DOMAIN rows, rows[j].status = "failed",
           Without(rows, To(rows, j))
    PROVE  \E i \in Unserved(rows) : To(rows, i) = To(rows, j)
  <1> DEFINE S == {k \in DOMAIN rows : rows[k].status = "failed" /\ To(rows, k) = To(rows, j)}
  <1>1. S \subseteq 1..Len(rows) /\ S # {} /\ Len(rows) \in Nat
    OBVIOUS
  <1>2. PICK m \in S : \A k \in S : k <= m
    <2> HIDE DEF S
    <2>. QED
      BY <1>1, NewestIsThere
  <1>3. m \in DOMAIN rows /\ rows[m].status = "failed" /\ To(rows, m) = To(rows, j)
    OBVIOUS
  <1>4. \A k \in (m + 1)..Len(rows) :
            rows[k].status = "failed" => To(rows, k) # To(rows, m)
    <2> SUFFICES ASSUME NEW k \in (m + 1)..Len(rows), rows[k].status = "failed",
                        To(rows, k) = To(rows, m)
                 PROVE  FALSE
      OBVIOUS
    <2>1. m \in Nat /\ k \in DOMAIN rows /\ k > m
      BY <1>1, <1>2
    <2>2. k \in S
      BY <1>3, <2>1
    <2>3. k <= m
      BY <1>2, <2>2
    <2>. QED
      BY <2>1, <2>3
  <1>5. To(rows, m) \notin With(rows, "sent")
    BY <1>3 DEF With, Without
  <1>. QED
    BY <1>3, <1>4, <1>5 DEF Unserved, StillWithout, NewestFailure

LEMMA UnservedFields ==
    ASSUME NEW rows \in Seq(Mailed), NEW i \in Unserved(rows)
    PROVE  /\ i \in 1..Len(rows) /\ i \in DOMAIN rows
           /\ rows[i].of \in Mails /\ To(rows, i) = AddressOf[rows[i].of]
           /\ rows[i].status = "failed" /\ Without(rows, To(rows, i))
           /\ \A k \in (i + 1)..Len(rows) :
                 rows[k].status = "failed" => To(rows, k) # To(rows, i)
  <1>1. i \in DOMAIN rows /\ StillWithout(rows, i)
    BY DEF Unserved
  <1>2. rows[i].of \in Mails /\ To(rows, i) = AddressOf[rows[i].of]
    BY <1>1, MailedFields
  <1>. QED
    BY <1>1, <1>2 DEF StillWithout, NewestFailure, With, Without

LEMMA UnservedFinite ==
    ASSUME NEW rows \in Seq(Mailed) PROVE IsFiniteSet(Unserved(rows))
  <1>1. IsFiniteSet(1..Len(rows))
    BY FS_Interval
  <1>2. Unserved(rows) \in SUBSET (1..Len(rows))
    BY DEF Unserved
  <1>. QED
    BY <1>1, <1>2, FS_Subset

\* Newest first, no address twice, nobody missing, nobody who has a ticket.
LEMMA QueueIsRight ==
    ASSUME log \in Seq(Mailed), NEW q \in Queue
    PROVE  /\ q \in Seq(Mails) /\ Distinct(q)
           /\ \A i \in DOMAIN q : \E k \in Unserved(log) : log[k].of = q[i]
           /\ \A k \in Unserved(log) : In(log[k].of, q)
  <1> DEFINE U == Unserved(log)
             n == Cardinality(U)
  <1>1. PICK rows \in NewestFirst(U) : q = [i \in DOMAIN rows |-> log[rows[i]].of]
    BY DEF Queue
  <1>2. n \in Nat /\ IsFiniteSet(U) /\ IsFiniteSet(1..n) /\ Cardinality(1..n) = n
    <2>1. IsFiniteSet(U) /\ n \in Nat
      BY UnservedFinite, FS_CardinalityType
    <2>2. ASSUME NEW a \in Int, NEW b \in Int
          PROVE  IsFiniteSet(a..b) /\ Cardinality(a..b) = IF a > b THEN 0 ELSE b - a + 1
      BY FS_Interval
    <2>3. ASSUME NEW k \in Nat PROVE IsFiniteSet(1..k) /\ Cardinality(1..k) = k
      <3>1. k \in Int /\ 1 \in Int
        OBVIOUS
      <3>2. IsFiniteSet(1..k) /\ Cardinality(1..k) = IF 1 > k THEN 0 ELSE k - 1 + 1
        BY <2>2, <3>1, Zenon
      <3>3. Cardinality(1..k) = k
        BY <3>2
      <3>. QED
        BY <3>2, <3>3, Zenon
    <2>. QED
      BY <2>1, <2>3
  <1>3. /\ rows \in [1..n -> U]
        /\ \A i, k \in 1..n : i < k => rows[i] > rows[k]
    BY <1>1 DEF NewestFirst
  <1>4. \A i \in U : /\ i \in 1..Len(log) /\ i \in Int /\ log[i].of \in Mails
                      /\ To(log, i) = AddressOf[log[i].of] /\ log[i].status = "failed"
                      /\ \A k \in (i + 1)..Len(log) :
                            log[k].status = "failed" => To(log, k) # To(log, i)
    BY UnservedFields
  <1> HIDE DEF n, U
  <1>5. /\ q \in Seq(Mails) /\ DOMAIN q = 1..n
        /\ \A i \in 1..n : rows[i] \in U /\ q[i] = log[rows[i]].of
    BY <1>1, <1>2, <1>3, <1>4
  <1>6. \A i, k \in 1..n : i # k => rows[i] # rows[k]
    <2> SUFFICES ASSUME NEW i \in 1..n, NEW k \in 1..n, i < k PROVE rows[i] # rows[k]
      BY <1>2
    <2>1. rows[i] > rows[k] /\ rows[i] \in 1..Len(log) /\ rows[k] \in 1..Len(log)
      BY <1>3, <1>4
    <2>. QED
      BY <2>1
  <1>7. ASSUME NEW i \in U, NEW k \in U, i # k PROVE To(log, i) # To(log, k)
    <2>1. i \in 1..Len(log) /\ k \in 1..Len(log) /\ Len(log) \in Nat
      BY <1>4
    <2>2. i \in (k + 1)..Len(log) \/ k \in (i + 1)..Len(log)
      BY <1>7, <2>1
    <2>. QED
      BY <1>4, <2>2
  <1>8. Distinct(q)
    <2> SUFFICES ASSUME NEW i \in 1..n, NEW k \in 1..n,
                        AddressOf[q[i]] = AddressOf[q[k]], i # k
                 PROVE  FALSE
      BY <1>5 DEF Distinct
    <2>1. rows[i] \in U /\ rows[k] \in U /\ rows[i] # rows[k]
      BY <1>5, <1>6
    <2>2. /\ To(log, rows[i]) = AddressOf[log[rows[i]].of]
          /\ To(log, rows[k]) = AddressOf[log[rows[k]].of]
      BY <1>4, <2>1, Zenon
    <2>3. q[i] = log[rows[i]].of /\ q[k] = log[rows[k]].of
      BY <1>5, Zenon
    <2>4. To(log, rows[i]) = To(log, rows[k])
      BY <2>2, <2>3, Zenon
    <2>. QED
      BY <1>7, <2>1, <2>4
  <1>9. \A i \in DOMAIN q : \E k \in U : log[k].of = q[i]
    BY <1>5
  <1>10. \A k \in U : \E i \in 1..n : rows[i] = k
    <2>1. rows \in Injection(1..n, U)
      BY <1>3, <1>6 DEF Injection, IsInjective
    <2>2. rows \in Surjection(1..n, U)
      BY <1>2, <2>1, FS_Injection DEF n
    <2>. QED
      BY <2>2 DEF Surjection
  <1>11. \A k \in U : In(log[k].of, q)
    BY <1>5, <1>10 DEF In
  <1>. QED
    BY <1>5, <1>8, <1>9, <1>11 DEF U

\* One attempt: the log and what has arrived stay in step.
LEMMA MailStep ==
    ASSUME MailTypeOK, LogIsHonest, SentHaveArrived, NEW r \in Mails, sendEmail(r)
    PROVE  /\ log' \in Seq(Mailed) /\ got' \in [Mails -> Nat]
           /\ LogIsHonest' /\ SentHaveArrived'
           /\ \A x \in Mails : got[x] > 0 => got'[x] > 0
           /\ Outcome = "sent" => got'[r] > 0
  <1> DEFINE m == [of |-> r, status |-> Outcome]
             Rows(l, x) == {i \in DOMAIN l : l[i] = [of |-> x, status |-> "sent"]}
  <1>1. /\ Outcome \in {"sent", "failed", "disabled"} /\ m \in Mailed
        /\ log \in Seq(Mailed) /\ got \in [Mails -> Nat]
    BY DEF Outcome, Mailed, MailTypeOK
  <1>2. /\ got' = [got EXCEPT ![r] = @ + IF Outcome = "sent" THEN 1 ELSE 0]
        /\ log' = log \/ log' = Append(log, m)
    BY DEF sendEmail
  <1> HIDE DEF m
  <1>3. log' \in Seq(Mailed)
    BY <1>1, <1>2
  <1>9. ASSUME log' = Append(log, m)
        PROVE  /\ DOMAIN log' = DOMAIN log \cup {Len(log) + 1}
               /\ \A i \in DOMAIN log : log'[i] = log[i]
               /\ log'[Len(log) + 1] = m /\ Len(log) + 1 \notin DOMAIN log
    BY <1>1, <1>9
  <1>4. /\ got' \in [Mails -> Nat]
        /\ \A x \in Mails : got'[x] >= got[x] /\ got[x] \in Nat /\ got'[x] \in Nat
        /\ Outcome = "sent" => got'[r] = got[r] + 1
    BY <1>1, <1>2
  <1>5. SentHaveArrived'
    <2>1. CASE log' = log
      <3>1. \A i \in DOMAIN log : log[i].of \in Mails
        BY <1>1, MailedFields
      <3>. QED
        BY <2>1, <3>1, <1>4 DEF SentHaveArrived
    <2>2. CASE log' = Append(log, m)
      <3> SUFFICES ASSUME NEW i \in DOMAIN log', log'[i].status = "sent"
                   PROVE  got'[log'[i].of] > 0
        BY DEF SentHaveArrived
      <3>1. CASE i \in DOMAIN log
        <4>1. log'[i] = log[i] /\ log[i].of \in Mails
          BY <1>1, <1>9, <2>2, <3>1, MailedFields
        <4>. QED
          BY <3>1, <4>1, <1>4 DEF SentHaveArrived
      <3>2. CASE i \notin DOMAIN log
        <4>1. log'[i] = m
          BY <1>9, <2>2, <3>2
        <4>. QED
          BY <4>1, <1>4 DEF m
      <3>. QED
        BY <3>1, <3>2
    <2>. QED
      BY <1>2, <2>1, <2>2
  <1>6. ASSUME NEW x \in Mails PROVE Cardinality(Rows(log', x)) <= got'[x]
    <2>1. IsFiniteSet(Rows(log, x)) /\ Cardinality(Rows(log, x)) \in Nat
      <3>1. Rows(log, x) \in SUBSET (1..Len(log)) /\ Len(log) \in Nat
        BY <1>1
      <3>2. IsFiniteSet(1..Len(log))
        BY <3>1, FS_Interval
      <3> HIDE DEF Rows
      <3>3. IsFiniteSet(Rows(log, x))
        BY <3>1, <3>2, FS_Subset
      <3>. QED
        BY <3>3, FS_CardinalityType
    <2>2. Cardinality(Rows(log, x)) <= got[x]
      BY DEF LogIsHonest
    <2>3. CASE Rows(log', x) = Rows(log, x)
      <3>1. Cardinality(Rows(log', x)) = Cardinality(Rows(log, x))
        BY <2>3
      <3> HIDE DEF Rows
      <3>. QED
        BY <2>1, <2>2, <3>1, <1>4
    <2>4. CASE log' = Append(log, m) /\ m = [of |-> x, status |-> "sent"]
      <3>1. Rows(log', x) = Rows(log, x) \cup {Len(log) + 1}
        BY <2>4, <1>9
      <3>2. Cardinality(Rows(log', x)) <= Cardinality(Rows(log, x)) + 1
        <4>1. \A T : IsFiniteSet(T) => Cardinality(T \cup {Len(log) + 1})
                        = IF Len(log) + 1 \in T THEN Cardinality(T) ELSE Cardinality(T) + 1
          BY FS_AddElement
        <4> HIDE DEF Rows
        <4>2. Cardinality(Rows(log', x))
                 \in {Cardinality(Rows(log, x)), Cardinality(Rows(log, x)) + 1}
          BY <2>1, <3>1, <4>1
        <4>. QED
          BY <2>1, <4>2
      <3>3. x = r /\ Outcome = "sent"
        BY <2>4 DEF m
      <3>4. /\ Cardinality(Rows(log', x)) \in Nat
            /\ got'[x] = got[x] + 1
        <4>1. IsFiniteSet(Rows(log, x) \cup {Len(log) + 1})
          BY <2>1, FS_AddElement
        <4>. QED
          BY <1>4, <3>1, <3>3, <4>1, FS_CardinalityType
      <3> HIDE DEF Rows
      <3>. QED
        BY <2>1, <2>2, <3>2, <3>4, <1>4
    <2>5. CASE log' = Append(log, m) /\ m # [of |-> x, status |-> "sent"]
      <3>1. Rows(log', x) = Rows(log, x)
        BY <2>5, <1>9
      <3>. QED
        BY <3>1, <2>3
    <2>. QED
      BY <1>2, <2>3, <2>4, <2>5
  <1>7. LogIsHonest'
    BY <1>6 DEF LogIsHonest
  <1>8. Outcome = "sent" => got'[r] > 0
    BY <1>4
  <1>. QED
    BY <1>3, <1>4, <1>5, <1>7, <1>8

LEMMA MailInit == MailboxInit => MailInv
  <1> SUFFICES ASSUME MailboxInit PROVE MailInv
    OBVIOUS
  <1>1. /\ log = <<>> /\ before = <<>> /\ got = [r \in Mails |-> 0]
        /\ script.at = "idle" /\ script.queue = <<>> /\ script.sent = <<>>
        /\ script.failed = <<>> /\ mode \in MailModes /\ refusing \in BOOLEAN
        /\ script \in ScriptRun
    BY DEF MailboxInit, NoRun, ScriptRun
  <1>2. LogIsHonest
    <2>1. \A r \in Mails : {i \in DOMAIN log : log[i] = [of |-> r, status |-> "sent"]} = {}
      BY <1>1
    <2>. QED
      BY <1>1, <2>1, FS_EmptySet DEF LogIsHonest
  <1>3. Tried = 0
    BY <1>1 DEF Tried
  <1>. QED
    BY <1>1, <1>2, <1>3
    DEF MailInv, MailTypeOK, SentHaveArrived, QueueOK, TriedOK, Distinct, Unserved

\* What does not touch the run keeps what it knows, for tickets only arrive.
LEMMA RunStands ==
    ASSUME MailInv, UNCHANGED <<script, before>>,
           \A x \in Mails : got[x] > 0 => got'[x] > 0
    PROVE  QueueOK' /\ TriedOK'
  <1>1. script \in ScriptRun /\ before \in Seq(Mailed)
    BY DEF MailInv, MailTypeOK
  <1>2. \A i \in DOMAIN before : before[i].of \in Mails
    BY <1>1, MailedFields
  <1>3. \A i \in DOMAIN script.sent : script.sent[i] \in Mails
    BY <1>1, RunFields
  <1>4. QueueOK'
    BY <1>2 DEF MailInv, QueueOK, In
  <1>5. TriedOK'
    <2>1. /\ script' = script /\ Tried' = Tried /\ TriedOK
          /\ \A k \in 1..Tried : /\ In(script.queue[k], script.sent)' = In(script.queue[k], script.sent)
                                 /\ In(script.queue[k], script.failed)' = In(script.queue[k], script.failed)
      BY DEF MailInv, Tried, In
    <2>2. \A i \in DOMAIN script.sent : got'[script.sent[i]] > 0
      BY <1>3, <2>1 DEF TriedOK
    <2>. QED
      BY <2>1, <2>2 DEF TriedOK, In
  <1>. QED
    BY <1>4, <1>5

LEMMA StartScriptStep == MailInv /\ StartScript => MailInv'
  <1> SUFFICES ASSUME MailInv, StartScript PROVE MailInv'
    OBVIOUS
  <1>1. PICK queue \in Queue : script' = [NoRun EXCEPT !.at = "sending", !.queue = queue]
    BY DEF StartScript
  <1>2. /\ script'.at = "sending" /\ script'.queue = queue
        /\ script'.sent = <<>> /\ script'.failed = <<>>
    BY <1>1 DEF NoRun
  <1>3. /\ before' = log /\ UNCHANGED <<mode, refusing, log, got>>
        /\ log \in Seq(Mailed) /\ MailTypeOK /\ LogIsHonest /\ SentHaveArrived
    BY DEF StartScript, MailInv, MailTypeOK
  <1>4. /\ queue \in Seq(Mails)
        /\ Distinct(queue)
        /\ \A i \in DOMAIN queue : \E k \in Unserved(log) : log[k].of = queue[i]
        /\ \A k \in Unserved(log) : In(log[k].of, queue)
    BY <1>3, QueueIsRight
  <1>5. script' \in ScriptRun
    <2>1. script' = [at |-> "sending", queue |-> queue, sent |-> <<>>, failed |-> <<>>]
      BY <1>1 DEF NoRun
    <2>2. <<>> \in Seq(Mails)
      OBVIOUS
    <2>. QED
      BY <1>4, <2>1, <2>2 DEF ScriptRun
  <1>6. MailTypeOK' /\ LogIsHonest' /\ SentHaveArrived'
    BY <1>3, <1>5 DEF MailTypeOK, LogIsHonest, SentHaveArrived
  <1>8. QueueOK'
    BY <1>2, <1>3, <1>4 DEF QueueOK, SentHaveArrived
  <1>9. Tried' = 0 /\ Len(script'.queue) \in Nat
    BY <1>2, <1>4 DEF Tried
  <1>10. TriedOK'
    BY <1>2, <1>9 DEF TriedOK, Distinct
  <1>. QED
    BY <1>6, <1>8, <1>10 DEF MailInv

\* A run ends, or is killed.
LEMMA EndScriptStep == MailInv /\ (EndScript \/ ScriptDies) => MailInv'
  <1> SUFFICES ASSUME MailInv, EndScript \/ ScriptDies PROVE MailInv'
    OBVIOUS
  <1>1. script \in ScriptRun /\ MailTypeOK
    BY DEF MailInv, MailTypeOK
  <1>2. /\ script'.at \in {"done", "dead"} /\ (script'.at = "done" => EndScript)
        /\ script'.queue = script.queue
        /\ script'.sent = script.sent /\ script'.failed = script.failed
        /\ script' \in ScriptRun /\ Tried' = Tried
        /\ UNCHANGED <<mode, refusing, log, got, before>>
    BY <1>1 DEF EndScript, ScriptDies, ScriptRun, Tried
  <1>3. MailTypeOK' /\ LogIsHonest' /\ SentHaveArrived'
    BY <1>2 DEF MailInv, MailTypeOK, LogIsHonest, SentHaveArrived
  <1>4. QueueOK'
    BY <1>2 DEF MailInv, QueueOK, In
  <1>5. TriedOK'
    BY <1>2 DEF MailInv, TriedOK, EndScript, In
  <1>. QED
    BY <1>3, <1>4, <1>5 DEF MailInv

LEMMA OneMore == \A a, b \in Nat : (a + 1) + b = a + b + 1 /\ a + (b + 1) = a + b + 1
  OBVIOUS

\* The queue and the log it was read from do not change in a run.
LEMMA QueueStands ==
    ASSUME QueueOK, script'.queue = script.queue, before' = before,
           \A i \in DOMAIN before : before[i].of \in Mails,
           \A x \in Mails : got[x] > 0 => got'[x] > 0
    PROVE  QueueOK'
  BY DEF QueueOK, In

\* A sequence of distinct values takes one more that is not in it.
LEMMA AppendFields ==
    ASSUME NEW S, NEW l \in Seq(S), NEW x \in S
    PROVE  /\ Append(l, x) \in Seq(S) /\ Len(Append(l, x)) = Len(l) + 1
           /\ DOMAIN Append(l, x) = DOMAIN l \cup {Len(l) + 1}
           /\ \A i \in DOMAIN l : Append(l, x)[i] = l[i]
           /\ Append(l, x)[Len(l) + 1] = x /\ Len(l) + 1 \notin DOMAIN l
  OBVIOUS

LEMMA InAppended ==
    ASSUME NEW S, NEW l \in Seq(S), NEW x \in S, NEW y
    PROVE  In(y, Append(l, x)) <=> In(y, l) \/ y = x
  BY AppendFields DEF In

LEMMA DistinctAppended ==
    ASSUME NEW S, NEW l \in Seq(S), NEW x \in S, Distinct(l),
           \A i \in DOMAIN l : AddressOf[l[i]] # AddressOf[x]
    PROVE  Distinct(Append(l, x))
  <1> DEFINE m == Append(l, x)
             n == Len(l) + 1
  <1>1. /\ DOMAIN m = DOMAIN l \cup {n} /\ m[n] = x
        /\ \A i \in DOMAIN l : m[i] = l[i]
    BY AppendFields
  <1> HIDE DEF m, n
  <1>2. ASSUME NEW i \in DOMAIN m, NEW k \in DOMAIN m, AddressOf[m[i]] = AddressOf[m[k]]
        PROVE  i = k
    <2>1. CASE i \in DOMAIN l /\ k \in DOMAIN l
      BY <1>1, <1>2, <2>1 DEF Distinct
    <2>2. CASE i \in DOMAIN l /\ k = n
      BY <1>1, <1>2, <2>2
    <2>3. CASE i = n /\ k \in DOMAIN l
      <3>1. m[i] = x /\ m[k] = l[k]
        BY <1>1, <2>3
      <3>2. AddressOf[l[k]] # AddressOf[x]
        BY <2>3
      <3>3. AddressOf[x] = AddressOf[l[k]]
        BY <1>2, <3>1
      <3>. QED
        BY <3>2, <3>3
    <2>4. CASE i = n /\ k = n
      BY <2>4
    <2>. QED
      BY <1>1, <2>1, <2>2, <2>3, <2>4
  <1>. QED
    BY <1>2 DEF m, Distinct

LEMMA SendNextStep == MailInv /\ SendNext => MailInv'
  <1> SUFFICES ASSUME MailInv, SendNext PROVE MailInv'
    OBVIOUS
  <1> DEFINE r == script.queue[Tried + 1]
  <1>1. /\ MailTypeOK /\ script \in ScriptRun /\ LogIsHonest /\ SentHaveArrived
        /\ QueueOK /\ TriedOK
    BY DEF MailInv, MailTypeOK
  <1>2. /\ script.queue \in Seq(Mails) /\ script.sent \in Seq(Mails)
        /\ script.failed \in Seq(Mails) /\ Tried \in Nat
        /\ Len(script.queue) \in Nat /\ Len(script.sent) \in Nat
        /\ Len(script.failed) \in Nat
    BY <1>1, RunFields
  <1>10. /\ Len(script.sent) \in Nat /\ Len(script.failed) \in Nat
         /\ Tried \in Nat /\ Len(script.queue) \in Nat
    BY <1>2
  <1>3. /\ Tried + 1 \in DOMAIN script.queue /\ r \in Mails
        /\ script.at = "sending" /\ Tried < Limit /\ sendEmail(r)
        /\ UNCHANGED <<mode, refusing, before>>
    BY <1>2 DEF SendNext
  <1>4. /\ log' \in Seq(Mailed) /\ got' \in [Mails -> Nat]
        /\ LogIsHonest' /\ SentHaveArrived'
        /\ \A x \in Mails : got[x] > 0 => got'[x] > 0
        /\ Outcome = "sent" => got'[r] > 0
    BY <1>1, <1>3, MailStep
  <1>11. /\ \A i \in DOMAIN script.sent : \E k \in 1..Tried : script.sent[i] = script.queue[k]
         /\ \A i \in DOMAIN script.failed : \E k \in 1..Tried : script.failed[i] = script.queue[k]
         /\ \A k \in 1..Tried : In(script.queue[k], script.sent) \/ In(script.queue[k], script.failed)
         /\ Distinct(script.sent) /\ Distinct(script.failed)
         /\ \A i \in DOMAIN script.sent, k \in DOMAIN script.failed :
               AddressOf[script.sent[i]] # AddressOf[script.failed[k]]
         /\ \A i \in DOMAIN script.sent : got[script.sent[i]] > 0
    BY <1>1 DEF TriedOK
  <1>5. \A k \in 1..Tried : k \in DOMAIN script.queue /\ AddressOf[script.queue[k]] # AddressOf[r]
    BY <1>1, <1>2, <1>3 DEF QueueOK, Distinct
  <1>6. /\ \A k \in DOMAIN script.sent :
              AddressOf[script.sent[k]] # AddressOf[r] /\ script.sent[k] \in Mails
        /\ \A k \in DOMAIN script.failed : AddressOf[script.failed[k]] # AddressOf[r]
    <2>1. ASSUME NEW k \in DOMAIN script.sent
          PROVE  AddressOf[script.sent[k]] # AddressOf[r] /\ script.sent[k] \in Mails
      <3>1. PICK j \in 1..Tried : script.sent[k] = script.queue[j]
        BY <1>11
      <3>. QED
        BY <1>2, <1>5, <3>1
    <2>2. ASSUME NEW k \in DOMAIN script.failed
          PROVE  AddressOf[script.failed[k]] # AddressOf[r]
      <3>1. PICK j \in 1..Tried : script.failed[k] = script.queue[j]
        BY <1>11
      <3>. QED
        BY <1>5, <3>1
    <2>. QED
      BY <2>1, <2>2
  <1>7. \A i \in DOMAIN before : before[i].of \in Mails
    BY <1>1, MailedFields DEF MailTypeOK
  <1> HIDE DEF r
  <1>8. CASE Outcome = "sent"
    <2>1. /\ script'.sent = Append(script.sent, r) /\ script'.queue = script.queue
          /\ script'.failed = script.failed /\ script'.at = "sending"
      BY <1>1, <1>3, <1>8 DEF SendNext, ScriptRun, r
    <2>2. /\ script'.sent \in Seq(Mails)
          /\ Len(script'.sent) = Len(script.sent) + 1
          /\ DOMAIN script'.sent = DOMAIN script.sent \cup {Len(script.sent) + 1}
          /\ \A i \in DOMAIN script.sent : script'.sent[i] = script.sent[i]
          /\ script'.sent[Len(script.sent) + 1] = r
          /\ Len(script.sent) + 1 \notin DOMAIN script.sent
      <3> HIDE DEF r
      <3>1. script.sent \in Seq(Mails) /\ r \in Mails
        BY <1>2, <1>3
      <3>2. /\ Append(script.sent, r) \in Seq(Mails)
            /\ Len(Append(script.sent, r)) = Len(script.sent) + 1
            /\ DOMAIN Append(script.sent, r) = DOMAIN script.sent \cup {Len(script.sent) + 1}
            /\ \A i \in DOMAIN script.sent : Append(script.sent, r)[i] = script.sent[i]
            /\ Append(script.sent, r)[Len(script.sent) + 1] = r
            /\ Len(script.sent) + 1 \notin DOMAIN script.sent
        BY <3>1, AppendFields
      <3>3. script'.sent = Append(script.sent, r)
        BY <2>1
      <3>. QED
        BY <3>2, <3>3
    <2>3. script' \in ScriptRun
      <3>1. script' = [at |-> "sending", queue |-> script.queue,
                       sent |-> script'.sent, failed |-> script.failed]
        BY <1>1, <1>3, <1>8, <2>1 DEF ScriptRun, SendNext, r
      <3>. QED
        BY <1>2, <2>2, <3>1 DEF ScriptRun
    <2>4. /\ Tried' = Tried + 1 /\ 1..Tried' = 1..Tried \cup {Tried + 1}
          /\ Tried' <= Len(script.queue) /\ Tried' <= Limit
      <3>1. Tried' = Len(script'.sent) + Len(script'.failed)
        BY DEF Tried
      <3>2. Tried + 1 <= Len(script.queue) /\ Tried + 1 <= Limit
        BY <1>2, <1>3
      <3>3. \A n \in Nat : 1..(n + 1) = 1..n \cup {n + 1}
        OBVIOUS
      <3>4. Tried' = Tried + 1
        <4>1. Tried = Len(script.sent) + Len(script.failed)
          BY DEF Tried
        <4>2. Len(script'.sent) = Len(script.sent) + 1 /\ Len(script'.failed) = Len(script.failed)
          BY <2>1, <2>2
        <4>3. /\ (Len(script.sent) + 1) + Len(script.failed) = Tried + 1
              /\ Len(script.sent) + (Len(script.failed) + 1) = Tried + 1
          BY <1>10, <4>1, OneMore
        <4>. QED
          BY <3>1, <4>2, <4>3, Zenon
      <3>. QED
        BY <1>10, <3>2, <3>3, <3>4
    <2>5. QueueOK'
      BY <1>1, <1>3, <1>4, <1>7, <2>1, QueueStands
    <2>6. \A i \in DOMAIN script'.sent :
             /\ \E k \in 1..Tried' : script'.sent[i] = script.queue[k]
             /\ got'[script'.sent[i]] > 0
      <3>1. Tried + 1 \in 1..Tried' /\ script.queue[Tried + 1] = r
        BY <1>2, <2>4 DEF r
      <3>2. \A i \in DOMAIN script.sent : /\ \E k \in 1..Tried' : script.sent[i] = script.queue[k]
                                          /\ got'[script.sent[i]] > 0
        BY <1>1, <1>4, <1>6, <2>4 DEF TriedOK
      <3>. QED
        BY <1>4, <1>8, <2>2, <3>1, <3>2
    <2>7. ASSUME NEW k \in 1..Tried'
          PROVE  In(script.queue[k], script'.sent) \/ In(script.queue[k], script.failed)
      <3>1. In(script.queue[k], script'.sent) <=>
                In(script.queue[k], script.sent) \/ script.queue[k] = r
        BY <1>2, <1>3, <2>1, InAppended
      <3>2. k \in 1..Tried \/ script.queue[k] = r
        BY <2>4 DEF r
      <3>. QED
        BY <1>11, <3>1, <3>2
    <2>8. /\ Distinct(script'.sent)
          /\ \A i \in DOMAIN script'.sent, k \in DOMAIN script.failed :
                AddressOf[script'.sent[i]] # AddressOf[script.failed[k]]
      <3>1. Distinct(script'.sent)
        <4>1. \A i \in DOMAIN script.sent : AddressOf[script.sent[i]] # AddressOf[r]
          BY <1>6
        <4>2. script.sent \in Seq(Mails) /\ r \in Mails /\ Distinct(script.sent)
          BY <1>2, <1>3, <1>11
        <4>3. Distinct(Append(script.sent, r))
          BY <4>1, <4>2, DistinctAppended
        <4>. QED
          BY <2>1, <4>3
      <3>2. ASSUME NEW i \in DOMAIN script'.sent, NEW k \in DOMAIN script.failed
            PROVE  AddressOf[script'.sent[i]] # AddressOf[script.failed[k]]
        <4>1. CASE i \in DOMAIN script.sent
          BY <1>11, <2>2, <4>1
        <4>2. CASE i = Len(script.sent) + 1
          BY <1>6, <2>2, <4>2
        <4>. QED
          BY <2>2, <4>1, <4>2
      <3>. QED
        BY <3>1, <3>2
    <2>9. \A i \in DOMAIN script.failed : \E k \in 1..Tried' : script.failed[i] = script.queue[k]
      BY <1>1, <2>4 DEF TriedOK
    <2>10. TriedOK'
      <3>1. /\ Len(script.failed) <= GiveUpAfter /\ Len(script.failed) < GiveUpAfter
            /\ Distinct(script.failed)
        BY <1>1, <1>2, <1>3 DEF TriedOK
      <3>2. \A k \in 1..Tried' : In(script'.queue[k], script'.sent)
                                   \/ In(script'.queue[k], script'.failed)
        BY <2>1, <2>7
      <3>3. /\ script'.queue = script.queue /\ script'.failed = script.failed
            /\ script'.at = "sending"
        BY <2>1
      <3>4. Tried' <= Len(script'.queue) /\ Tried' <= Limit
        BY <2>4, <3>3
      <3>5. \A i \in DOMAIN script'.sent :
               /\ \E k \in 1..Tried' : script'.sent[i] = script'.queue[k]
               /\ got'[script'.sent[i]] > 0
        BY <2>6, <3>3
      <3>6. \A i \in DOMAIN script'.failed :
                \E k \in 1..Tried' : script'.failed[i] = script'.queue[k]
        BY <2>9, <3>3
      <3>7. /\ Distinct(script'.sent) /\ Distinct(script'.failed)
            /\ \A i \in DOMAIN script'.sent, k \in DOMAIN script'.failed :
                  AddressOf[script'.sent[i]] # AddressOf[script'.failed[k]]
        BY <2>8, <3>1, <3>3
      <3>8. /\ Len(script'.failed) <= GiveUpAfter /\ Len(script'.failed) < GiveUpAfter
            /\ script'.at # "done"
        BY <3>1, <3>3
      <3>. QED
        BY <3>2, <3>4, <3>5, <3>6, <3>7, <3>8, Zenon DEF TriedOK
    <2>. QED
      BY <1>1, <1>3, <1>4, <2>3, <2>5, <2>10 DEF MailInv, MailTypeOK
  <1>9. CASE Outcome # "sent"
    <2>1. /\ script'.failed = Append(script.failed, r) /\ script'.queue = script.queue
          /\ script'.sent = script.sent
          /\ script'.at = IF Len(script.failed) + 1 >= GiveUpAfter THEN "stopped" ELSE "sending"
      BY <1>1, <1>3, <1>9 DEF SendNext, ScriptRun, r
    <2>2. /\ script'.failed \in Seq(Mails)
          /\ Len(script'.failed) = Len(script.failed) + 1
          /\ DOMAIN script'.failed = DOMAIN script.failed \cup {Len(script.failed) + 1}
          /\ \A i \in DOMAIN script.failed : script'.failed[i] = script.failed[i]
          /\ script'.failed[Len(script.failed) + 1] = r
          /\ Len(script.failed) + 1 \notin DOMAIN script.failed
      <3> HIDE DEF r
      <3>1. script.failed \in Seq(Mails) /\ r \in Mails
        BY <1>2, <1>3
      <3>2. /\ Append(script.failed, r) \in Seq(Mails)
            /\ Len(Append(script.failed, r)) = Len(script.failed) + 1
            /\ DOMAIN Append(script.failed, r) = DOMAIN script.failed \cup {Len(script.failed) + 1}
            /\ \A i \in DOMAIN script.failed : Append(script.failed, r)[i] = script.failed[i]
            /\ Append(script.failed, r)[Len(script.failed) + 1] = r
            /\ Len(script.failed) + 1 \notin DOMAIN script.failed
        BY <3>1, AppendFields
      <3>3. script'.failed = Append(script.failed, r)
        BY <2>1
      <3>. QED
        BY <3>2, <3>3
    <2>3. script' \in ScriptRun
      <3>1. /\ script' = [at |-> script'.at, queue |-> script.queue,
                          sent |-> script.sent, failed |-> script'.failed]
            /\ script'.at \in {"idle", "sending", "stopped", "done", "dead"}
        BY <1>1, <1>3, <1>9, <2>1 DEF ScriptRun, SendNext, r
      <3>. QED
        BY <1>2, <2>2, <3>1 DEF ScriptRun
    <2>4. /\ Tried' = Tried + 1 /\ 1..Tried' = 1..Tried \cup {Tried + 1}
          /\ Tried' <= Len(script.queue) /\ Tried' <= Limit
      <3>1. Tried' = Len(script'.sent) + Len(script'.failed)
        BY DEF Tried
      <3>2. Tried + 1 <= Len(script.queue) /\ Tried + 1 <= Limit
        BY <1>2, <1>3
      <3>3. \A n \in Nat : 1..(n + 1) = 1..n \cup {n + 1}
        OBVIOUS
      <3>4. Tried' = Tried + 1
        <4>1. Tried = Len(script.sent) + Len(script.failed)
          BY DEF Tried
        <4>2. Len(script'.failed) = Len(script.failed) + 1 /\ Len(script'.sent) = Len(script.sent)
          BY <2>1, <2>2
        <4>3. /\ (Len(script.sent) + 1) + Len(script.failed) = Tried + 1
              /\ Len(script.sent) + (Len(script.failed) + 1) = Tried + 1
          BY <1>10, <4>1, OneMore
        <4>. QED
          BY <3>1, <4>2, <4>3, Zenon
      <3>. QED
        BY <1>10, <3>2, <3>3, <3>4
    <2>5. QueueOK'
      BY <1>1, <1>3, <1>4, <1>7, <2>1, QueueStands
    <2>6. ASSUME NEW i \in DOMAIN script'.failed
          PROVE  \E k \in 1..Tried' : script'.failed[i] = script.queue[k]
      <3>1. CASE i \in DOMAIN script.failed
        BY <1>11, <2>2, <2>4, <3>1
      <3>2. CASE i = Len(script.failed) + 1
        <4>1. script'.failed[i] = script.queue[Tried + 1] /\ Tried + 1 \in 1..Tried'
          BY <2>2, <2>4, <3>2 DEF r
        <4>. QED
          BY <4>1
      <3>. QED
        BY <2>2, <3>1, <3>2
    <2>7. ASSUME NEW k \in 1..Tried'
          PROVE  In(script.queue[k], script'.failed) \/ In(script.queue[k], script.sent)
      <3>1. In(script.queue[k], script'.failed) <=>
                In(script.queue[k], script.failed) \/ script.queue[k] = r
        BY <1>2, <1>3, <2>1, InAppended
      <3>2. k \in 1..Tried \/ script.queue[k] = r
        BY <2>4 DEF r
      <3>. QED
        BY <1>11, <3>1, <3>2
    <2>8. /\ Distinct(script'.failed)
          /\ \A i \in DOMAIN script.sent, k \in DOMAIN script'.failed :
                AddressOf[script.sent[i]] # AddressOf[script'.failed[k]]
      <3>1. Distinct(script'.failed)
        <4>1. \A i \in DOMAIN script.failed : AddressOf[script.failed[i]] # AddressOf[r]
          BY <1>6
        <4>2. script.failed \in Seq(Mails) /\ r \in Mails /\ Distinct(script.failed)
          BY <1>2, <1>3, <1>11
        <4>3. Distinct(Append(script.failed, r))
          BY <4>1, <4>2, DistinctAppended
        <4>. QED
          BY <2>1, <4>3
      <3>2. ASSUME NEW i \in DOMAIN script.sent, NEW k \in DOMAIN script'.failed
            PROVE  AddressOf[script.sent[i]] # AddressOf[script'.failed[k]]
        <4>1. CASE k \in DOMAIN script.failed
          BY <1>11, <2>2, <4>1
        <4>2. CASE k = Len(script.failed) + 1
          BY <1>6, <2>2, <4>2
        <4>. QED
          BY <2>2, <4>1, <4>2
      <3>. QED
        BY <3>1, <3>2
    <2>9. \A i \in DOMAIN script.sent : /\ \E k \in 1..Tried' : script.sent[i] = script.queue[k]
                                        /\ got'[script.sent[i]] > 0
      BY <1>1, <1>4, <1>6, <2>4 DEF TriedOK
    <2>10. /\ Len(script'.failed) <= GiveUpAfter /\ script'.at # "done"
           /\ script'.at = "sending" => Len(script'.failed) < GiveUpAfter
      BY <1>1, <1>2, <1>3, <2>1, <2>2 DEF TriedOK
    <2>11. TriedOK'
      <3>1. Distinct(script'.sent) /\ Distinct(script'.failed)
        BY <1>1, <2>1, <2>8 DEF TriedOK
      <3>2. \A k \in 1..Tried' : In(script'.queue[k], script'.sent)
                                   \/ In(script'.queue[k], script'.failed)
        BY <2>1, <2>7
      <3>3. Tried' <= Len(script'.queue) /\ Tried' <= Limit
        BY <2>1, <2>4
      <3>4. /\ \A i \in DOMAIN script'.sent : \E k \in 1..Tried' : script'.sent[i] = script'.queue[k]
            /\ \A i \in DOMAIN script'.sent : got'[script'.sent[i]] > 0
        BY <2>1, <2>9
      <3>5. \A i \in DOMAIN script'.failed :
                \E k \in 1..Tried' : script'.failed[i] = script'.queue[k]
        BY <2>1, <2>6
      <3>6. \A i \in DOMAIN script'.sent, k \in DOMAIN script'.failed :
                AddressOf[script'.sent[i]] # AddressOf[script'.failed[k]]
        BY <2>1, <2>8
      <3>7. /\ script'.at = "sending" => Len(script'.failed) < GiveUpAfter
            /\ script'.at = "done" => Tried' = Len(script'.queue) \/ Tried' >= Limit
        BY <2>10
      <3>. QED
        BY <2>10, <3>1, <3>2, <3>3, <3>4, <3>5, <3>6, <3>7, Zenon DEF TriedOK
    <2>. QED
      BY <1>1, <1>3, <1>4, <2>3, <2>5, <2>11 DEF MailInv, MailTypeOK
  <1>. QED
    BY <1>8, <1>9

LEMMA MailboxStep == MailInv /\ [MailboxNext]_outboxVars => MailInv'
  <1> SUFFICES ASSUME MailInv, [MailboxNext]_outboxVars PROVE MailInv'
    OBVIOUS
  <1>1. ASSUME NEW r \in Mails, sendEmail(r), UNCHANGED <<mode, refusing, script, before>>
        PROVE  MailInv'
    <2>1. MailTypeOK /\ LogIsHonest /\ SentHaveArrived
      BY DEF MailInv
    <2>2. /\ log' \in Seq(Mailed) /\ got' \in [Mails -> Nat]
          /\ LogIsHonest' /\ SentHaveArrived'
          /\ \A x \in Mails : got[x] > 0 => got'[x] > 0
      BY <1>1, <2>1, MailStep
    <2>3. QueueOK' /\ TriedOK'
      BY <1>1, <2>2, RunStands
    <2>. QED
      BY <1>1, <2>1, <2>2, <2>3 DEF MailInv, MailTypeOK
  <1>2. ASSUME NEW r \in Mails, Registered(r) PROVE MailInv'
    BY <1>1, <1>2 DEF Registered
  <1>3. ASSUME NEW i \in 1..MaxMails, resendEmail(i) PROVE MailInv'
    <2>1. i \in DOMAIN log /\ log \in Seq(Mailed)
      BY <1>3 DEF resendEmail, MailInv, MailTypeOK
    <2>2. log[i].of \in Mails
      BY <2>1, MailedFields
    <2>. QED
      BY <1>1, <1>3, <2>2 DEF resendEmail
  <1>4. CASE UNCHANGED <<log, got, script, before, mode>> /\ refusing' \in BOOLEAN
    <2>1. QueueOK' /\ TriedOK'
      BY <1>4, RunStands
    <2>. QED
      BY <1>4, <2>1 DEF MailInv, MailTypeOK, LogIsHonest, SentHaveArrived
  <1>5. CASE Outage
    BY <1>4, <1>5 DEF Outage, MailInv, MailTypeOK
  <1>6. CASE UNCHANGED outboxVars
    BY <1>4, <1>6 DEF outboxVars, MailInv, MailTypeOK
  <1>. QED
    BY <1>2, <1>3, <1>5, <1>6, StartScriptStep, SendNextStep, EndScriptStep
    DEF MailboxNext

LEMMA JoinedFields ==
    ASSUME NEW S, NEW l \in Seq(S), NEW m \in Seq(S)
    PROVE  /\ l \o m \in Seq(S) /\ Len(l \o m) = Len(l) + Len(m)
           /\ DOMAIN (l \o m) = 1..(Len(l) + Len(m))
           /\ \A i \in 1..(Len(l) + Len(m)) : i <= Len(l) =>
                 i \in DOMAIN l /\ (l \o m)[i] = l[i]
           /\ \A i \in 1..(Len(l) + Len(m)) : i > Len(l) =>
                 i - Len(l) \in DOMAIN m /\ (l \o m)[i] = m[i - Len(l)]
  <1>1. /\ l \o m \in Seq(S) /\ Len(l \o m) = Len(l) + Len(m)
        /\ Len(l) \in Nat /\ Len(m) \in Nat
    OBVIOUS
  <1>2. DOMAIN (l \o m) = 1..(Len(l) + Len(m))
    BY <1>1
  <1>3. ASSUME NEW i \in 1..(Len(l) + Len(m)), i <= Len(l)
        PROVE  i \in DOMAIN l /\ (l \o m)[i] = l[i]
    BY <1>1, <1>3
  <1>4. ASSUME NEW i \in 1..(Len(l) + Len(m)), i > Len(l)
        PROVE  i - Len(l) \in DOMAIN m /\ (l \o m)[i] = m[i - Len(l)]
    BY <1>1, <1>4
  <1>. QED
    BY <1>1, <1>2, <1>3, <1>4

LEMMA MailIsSafe == MailInv => MailboxInv
  <1> SUFFICES ASSUME MailInv PROVE MailboxInv
    OBVIOUS
  <1>1. /\ MailTypeOK /\ script \in ScriptRun /\ LogIsHonest /\ QueueOK /\ TriedOK
    BY DEF MailInv, MailTypeOK
  <1>2. /\ script.queue \in Seq(Mails) /\ script.sent \in Seq(Mails)
        /\ script.failed \in Seq(Mails) /\ Tried \in Nat
    BY <1>1, RunFields
  <1>3. /\ Len(script.queue) \in Nat /\ Len(script.sent) \in Nat
        /\ Len(script.failed) \in Nat /\ Tried = Len(script.sent) + Len(script.failed)
        /\ Tried \in Nat
    BY <1>1, RunFields DEF Tried
  <1>4. /\ DOMAIN Tries = 1..Tried
        /\ \A i \in 1..Tried : i <= Len(script.sent) =>
              i \in DOMAIN script.sent /\ Tries[i] = script.sent[i]
        /\ \A i \in 1..Tried : i > Len(script.sent) =>
              /\ i - Len(script.sent) \in DOMAIN script.failed
              /\ Tries[i] = script.failed[i - Len(script.sent)]
        /\ Len(Tries) = Tried
    <2>1. Tried = Len(script.sent) + Len(script.failed)
      BY <1>3
    <2>2. /\ Len(Tries) = Len(script.sent) + Len(script.failed)
          /\ DOMAIN Tries = 1..(Len(script.sent) + Len(script.failed))
          /\ \A i \in 1..(Len(script.sent) + Len(script.failed)) :
                i <= Len(script.sent) => i \in DOMAIN script.sent /\ Tries[i] = script.sent[i]
          /\ \A i \in 1..(Len(script.sent) + Len(script.failed)) : i > Len(script.sent) =>
                /\ i - Len(script.sent) \in DOMAIN script.failed
                /\ Tries[i] = script.failed[i - Len(script.sent)]
      <3> DEFINE l == script.sent
                 m == script.failed
      <3>1. l \in Seq(Mails) /\ m \in Seq(Mails) /\ Tries = l \o m
        BY <1>2 DEF Tries
      <3> HIDE DEF l, m
      <3>2. /\ Len(Tries) = Len(l) + Len(m) /\ DOMAIN Tries = 1..(Len(l) + Len(m))
            /\ \A i \in 1..(Len(l) + Len(m)) : i <= Len(l) =>
                  i \in DOMAIN l /\ Tries[i] = l[i]
            /\ \A i \in 1..(Len(l) + Len(m)) : i > Len(l) =>
                  i - Len(l) \in DOMAIN m /\ Tries[i] = m[i - Len(l)]
        BY <3>1, JoinedFields
      <3>. QED
        BY <3>2 DEF l, m
    <2>. QED
      BY <2>1, <2>2, Zenon
  <1>5. OneTryEach
    <2>1. ASSUME NEW i \in DOMAIN Tries, NEW k \in DOMAIN Tries,
                 AddressOf[Tries[i]] = AddressOf[Tries[k]]
          PROVE  i = k
      <3>1. i \in Int /\ k \in Int
        BY <1>4
      <3>0. Distinct(script.sent) /\ Distinct(script.failed)
        BY <1>1 DEF TriedOK
      <3>2. CASE i <= Len(script.sent) /\ k <= Len(script.sent)
        BY <1>4, <2>1, <3>0, <3>2 DEF Distinct
      <3>3. CASE i > Len(script.sent) /\ k > Len(script.sent)
        <4> DEFINE f == i - Len(script.sent)
                   g == k - Len(script.sent)
        <4>2. /\ f \in DOMAIN script.failed /\ Tries[i] = script.failed[f]
              /\ g \in DOMAIN script.failed /\ Tries[k] = script.failed[g]
          BY <1>4, <3>3
        <4> HIDE DEF f, g
        <4>3. AddressOf[script.failed[f]] = AddressOf[script.failed[g]]
          BY <2>1, <4>2
        <4>4. f = g
          BY <3>0, <4>2, <4>3 DEF Distinct
        <4>1. i - Len(script.sent) = k - Len(script.sent)
          BY <4>4 DEF f, g
        <4>. QED
          BY <1>3, <3>1, <4>1
      <3>4. CASE i <= Len(script.sent) /\ k > Len(script.sent)
        BY <1>1, <1>4, <2>1, <3>4 DEF TriedOK
      <3>5. CASE i > Len(script.sent) /\ k <= Len(script.sent)
        <4>1. Tries[i] = script.failed[i - Len(script.sent)] /\ Tries[k] = script.sent[k]
              /\ i - Len(script.sent) \in DOMAIN script.failed /\ k \in DOMAIN script.sent
          BY <1>4, <3>5
        <4>. QED
          BY <1>1, <2>1, <4>1 DEF TriedOK
      <3>. QED
        BY <1>3, <3>1, <3>2, <3>3, <3>4, <3>5
    <2>2. ASSUME NEW i \in DOMAIN Tries
          PROVE  \E k \in DOMAIN script.queue : Tries[i] = script.queue[k]
      <3>1. 1..Tried \subseteq DOMAIN script.queue
        <4>1. Tried <= Len(script.queue) /\ DOMAIN script.queue = 1..Len(script.queue)
          BY <1>1, <1>2 DEF TriedOK
        <4>2. Tried \in Nat /\ Len(script.queue) \in Nat
          BY <1>3
        <4>. QED
          BY <4>1, <4>2
      <3>2. i \in Int
        BY <1>4
      <3>3. CASE i <= Len(script.sent)
        <4>1. i \in DOMAIN script.sent /\ Tries[i] = script.sent[i]
          BY <1>4, <3>3
        <4>2. PICK k \in 1..Tried : script.sent[i] = script.queue[k]
          BY <1>1, <4>1 DEF TriedOK
        <4>. QED
          BY <3>1, <4>1, <4>2
      <3>4. CASE i > Len(script.sent)
        <4> DEFINE f == i - Len(script.sent)
        <4>1. f \in DOMAIN script.failed /\ Tries[i] = script.failed[f]
          BY <1>4, <3>4
        <4> HIDE DEF f
        <4>2. PICK k \in 1..Tried : script.failed[f] = script.queue[k]
          BY <1>1, <4>1 DEF TriedOK
        <4>. QED
          BY <3>1, <4>1, <4>2
      <3>. QED
        BY <1>3, <3>2, <3>3, <3>4
    <2>3. ASSUME NEW i \in DOMAIN Tries
          PROVE  \E k \in Unserved(before) : before[k].of = Tries[i]
      BY <1>1, <2>2, <2>3 DEF QueueOK
    <2>. QED
      BY <1>1, <1>4, <2>1, <2>3 DEF OneTryEach, TriedOK
  <1>6. NoAddressLeftBehind
    <2> SUFFICES ASSUME script.at = "done", script.failed = <<>>,
                        Len(script.queue) <= Limit
                 PROVE  /\ \A j \in DOMAIN before :
                              before[j].status = "failed" => Served(To(before, j))
                        /\ \A k \in Unserved(before) : got[before[k].of] > 0
      BY DEF NoAddressLeftBehind
    <2>0. before \in Seq(Mailed)
      BY <1>1 DEF MailTypeOK
    <2>1. Tried = Len(script.queue)
      BY <1>1, <1>3, <1>2 DEF TriedOK
    <2>2. ASSUME NEW u \in Unserved(before) PROVE got[before[u].of] > 0
      <3>1. PICK k \in DOMAIN script.queue : script.queue[k] = before[u].of
        BY <1>1 DEF QueueOK, In
      <3>2. k \in 1..Tried
        BY <1>2, <2>1
      <3>3. ~ In(script.queue[k], script.failed)
        BY DEF In
      <3>4. In(script.queue[k], script.sent)
        BY <1>1, <3>2, <3>3 DEF TriedOK
      <3>. QED
        BY <1>1, <3>1, <3>4 DEF TriedOK, In
    <2>3. ASSUME NEW j \in DOMAIN before, before[j].status = "failed"
          PROVE  Served(To(before, j))
      <3>1. CASE Without(before, To(before, j))
        <4>1. PICK u \in Unserved(before) : To(before, u) = To(before, j)
          BY <2>0, <2>3, <3>1, EveryFailureHasANewest
        <4>2. before[u].of \in Mails /\ AddressOf[before[u].of] = To(before, j)
          BY <2>0, <4>1, UnservedFields
        <4>3. got[before[u].of] > 0
          BY <2>2
        <4>. QED
          BY <4>2, <4>3 DEF Served
      <3>2. CASE ~ Without(before, To(before, j))
        <4>1. PICK i \in DOMAIN before :
                  before[i].status = "sent" /\ To(before, i) = To(before, j)
          BY <3>2 DEF Without
        <4>2. before[i].of \in Mails /\ AddressOf[before[i].of] = To(before, j)
          BY <2>0, <4>1, MailedFields
        <4>3. got[before[i].of] > 0
          BY <1>1, <4>1 DEF QueueOK
        <4>. QED
          BY <4>2, <4>3 DEF Served
      <3>. QED
        BY <3>1, <3>2
    <2>. QED
      BY <2>2, <2>3
  <1>. QED
    BY <1>1, <1>5, <1>6 DEF MailboxInv

\* Whatever the mailbox refuses, whichever rows of the log are lost, whoever else
\* mails meanwhile and however often the script dies and is run again: the log
\* never claims a mail that did not go out; a run mails no address twice and none
\* the log knew to have a ticket; and one that ends without a failure leaves no
\* address behind for which a mail had failed, nor any order it was to mail.
THEOREM MailIsHonest == MailboxSpec => []MailboxInv
  BY MailInit, MailboxStep, MailIsSafe, PTL DEF MailboxSpec

-----------------------------------------------------------------------------
(* The parts together *)

\* Each part's invariant on its own, in one run that explores one part at a time.
THEOREM OutreachIsSound == MCSpec => []OutreachInv
  <1> DEFINE All == ListInv /\ WebInv /\ BatchInv /\ MailInv
  <1>1. MCInit => All
    BY ListInit, WebInit, BatchInit, MailInit DEF MCInit
  <1>2. All /\ [MCNext]_outreachVars => All'
    <2> SUFFICES ASSUME All, [MCNext]_outreachVars PROVE All'
      OBVIOUS
    <2>1. /\ [WaitNext]_waitVars /\ [InvitesNext]_inviteVars
          /\ [MailboxNext]_outboxVars /\ [WebhooksNext]_webhookVars
      BY DEF MCNext, Only, outreachVars
    <2>. QED
      BY <2>1, ListStep, WebStep, BatchStep, MailboxStep
  <1>3. All => OutreachInv
    BY ListIsFair, WebIsSafe, BatchIsSafe, MailIsSafe DEF OutreachInv
  <1> HIDE DEF All
  <1>. QED
    BY <1>1, <1>2, <1>3, PTL DEF MCSpec
=============================================================================
