-------------------------- MODULE EventAdmin_proofs --------------------------
(***************************************************************************)
(* Proofs about the office, for any number of requests, items, files,       *)
(* orders, roles and sessions.  EventAdmin: the cover that is shown has its  *)
(* file, and registrations survive, however the requests overlap.  Catalog: *)
(* no item with orders is lost, and sessions go whole.  Oversight: what a   *)
(* list shows opens, and the notions of an issued ticket agree.             *)
(***************************************************************************)
EXTENDS MCBackOffice, TLAPS, FiniteSetTheorems, SequenceTheorems

-----------------------------------------------------------------------------
(* What the stores and the requests hold.                                  *)

Names == Ids \cup Files \cup Orders
Pretix == [there : BOOLEAN, live : BOOLEAN, orders : SUBSET Orders, birth : Nat]
MappingRow == [id : Ids \cup {NoId}, live : BOOLEAN, cover : Files \cup {NoFile}]
Stages == {"idle", "mapping", "audit", "rollback", "patch", "local", "ask", "mirror",
           "save", "swap", "unlink", "count", "deletePretix", "deleteMapping", "order",
           "row"}
Job == [at : Stages, read : MappingRow, file : Files \cup Orders \cup {NoFile},
        live : BOOLEAN, birth : Nat]

StoresOK ==
    /\ pretix \in Pretix /\ pretix.orders \subseteq spent
    /\ mapping \in MappingRow /\ (mapping.cover # NoFile => mapping.cover \in spent)
    /\ rows \subseteq [order : Orders, id : Ids]
    /\ disk \subseteq Files /\ spent \subseteq Names

\* What a request carries fits the step it is at.
Fits(b) ==
    /\ b \in Job /\ b.birth <= pretix.birth
    /\ b.at = "swap" => b.file \in (Files \cap spent) \cup {NoFile}
    /\ b.at = "row" => b.file \in Orders
    /\ b.read.cover # NoFile => b.read.cover \in spent

JobsOK == job \in [Jobs -> Job] /\ \A j \in Jobs : Fits(job[j])

\* A saved picture that waits for its swap is on disk and nobody else's: not the
\* event's cover, not another upload's, not the cover any request has read and may
\* delete.  A request that deletes what it read deletes a picture that is gone.
CoversOK ==
    /\ mapping.cover # NoFile => mapping.cover \in disk
    /\ \A j \in Jobs : job[j].at = "swap" /\ job[j].file # NoFile =>
          /\ job[j].file \in disk /\ job[j].file # mapping.cover
          /\ \A k \in Jobs : job[k].read.cover # job[j].file
          /\ \A k \in Jobs : job[k].at = "swap" /\ job[k].file = job[j].file => k = j
    /\ \A j \in Jobs : job[j].at = "unlink" =>
          mapping.cover = NoFile \/ job[j].read.cover # mapping.cover

IInv == StoresOK /\ JobsOK /\ CoversOK

LEMMA IdleIs ==
    /\ NoMapping \in MappingRow /\ NoMapping.cover = NoFile /\ NoMapping.id = NoId
    /\ IdleJob \in Job /\ IdleJob.at = "idle" /\ IdleJob.read.cover = NoFile
    /\ IdleJob.file = NoFile /\ IdleJob.birth = 0 /\ IdleJob.read = NoMapping
  BY DEF NoMapping, MappingRow, IdleJob, Job, Stages

LEMMA InitInv == EventInit => IInv
  <1> SUFFICES ASSUME EventInit PROVE IInv
    OBVIOUS
  <1>1. StoresOK
    BY IdleIs DEF EventInit, StoresOK, Pretix
  <1>2. JobsOK
    BY IdleIs DEF EventInit, JobsOK, Fits
  <1>3. CoversOK
    BY IdleIs DEF EventInit, CoversOK
  <1>4. QED
    BY <1>1, <1>2, <1>3 DEF IInv

-----------------------------------------------------------------------------
(* What a step of one request leaves true.                                 *)

Becomes(j, b) == job' = [job EXCEPT ![j] = b]

LEMMA JobsKept ==
    ASSUME JobsOK, pretix \in Pretix, pretix' \in Pretix, pretix.birth <= pretix'.birth,
           spent \subseteq spent', NEW j \in Jobs, NEW b \in Job, Becomes(j, b),
           b.birth <= pretix'.birth,
           b.at = "swap" => b.file \in (Files \cap spent') \cup {NoFile},
           b.at = "row" => b.file \in Orders,
           b.read.cover # NoFile => b.read.cover \in spent'
    PROVE  JobsOK'
  <1>1. job' \in [Jobs -> Job]
    BY DEF JobsOK, Becomes
  <1>2. ASSUME NEW k \in Jobs
        PROVE  Fits(job[k])'
    <2>1. CASE k = j
      BY <2>1 DEF JobsOK, Becomes, Fits
    <2>2. CASE k # j
      <3>1. job'[k] = job[k] /\ Fits(job[k]) /\ job[k].birth \in Nat
        BY <2>2 DEF JobsOK, Becomes, Fits, Job
      <3>2. pretix.birth \in Nat /\ pretix'.birth \in Nat
        BY DEF Pretix
      <3>3. QED
        BY <3>1, <3>2 DEF Fits
    <2>3. QED
      BY <2>1, <2>2
  <1>3. QED
    BY <1>1, <1>2 DEF JobsOK

\* No file is written or deleted, and the cover stays or goes.
LEMMA CoversKept ==
    ASSUME JobsOK, CoversOK, UNCHANGED disk, mapping'.cover \in {mapping.cover, NoFile},
           NEW j \in Jobs, NEW b \in Job, Becomes(j, b),
           b.read.cover \in {job[j].read.cover, mapping.cover, NoFile},
           b.at = "swap" => b.file = NoFile,
           b.at = "unlink" => mapping'.cover = NoFile
    PROVE  CoversOK'
  BY DEF JobsOK, CoversOK, Becomes

\* What a request carries on with.
LEMMA MovedJob ==
    ASSUME NEW b \in Job, NEW at \in Stages, NEW file \in Files \cup Orders \cup {NoFile},
           NEW live \in BOOLEAN
    PROVE  LET n == [b EXCEPT !.at = at, !.file = file, !.live = live]
           IN  n \in Job /\ n.at = at /\ n.file = file /\ n.read = b.read /\ n.birth = b.birth
  BY DEF Job
\* The stores in this step: nothing on disk changes, no cover appears.
StoresMove ==
    /\ StoresOK' /\ pretix.birth <= pretix'.birth /\ spent \subseteq spent'
    /\ UNCHANGED disk /\ mapping'.cover \in {mapping.cover, NoFile}

LEMMA Still ==
    ASSUME StoresOK, UNCHANGED <<pretix, mapping, rows, disk, spent>>
    PROVE  StoresMove
  BY DEF StoresOK, StoresMove, Pretix

LEMMA PlainStep ==
    ASSUME IInv, StoresMove, NEW j \in Jobs, NEW b \in Job, Becomes(j, b),
           b.birth <= pretix'.birth,
           b.read = job[j].read \/ b.read.cover \in {mapping.cover, NoFile},
           b.at = "swap" => b.file = NoFile,
           b.at = "row" => b.file \in Orders,
           b.at = "unlink" => mapping'.cover = NoFile
    PROVE  IInv'
  <1>1. /\ StoresOK /\ JobsOK /\ CoversOK /\ pretix \in Pretix /\ pretix' \in Pretix
        /\ spent \subseteq spent' /\ Fits(job[j])
    BY DEF IInv, StoresOK, StoresMove, JobsOK
  <1>2. b.read.cover # NoFile => b.read.cover \in spent'
    BY <1>1 DEF Fits, StoresOK
  <1>3. JobsOK'
    BY <1>1, <1>2, JobsKept DEF StoresMove
  <1>4. CoversOK'
    BY <1>1, CoversKept DEF StoresMove
  <1>5. QED
    BY <1>3, <1>4 DEF IInv, StoresMove

LEMMA EndStep ==
    ASSUME IInv, StoresMove, NEW j \in Jobs, End(j)
    PROVE  IInv'
  <1>1. Becomes(j, IdleJob) /\ 0 <= pretix'.birth
    BY DEF End, Becomes, StoresMove, StoresOK, Pretix
  <1>2. QED
    BY <1>1, IdleIs, PlainStep

LEMMA GoStep ==
    ASSUME IInv, StoresMove, NEW j \in Jobs, NEW at \in Stages \ {"swap", "row"}, Goto(j, at),
           at = "unlink" => mapping'.cover = NoFile
    PROVE  IInv'
  <1> DEFINE b == [job[j] EXCEPT !.at = at]
  <1>1. job[j] \in Job /\ job[j].birth <= pretix.birth
    BY DEF IInv, JobsOK, Fits
  <1>2. b \in Job /\ b.at = at /\ b.read = job[j].read /\ b.birth = job[j].birth
    BY <1>1 DEF Job
  <1>3. Becomes(j, b)
    BY DEF Goto, Becomes
  <1>4. pretix.birth \in Nat /\ pretix'.birth \in Nat /\ job[j].birth \in Nat
        /\ pretix.birth <= pretix'.birth
    BY <1>1 DEF IInv, StoresOK, StoresMove, Pretix, Job
  <1> HIDE DEF b
  <1>5. b.birth <= pretix'.birth
    BY <1>1, <1>2, <1>4
  <1>6. QED
    BY <1>2, <1>3, <1>5, PlainStep

LEMMA BeginStep ==
    ASSUME IInv, NEW j \in Jobs, NEW at \in Stages \ {"row", "unlink"}, NEW r \in Job,
           Begin(j, at, r), r.birth <= pretix.birth, at = "swap" => r.file = NoFile
    PROVE  IInv'
  <1> DEFINE b == [r EXCEPT !.at = at, !.read = mapping]
  <1>1. mapping \in MappingRow
    BY DEF IInv, StoresOK
  <1>2. b \in Job /\ b.at = at /\ b.read = mapping /\ b.birth = r.birth /\ b.file = r.file
    BY <1>1 DEF Job
  <1>3. Becomes(j, b) /\ UNCHANGED <<pretix, mapping, rows, disk, spent>>
    BY DEF Begin, Becomes
  <1>4. StoresMove
    BY <1>3, Still DEF IInv
  <1> HIDE DEF b
  <1>5. QED
    BY <1>2, <1>3, <1>4, PlainStep

-----------------------------------------------------------------------------
(* The actions.                                                            *)

LEMMA Begins ==
    ASSUME IInv, NEW j \in Jobs,
           \/ UpdateEvent(j) \/ LiveHook(j) \/ SetCover(j) \/ RemoveCover(j)
           \/ DeleteEvent(j) \/ Register(j)
    PROVE  IInv'
  <1>1. {"patch", "ask", "save", "swap", "count", "order"} \subseteq Stages \ {"row", "unlink"}
    BY DEF Stages
  <1>2. pretix.birth \in Nat
    BY DEF IInv, StoresOK, Pretix
  <1>3. CASE UpdateEvent(j)
    <2>1. PICK live \in BOOLEAN : Begin(j, "patch", [IdleJob EXCEPT !.live = live])
      BY <1>3 DEF UpdateEvent
    <2> DEFINE r == [IdleJob EXCEPT !.live = live]
    <2>2. r \in Job /\ r.birth = 0
      BY IdleIs DEF Job
    <2>3. Begin(j, "patch", r)
      BY <2>1
    <2> HIDE DEF r
    <2>4. QED
      BY <1>1, <1>2, <2>2, <2>3, BeginStep
  <1>4. CASE LiveHook(j) \/ SetCover(j) \/ RemoveCover(j) \/ DeleteEvent(j)
    BY <1>1, <1>2, <1>4, IdleIs, BeginStep DEF LiveHook, SetCover, RemoveCover, DeleteEvent
  <1>5. CASE Register(j)
    <2> DEFINE r == [IdleJob EXCEPT !.birth = pretix.birth]
    <2>1. r \in Job /\ r.birth = pretix.birth
      BY <1>2, IdleIs DEF Job
    <2>2. Begin(j, "order", r)
      BY <1>5 DEF Register
    <2> HIDE DEF r
    <2>3. QED
      BY <1>1, <1>2, <2>1, <2>2, BeginStep
  <1>6. QED
    BY <1>3, <1>4, <1>5

\* The calls to pretix and the writes that touch neither file nor cover.
LEMMA Quiet ==
    ASSUME IInv, NEW j \in Jobs,
           \/ InsertMapping(j) \/ CreateAudited(j) \/ CreateFails(j) \/ RollBack(j)
           \/ PatchPretix(j) \/ WriteLocal(j) \/ Mirror(j) \/ CountRows(j)
           \/ DeletePretix(j) \/ DeleteMapping(j) \/ InsertRow(j) \/ GiveUp(j)
    PROVE  IInv'
  <1> USE DEF IInv
  <1>1. {"audit", "rollback", "local", "deletePretix", "deleteMapping", "unlink"}
            \subseteq Stages \ {"swap", "row"}
    BY DEF Stages
  <1>2. job[j] \in Job /\ Fits(job[j])
    BY DEF JobsOK
  <1>3. CASE InsertMapping(j)
    <2>1. CASE mapping.id = NoId
      <3>1. PICK id \in Ids : /\ mapping' = [NoMapping EXCEPT !.id = id, !.live = job[j].live]
                              /\ spent' = spent \cup {id}
        BY <1>3, <2>1 DEF InsertMapping
      <3>2. job[j].live \in BOOLEAN
        BY <1>2 DEF Job
      <3>3. mapping' \in MappingRow /\ mapping'.cover = NoFile
        BY <3>1, <3>2, IdleIs DEF MappingRow
      <3>4. UNCHANGED <<pretix, rows, disk>> /\ Goto(j, "audit")
        BY <1>3, <2>1 DEF InsertMapping
      <3>5. StoresMove
        BY <3>1, <3>3, <3>4 DEF StoresOK, StoresMove, Pretix, Names
      <3>6. QED
        BY <1>1, <3>4, <3>5, GoStep
    <2>2. CASE mapping.id # NoId
      BY <1>1, <1>3, <2>2, Still, GoStep DEF InsertMapping
    <2>3. QED
      BY <2>1, <2>2
  <1>4. CASE CreateAudited(j) \/ CreateFails(j) \/ CountRows(j) \/ GiveUp(j)
    <2>1. StoresMove
      BY <1>4, Still DEF CreateAudited, CreateFails, CountRows, GiveUp
    <2>2. QED
      BY <1>1, <1>4, <2>1, EndStep, GoStep DEF CreateAudited, CreateFails, CountRows, GiveUp
  <1>5. CASE RollBack(j) \/ DeletePretix(j)
    <2>1. pretix' \in {pretix, Deleted} /\ UNCHANGED <<mapping, rows, disk, spent>>
      BY <1>5 DEF RollBack, DeletePretix
    <2>2. Deleted \in Pretix /\ Deleted.orders = pretix.orders /\ Deleted.birth = pretix.birth
      BY DEF StoresOK, Pretix, Deleted
    <2>3. StoresMove
      BY <2>1, <2>2 DEF StoresOK, StoresMove, Pretix
    <2>4. QED
      BY <1>1, <1>5, <2>3, EndStep, GoStep DEF RollBack, DeletePretix
  <1>6. CASE PatchPretix(j)
    <2>1. job[j].live \in BOOLEAN
      BY <1>2 DEF Job
    <2>2. /\ pretix' \in {pretix, [pretix EXCEPT !.live = job[j].live]}
          /\ UNCHANGED <<mapping, rows, disk, spent>>
      BY <1>6 DEF PatchPretix, Patched
    <2>3. /\ pretix' \in Pretix /\ pretix'.orders = pretix.orders
          /\ pretix'.birth = pretix.birth
      BY <2>1, <2>2 DEF StoresOK, Pretix
    <2>4. StoresMove
      BY <2>2, <2>3 DEF StoresOK, StoresMove, Pretix
    <2>5. QED
      BY <1>1, <1>6, <2>4, EndStep, GoStep DEF PatchPretix
  <1>7. CASE WriteLocal(j) \/ Mirror(j)
    <2>1. job[j].live \in BOOLEAN
      BY <1>2 DEF Job
    <2>2. mapping' \in {mapping, [mapping EXCEPT !.live = job[j].live]} /\ End(j)
          /\ UNCHANGED <<pretix, rows, disk, spent>>
      BY <1>7 DEF WriteLocal, Mirror
    <2>3. /\ [mapping EXCEPT !.live = job[j].live] \in MappingRow
          /\ [mapping EXCEPT !.live = job[j].live].cover = mapping.cover
      BY <2>1 DEF StoresOK, MappingRow
    <2>4. mapping' \in MappingRow /\ mapping'.cover = mapping.cover
      BY <2>2, <2>3 DEF StoresOK
    <2>5. StoresMove
      BY <2>2, <2>4 DEF StoresOK, StoresMove, Pretix
    <2>6. QED
      BY <2>2, <2>5, EndStep
  <1>8. CASE DeleteMapping(j)
    <2>1. CASE Known(j)
      <3>1. /\ mapping' = NoMapping /\ rows' \subseteq rows /\ Goto(j, "unlink")
            /\ UNCHANGED <<pretix, disk, spent>>
        BY <1>8, <2>1 DEF DeleteMapping
      <3>2. StoresMove
        BY <3>1, IdleIs DEF StoresOK, StoresMove, Pretix
      <3>3. QED
        BY <1>1, <3>1, <3>2, IdleIs, GoStep
    <2>2. CASE ~Known(j)
      BY <1>8, <2>2, Still, EndStep DEF DeleteMapping
    <2>3. QED
      BY <2>1, <2>2
  <1>9. CASE InsertRow(j)
    <2>1. At(j, "row") => job[j].file \in Orders
      BY <1>2 DEF At, Fits
    <2>2. Known(j) => mapping.id \in Ids
      BY DEF Known, StoresOK, MappingRow
    <2>3. StoresMove
      BY <1>9, <2>1, <2>2 DEF InsertRow, StoresOK, StoresMove, Pretix
    <2>4. QED
      BY <1>9, <2>3, EndStep DEF InsertRow
  <1>10. QED
    BY <1>3, <1>4, <1>5, <1>6, <1>7, <1>8, <1>9
\* A new event's birth is later than what any request has read.
LEMMA CreateStep ==
    ASSUME IInv, NEW j \in Jobs, CreateEvent(j)
    PROVE  IInv'
  <1>1. PICK live \in BOOLEAN :
           /\ pretix' = [there |-> TRUE, live |-> live, orders |-> {}, birth |-> pretix.birth + 1]
           /\ job' = [job EXCEPT ![j] = [IdleJob EXCEPT !.at = "mapping", !.live = live]]
    BY DEF CreateEvent, NewEvent
  <1>2. UNCHANGED <<mapping, rows, disk, spent>> /\ pretix.birth \in Nat
    BY DEF CreateEvent, IInv, StoresOK, Pretix
  <1>3. StoresMove
    BY <1>1, <1>2 DEF IInv, StoresOK, StoresMove, Pretix
  <1> DEFINE b == [IdleJob EXCEPT !.at = "mapping", !.live = live]
  <1>4. b \in Job /\ b.at = "mapping" /\ b.read = NoMapping /\ b.birth = 0
    BY IdleIs DEF Job, Stages
  <1>5. Becomes(j, b) /\ 0 <= pretix'.birth
    BY <1>1, <1>2 DEF Becomes
  <1> HIDE DEF b
  <1>6. QED
    BY <1>3, <1>4, <1>5, IdleIs, PlainStep

\* The webhook keeps what pretix answers; the order's name is kept for its row.
LEMMA AnswerStep ==
    ASSUME IInv, NEW j \in Jobs, AskPretix(j) \/ PlaceOrder(j)
    PROVE  IInv'
  <1> USE DEF IInv
  <1>1. job[j] \in Job /\ Fits(job[j]) /\ pretix \in Pretix
    BY DEF JobsOK, StoresOK
  <1>2. CASE AskPretix(j)
    <2>1. StoresMove
      BY <1>2, Still DEF AskPretix
    <2>2. CASE pretix.there
      <3> DEFINE b == [job[j] EXCEPT !.live = pretix.live, !.at = "mirror"]
      <3>1. pretix.live \in BOOLEAN
        BY <1>1 DEF Pretix
      <3>2. b \in Job /\ b.at = "mirror" /\ b.read = job[j].read /\ b.birth = job[j].birth
        BY <1>1, <3>1 DEF Job, Stages
      <3>3. Becomes(j, b) /\ UNCHANGED pretix
        BY <1>2, <2>2 DEF AskPretix, Becomes
      <3> HIDE DEF b
      <3>4. QED
        BY <1>1, <2>1, <3>2, <3>3, PlainStep DEF Fits
    <2>3. CASE ~pretix.there
      BY <1>2, <2>1, <2>3, EndStep DEF AskPretix
    <2>4. QED
      BY <2>2, <2>3
  <1>3. CASE PlaceOrder(j)
    <2>1. CASE End(j) /\ UNCHANGED <<pretix, spent>>
      BY <1>3, <2>1, Still, EndStep DEF PlaceOrder
    <2>2. ASSUME NEW o \in Orders, pretix' = [pretix EXCEPT !.orders = @ \cup {o}],
                 spent' = spent \cup {o}, job' = [job EXCEPT ![j].file = o, ![j].at = "row"]
          PROVE  IInv'
      <3> DEFINE b == [job[j] EXCEPT !.file = o, !.at = "row"]
      <3>1. /\ b \in Job /\ b.at = "row" /\ b.read = job[j].read /\ b.file = o
            /\ b.birth = job[j].birth
        BY <1>1 DEF Job, Stages
      <3>2. Becomes(j, b)
        BY <2>2 DEF Becomes
      <3>3. pretix.orders \cup {o} \in SUBSET Orders
        BY <1>1 DEF Pretix
      <3>4. /\ pretix' \in Pretix /\ pretix'.birth = pretix.birth
            /\ pretix'.orders = pretix.orders \cup {o}
        BY <1>1, <2>2, <3>3 DEF Pretix
      <3>5. UNCHANGED <<mapping, rows, disk>> /\ pretix.birth \in Nat
        BY <1>1, <1>3 DEF PlaceOrder, Pretix
      <3>6. StoresMove
        BY <2>2, <3>4, <3>5 DEF StoresOK, StoresMove, Names
      <3> HIDE DEF b
      <3>7. QED
        BY <1>1, <3>1, <3>2, <3>4, <3>6, PlainStep DEF Fits
    <2>3. QED
      BY <1>3, <2>1, <2>2 DEF PlaceOrder
  <1>4. QED
    BY <1>2, <1>3

\* An upload's file is new: nobody has read it, nobody else waits with it.
LEMMA SaveStep ==
    ASSUME IInv, NEW j \in Jobs, SaveFile(j)
    PROVE  IInv'
  <1> USE DEF IInv
  <1>1. PICK f \in Files \ spent :
           /\ disk' = disk \cup {f} /\ spent' = spent \cup {f}
           /\ job' = [job EXCEPT ![j].file = f, ![j].at = "swap"]
    BY DEF SaveFile, NewName
  <1>2. UNCHANGED <<pretix, mapping, rows>>
    BY DEF SaveFile
  <1> DEFINE b == [job[j] EXCEPT !.file = f, !.at = "swap"]
  <1>3. job[j] \in Job /\ Fits(job[j]) /\ pretix \in Pretix
    BY DEF JobsOK, StoresOK
  <1>4. b \in Job /\ b.at = "swap" /\ b.read = job[j].read /\ b.file = f /\ b.birth = job[j].birth
    BY <1>3 DEF Job, Stages
  <1>5. Becomes(j, b) /\ f # NoFile
    BY <1>1, EventAssumption DEF Becomes
  <1> HIDE DEF b
  <1>6. StoresOK'
    BY <1>1, <1>2 DEF StoresOK, Pretix, Names
  <1>7. JobsOK'
    <2>1. pretix'.birth = pretix.birth /\ pretix.birth \in Nat
      BY <1>2, <1>3 DEF Pretix
    <2>2. b.read.cover # NoFile => b.read.cover \in spent'
      BY <1>1, <1>3, <1>4 DEF Fits
    <2>3. QED
      BY <1>1, <1>2, <1>3, <1>4, <1>5, <2>1, <2>2, JobsKept DEF Fits
  <1>8. ASSUME NEW k \in Jobs
        PROVE  /\ job[k].read.cover # f
               /\ job[k].at = "swap" => job[k].file # f
    BY <1>1, <1>5 DEF JobsOK, Fits
  <1>9. f # mapping.cover
    BY <1>1, <1>5 DEF StoresOK
  <1>10. CoversOK'
    <2>1. /\ job'[j] = b
          /\ \A k \in Jobs : k # j => job'[k] = job[k]
      BY <1>5 DEF Becomes, JobsOK
    <2>2. \A k \in Jobs : job'[k].read.cover = job[k].read.cover
      BY <1>4, <2>1
    <2>3. ASSUME NEW k \in Jobs, job'[k].at = "swap", job'[k].file # NoFile
          PROVE  /\ job'[k].file \in disk' /\ job'[k].file # mapping'.cover
                 /\ \A i \in Jobs : job'[i].read.cover # job'[k].file
                 /\ \A i \in Jobs : job'[i].at = "swap" /\ job'[i].file = job'[k].file
                                        => i = k
      <3>1. CASE k = j
        <4>1. job'[k].file = f /\ f \in disk' /\ f # mapping'.cover
          BY <1>1, <1>2, <1>4, <1>9, <2>1, <3>1
        <4>2. \A i \in Jobs : job'[i].read.cover # f
          BY <1>8, <2>2
        <4>3. \A i \in Jobs : i # k => ~(job'[i].at = "swap" /\ job'[i].file = f)
          BY <1>8, <2>1, <3>1
        <4>4. QED
          BY <4>1, <4>2, <4>3
      <3>2. CASE k # j
        <4>1. job'[k] = job[k] /\ job[k].at = "swap" /\ job[k].file # NoFile
          BY <2>1, <2>3, <3>2
        <4>2. /\ job[k].file \in disk /\ job[k].file # mapping.cover
              /\ \A i \in Jobs : job[i].read.cover # job[k].file
              /\ \A i \in Jobs : job[i].at = "swap" /\ job[i].file = job[k].file => i = k
          BY <4>1 DEF CoversOK
        <4>3. job[k].file # f
          BY <1>8, <4>1
        <4>4. \A i \in Jobs : job'[i].at = "swap" /\ job'[i].file = job[k].file => i = k
          BY <1>4, <2>1, <4>2, <4>3
        <4>5. \A i \in Jobs : job'[i].read.cover # job[k].file
          BY <2>2, <4>2
        <4>6. job[k].file \in disk' /\ job[k].file # mapping'.cover
          BY <1>1, <1>2, <4>2
        <4>7. job'[k].file = job[k].file
          BY <4>1
        <4>8. QED
          BY <4>4, <4>5, <4>6, <4>7
      <3>3. QED
        BY <3>1, <3>2
    <2>4. ASSUME NEW k \in Jobs, job'[k].at = "unlink"
          PROVE  mapping'.cover = NoFile \/ job'[k].read.cover # mapping'.cover
      BY <1>2, <1>4, <2>1, <2>4 DEF CoversOK
    <2>5. mapping'.cover # NoFile => mapping'.cover \in disk'
      BY <1>1, <1>2 DEF CoversOK
    <2>6. QED
      BY <2>3, <2>4, <2>5 DEF CoversOK
  <1>11. QED
    BY <1>6, <1>7, <1>10

\* The cover becomes the saved file, or goes; what it was is nobody's any more.
LEMMA SwapStep ==
    ASSUME IInv, NEW j \in Jobs, SwapCover(j)
    PROVE  IInv'
  <1> USE DEF IInv
  <1>1. CASE ~Known(j)
    BY <1>1, Still, EndStep DEF SwapCover
  <1>2. CASE Known(j)
    <2> DEFINE f == job[j].file
               b == [job[j] EXCEPT !.at = "unlink"]
    <2>1. /\ mapping' = [mapping EXCEPT !.cover = f] /\ Becomes(j, b)
          /\ job[j].at = "swap" /\ UNCHANGED <<pretix, rows, disk, spent>>
      BY <1>2 DEF SwapCover, At, Goto, Becomes
    <2>2. job[j] \in Job /\ Fits(job[j]) /\ pretix \in Pretix /\ mapping \in MappingRow
      BY DEF JobsOK, StoresOK
    <2>3. /\ b \in Job /\ b.at = "unlink" /\ b.read = job[j].read
          /\ b.birth = job[j].birth /\ b.file = f
      BY <2>2 DEF Job, Stages
    <2>4. f \in (Files \cap spent) \cup {NoFile}
      BY <2>1, <2>2 DEF Fits
    <2> HIDE DEF b
    <2>5. mapping' \in MappingRow /\ mapping'.cover = f
      BY <2>1, <2>2, <2>4 DEF MappingRow
    <2>6. StoresOK'
      BY <2>1, <2>4, <2>5 DEF StoresOK, Pretix
    <2>7. JobsOK'
      <3>1. pretix'.birth = pretix.birth /\ pretix.birth \in Nat
        BY <2>1, <2>2 DEF Pretix
      <3>2. QED
        BY <2>1, <2>2, <2>3, <3>1, JobsKept DEF Fits
    <2>8. f # NoFile => /\ f \in disk
                        /\ \A k \in Jobs : job[k].read.cover # f
                        /\ \A k \in Jobs : job[k].at = "swap" /\ job[k].file = f => k = j
      BY <2>1 DEF CoversOK
    <2> HIDE DEF f
    <2>9. /\ job'[j] = b /\ \A k \in Jobs : k # j => job'[k] = job[k]
      BY <2>1 DEF Becomes, JobsOK
    <2>10. CoversOK'
      BY <2>1, <2>3, <2>5, <2>8, <2>9 DEF CoversOK
    <2>11. QED
      BY <2>6, <2>7, <2>10
  <1>3. QED
    BY <1>1, <1>2

\* What is deleted is neither the cover nor a picture that waits for its swap.
LEMMA UnlinkStep ==
    ASSUME IInv, NEW j \in Jobs, Unlink(j)
    PROVE  IInv'
  <1> USE DEF IInv
  <1>1. /\ job[j].at = "unlink" /\ Becomes(j, IdleJob) /\ disk' = disk \ {job[j].read.cover}
        /\ UNCHANGED <<pretix, mapping, rows, spent>>
    BY DEF Unlink, At, End, Becomes, Read
  <1>2. StoresOK'
    BY <1>1 DEF StoresOK, Pretix
  <1>3. JobsOK'
    BY <1>1, IdleIs, JobsKept DEF StoresOK, Pretix
  <1>4. /\ job'[j] = IdleJob /\ \A k \in Jobs : k # j => job'[k] = job[k]
    BY <1>1 DEF Becomes, JobsOK
  <1>5. CoversOK'
    BY <1>1, <1>4, IdleIs DEF CoversOK
  <1>6. QED
    BY <1>2, <1>3, <1>5

LEMMA InvStep == IInv /\ [EventNext]_eventVars => IInv'
  <1> SUFFICES ASSUME IInv, [EventNext]_eventVars PROVE IInv'
    OBVIOUS
  <1>1. CASE PretixFlips
    <2>1. /\ pretix' = [pretix EXCEPT !.live = ~@]
          /\ UNCHANGED <<mapping, rows, disk, spent, job>> /\ pretix \in Pretix
      BY <1>1 DEF PretixFlips, IInv, StoresOK
    <2>2. /\ pretix' \in Pretix /\ pretix'.birth = pretix.birth
          /\ pretix'.orders = pretix.orders
      BY <2>1 DEF Pretix
    <2>3. StoresOK' /\ CoversOK'
      BY <2>1, <2>2 DEF IInv, StoresOK, CoversOK
    <2>4. JobsOK'
      BY <2>1, <2>2 DEF IInv, JobsOK, Fits
    <2>5. QED
      BY <2>3, <2>4 DEF IInv
  <1>2. CASE UNCHANGED eventVars
    BY <1>2 DEF eventVars, IInv, StoresOK, JobsOK, Fits, CoversOK
  <1>3. QED
    BY <1>1, <1>2, CreateStep, Begins, Quiet, AnswerStep, SaveStep, SwapStep, UnlinkStep
    DEF EventNext

LEMMA EventIsSound == IInv => EventTypeOK /\ CoverOnDisk
  <1>1. IInv => EventTypeOK
    <2> SUFFICES ASSUME IInv PROVE EventTypeOK
      OBVIOUS
    <2>1. \A j \in Jobs : job[j].live \in BOOLEAN /\ job[j].birth \in 0..pretix.birth
      BY DEF IInv, JobsOK, Fits, Job, StoresOK, Pretix
    <2>2. QED
      BY <2>1 DEF IInv, StoresOK, EventTypeOK, Pretix, MappingRow, Names
  <1>2. IInv => CoverOnDisk
    BY DEF IInv, CoversOK, CoverOnDisk
  <1>. QED
    BY <1>1, <1>2

\* The picture the storefront names as an event's cover is on disk, whichever
\* uploads, removals, deletions and re-creations overlap, and whatever fails
\* between two of their writes (setEventCover, removeEventCover, deleteEvent).
THEOREM CoverStaysOnDisk == EventSpec => []EventInv
  <1>. QED
    BY InitInv, InvStep, EventIsSound, PTL DEF EventSpec, EventInv
-----------------------------------------------------------------------------
(* Catalog: what the two stores and the page hold, for any number of items  *)
(* and of saves that overlap.                                               *)

Unnamed == {"createTicket", "createSubEvent"}
Wanted(G) == {o \in [do : Ops, item : G \cup {NoItem}] : o.item = NoItem <=> o.do \in Unnamed}
Page(G, M) == [tickets : SUBSET G, subs : SUBSET M, newTickets : Nat, newSubs : Nat,
               removedTickets : Seq(G), removedSubs : Seq(M),
               changedTickets : SUBSET G, changedSubs : SUBSET M,
               waits : Calls \cup {NoSave}, refresh : BOOLEAN]
Batches(G) == [state : {"idle", "running", "ok", "error"}, todo : Seq(Wanted(G)),
               step : Nat, made : Items \cup {NoItem}]

ShopOK == /\ items \subseteq given /\ given \subseteq Items /\ quotas \subseteq items
          /\ sold \subseteq items /\ sessions \subseteq meant /\ meant \subseteq given

PageOK(G, M) == /\ editor \in Page(G, M)
                /\ IsFiniteSet(editor.changedTickets) /\ IsFiniteSet(editor.changedSubs)

\* A creation that has its item works on a session's item; a deletion that is
\* about to delete the row has already deleted the item.
BatchOK(b, G, M, I) ==
    /\ b \in Batches(G)
    /\ b.state # "running" => b.todo = <<>>
    /\ b.todo # <<>> =>
         /\ b.step \in 1..Len(Steps[Head(b.todo).do])
         /\ Head(b.todo).do = "createSubEvent" /\ b.step > 1 => b.made \in M
         /\ Head(b.todo).do = "deleteSubEvent" /\ b.step = 4 => Head(b.todo).item \notin I

BatchesOK(G, M, I) == DOMAIN call = Calls /\ call = [c \in Calls |-> call[c]]
                      /\ \A c \in Calls : BatchOK(call[c], G, M, I)
ShopInv == ShopOK /\ PageOK(given, meant) /\ BatchesOK(given, meant, items)

\* What the function of each edit calls, in its order.
LEMMA StepsAre ==
    ASSUME NEW do \in Ops
    PROVE  /\ Len(Steps[do]) \in Nat \ {0}
           /\ do = "createSubEvent" => /\ Len(Steps[do]) = 3
                                       /\ Steps[do][1] = "createItem"
                                       /\ Steps[do][2] = "createQuota"
           /\ do = "deleteSubEvent" => Len(Steps[do]) = 4 /\ Steps[do][3] = "deleteItem"
           /\ \A n \in 1..Len(Steps[do]) :
                /\ Steps[do][n] = "insertRow" => do = "createSubEvent" /\ n = 3
                /\ Steps[do][n] = "deleteRow" => do = "deleteSubEvent" /\ n = 4
  <1>1. CASE do = "createTicket"
    BY <1>1 DEF Steps
  <1>2. CASE do = "updateTicket"
    BY <1>2 DEF Steps
  <1>3. CASE do = "deleteTicket"
    BY <1>3 DEF Steps
  <1>4. CASE do = "createSubEvent"
    BY <1>4 DEF Steps
  <1>5. CASE do = "updateSubEvent"
    BY <1>5 DEF Steps
  <1>6. CASE do = "deleteSubEvent"
    BY <1>6 DEF Steps
  <1>. QED
    BY <1>1, <1>2, <1>3, <1>4, <1>5, <1>6 DEF Ops

LEMMA IdleBatch ==
    ASSUME NEW G, NEW M, NEW I, NEW state \in {"idle", "ok", "error"}
    PROVE  BatchOK([IdleCall EXCEPT !.state = state], G, M, I) /\ IdleCall.state = "idle"
  <1>1. <<>> \in Seq(Wanted(G))
    BY EmptySeq
  <1>. QED
    BY <1>1 DEF IdleCall, BatchOK, Batches

\* A batch stays as it was while others create items, each for the first time.
LEMMA BatchKept ==
    ASSUME NEW G, NEW M, NEW I, NEW H, NEW N, NEW J, NEW b, BatchOK(b, G, M, I),
           G \subseteq H, M \subseteq N, NoItem \notin G,
           \A i \in J : i \in I \/ i \notin G
    PROVE  BatchOK(b, H, N, J)
  <1>1. /\ b.state \in {"idle", "running", "ok", "error"} /\ b.todo \in Seq(Wanted(G))
        /\ b.step \in Nat /\ b.made \in Items \cup {NoItem}
        /\ b = [state |-> b.state, todo |-> b.todo, step |-> b.step, made |-> b.made]
    BY DEF BatchOK, Batches
  <1>2. Wanted(G) \subseteq Wanted(H)
    BY DEF Wanted
  <1>3. b.todo \in Seq(Wanted(H))
    BY <1>1, <1>2, SeqMonotonic
  <1>4. b \in Batches(H)
    BY <1>1, <1>3 DEF Batches
  <1>5. ASSUME b.todo # <<>>
        PROVE  Head(b.todo).do = "deleteSubEvent" => Head(b.todo).item \in G
    <2>1. Head(b.todo) \in Wanted(G)
      BY <1>1, <1>5, HeadTailProperties
    <2>. QED
      BY <2>1 DEF Wanted, Unnamed
  <1>6. b.state # "running" => b.todo = <<>>
    BY DEF BatchOK
  <1>7. ASSUME b.todo # <<>>
        PROVE  /\ b.step \in 1..Len(Steps[Head(b.todo).do])
               /\ Head(b.todo).do = "createSubEvent" /\ b.step > 1 => b.made \in N
               /\ Head(b.todo).do = "deleteSubEvent" /\ b.step = 4 => Head(b.todo).item \notin J
    BY <1>5, <1>7 DEF BatchOK
  <1>. QED
    BY <1>4, <1>6, <1>7 DEF BatchOK

\* What a call to pretix or the database changes: items come back under new ids
\* only, and a row goes only when its item has gone.
ShopMoves ==
    /\ given \subseteq given' /\ meant \subseteq meant'
    /\ \A i \in items' : i \in items \/ i \notin given
    /\ \A i \in sessions : i \in sessions' \/ i \notin items'

LEMMA InBatch ==
    ASSUME ShopInv, NEW c \in Calls
    PROVE  BatchOK(call[c], given, meant, items) /\ NoItem \notin given
  BY CatalogAssumption DEF ShopInv, ShopOK, BatchesOK

LEMMA AtWork ==
    ASSUME ShopInv, NEW c \in Calls, Busy(c)
    PROVE  /\ call[c].todo \in Seq(Wanted(given)) /\ Running(c) \in Wanted(given)
           /\ Running(c).do \in Ops /\ call[c].step \in 1..Len(Steps[Running(c).do])
           /\ Running(c).item = NoItem <=> Running(c).do \in Unnamed
           /\ Running(c).do = "createSubEvent" /\ call[c].step > 1 => call[c].made \in meant
           /\ Running(c).do = "deleteSubEvent" /\ call[c].step = 4 => Running(c).item \notin items
  <1>1. BatchOK(call[c], given, meant, items) /\ call[c].todo # <<>>
    BY InBatch DEF Busy
  <1>2. call[c].todo \in Seq(Wanted(given))
    BY <1>1 DEF BatchOK, Batches
  <1>3. Running(c) \in Wanted(given)
    BY <1>1, <1>2, HeadTailProperties DEF Running
  <1>. QED
    BY <1>1, <1>2, <1>3 DEF BatchOK, Running, Wanted

LEMMA PerformStep ==
    ASSUME ShopInv, NEW c \in Calls, NEW i \in Items, Perform(c, i)
    PROVE  /\ ShopOK' /\ ShopMoves
           /\ Running(c).do = "createSubEvent" => i \in meant'
           /\ Doing(c) = "deleteItem" => i \notin items'
           /\ Running(c).do = "deleteSubEvent" => i = Running(c).item
  <1>1. /\ Busy(c) /\ About(c, i) /\ Possible(Doing(c), i)
        /\ Effect(Doing(c), i, Running(c).do = "createSubEvent")
    BY DEF Perform
  <1> DEFINE d == Doing(c)
             do == Running(c).do
             n == call[c].step
  <1>2. /\ do \in Ops /\ n \in 1..Len(Steps[do]) /\ d = Steps[do][n]
        /\ Running(c).item = NoItem <=> do \in Unnamed
        /\ do = "createSubEvent" /\ n > 1 => call[c].made \in meant
        /\ do = "deleteSubEvent" /\ n = 4 => Running(c).item \notin items
    BY <1>1, AtWork DEF Doing
  <1>3. /\ Len(Steps[do]) \in Nat \ {0} /\ n \in Nat
        /\ do = "createSubEvent" => Len(Steps[do]) = 3 /\ Steps[do][1] = "createItem"
        /\ do = "deleteSubEvent" => Len(Steps[do]) = 4
        /\ d = "insertRow" => do = "createSubEvent" /\ n = 3
        /\ d = "deleteRow" => do = "deleteSubEvent" /\ n = 4
    BY <1>2, StepsAre
  <1> HIDE DEF d, do, n
  <1>4. /\ d = "createItem" \/ i = IF Running(c).item = NoItem THEN call[c].made ELSE Running(c).item
        /\ do = "createSubEvent" => d = "createItem" \/ i \in meant
        /\ do = "deleteSubEvent" => i = Running(c).item \/ d = "createItem"
    <2>1. d = "createItem" \/ i = IF Running(c).item = NoItem THEN call[c].made ELSE Running(c).item
      BY <1>1 DEF About, d
    <2>2. ASSUME do = "createSubEvent", d # "createItem" PROVE i \in meant
      <3>1. n # 1
        BY <1>2, <1>3, <2>2
      <3>2. n > 1
        BY <1>2, <1>3, <3>1
      <3>. QED
        BY <1>2, <2>1, <2>2, <3>2 DEF Unnamed
    <2>3. ASSUME do = "deleteSubEvent", d # "createItem" PROVE i = Running(c).item
      BY <1>2, <2>1, <2>3 DEF Unnamed
    <2>. QED
      BY <2>1, <2>2, <2>3
  <1>5. do = "deleteSubEvent" => d # "createItem"
    <2>. SUFFICES ASSUME do = "deleteSubEvent" PROVE d # "createItem"
      OBVIOUS
    <2>1. Steps["deleteSubEvent"] = <<"findRow", "deleteQuota", "deleteItem", "deleteRow">>
      BY DEF Steps
    <2>2. n \in 1..4
      BY <1>2, <1>3
    <2>. QED
      BY <1>2, <2>1, <2>2
  <1>6. /\ items' = ItemsAfter(d, i) /\ quotas' = QuotasAfter(d, i)
        /\ sessions' = SessionsAfter(d, i) /\ sold' = sold
        /\ given' = IF d = "createItem" THEN given \cup {i} ELSE given
        /\ meant' = IF d = "createItem" /\ do = "createSubEvent" THEN meant \cup {i} ELSE meant
    BY <1>1 DEF Effect, d, do
  <1>7. /\ d = "createItem" => i \notin given
        /\ d = "deleteItem" => i \in items \ sold
    BY <1>1 DEF Possible, d
  <1>8. ShopOK
    BY DEF ShopInv
  <1>9. d = "insertRow" => i \in meant
    BY <1>3, <1>4
  <1>10. d = "deleteRow" => i \notin items
    BY <1>2, <1>3, <1>4
  <1>11. ShopOK'
    BY <1>6, <1>7, <1>8, <1>9 DEF ShopOK, ItemsAfter, QuotasAfter, SessionsAfter
  <1>12. ShopMoves
    BY <1>6, <1>7, <1>8, <1>10 DEF ShopOK, ShopMoves, ItemsAfter, SessionsAfter
  <1>13. do = "createSubEvent" => i \in meant'
    BY <1>4, <1>6
  <1>14. d = "deleteItem" => i \notin items'
    BY <1>6 DEF ItemsAfter
  <1>. QED
    BY <1>4, <1>5, <1>11, <1>12, <1>13, <1>14 DEF d, do

\* What the page asks for, in the order the server action works it off.
LEMMA SetToSeqIs ==
    ASSUME NEW S, IsFiniteSet(S)
    PROVE  SetToSeq(S) \in Seq(S)
  <1>1. PICK n \in Nat : ExistsBijection(1..n, S)
    BY FS_NatBijection
  <1>2. Cardinality(S) = n
    BY <1>1, FS_CountingElements
  <1>3. \E f \in [1..n -> S] : IsInjective(f)
    BY <1>1 DEF ExistsBijection, Bijection, Injection
  <1>4. SetToSeq(S) \in [1..n -> S]
    BY <1>2, <1>3 DEF SetToSeq
  <1>. QED
    BY <1>4

LEMMA EveryIs ==
    ASSUME NEW G, NoItem \notin G, NEW do \in Ops \ Unnamed, NEW s \in Seq(G)
    PROVE  Every(do, s) \in Seq(Wanted(G))
  <1>1. \A k \in 1..Len(s) : Op(do, s[k]) \in Wanted(G)
    BY DEF Op, Wanted
  <1>2. Len(s) \in Nat
    OBVIOUS
  <1>. QED
    BY <1>1, <1>2 DEF Every

LEMMA TimesIs ==
    ASSUME NEW G, NEW do \in Unnamed, NEW n \in Nat
    PROVE  Times(do, n) \in Seq(Wanted(G))
  <1>1. Op(do, NoItem) \in Wanted(G)
    BY DEF Op, Wanted, Unnamed, Ops
  <1>. QED
    BY <1>1 DEF Times

LEMMA Saves ==
    ASSUME NEW e, NEW G, NoItem \notin G, NEW M, M \subseteq G, e \in Page(G, M),
           IsFiniteSet(e.changedTickets), IsFiniteSet(e.changedSubs)
    PROVE  SaveTickets(e) \in Seq(Wanted(G))
  <1>1. /\ e.removedTickets \in Seq(G) /\ e.removedSubs \in Seq(M)
        /\ e.changedTickets \subseteq G /\ e.changedSubs \subseteq M
        /\ e.newTickets \in Nat /\ e.newSubs \in Nat
    BY DEF Page
  <1>2. /\ SetToSeq(e.changedTickets) \in Seq(G) /\ SetToSeq(e.changedSubs) \in Seq(G)
        /\ e.removedSubs \in Seq(G)
    BY <1>1, SetToSeqIs, SeqMonotonic
  <1> DEFINE a == Every("deleteTicket", e.removedTickets)
             b == Every("updateTicket", SetToSeq(e.changedTickets))
             c == Times("createTicket", e.newTickets)
             d == Every("deleteSubEvent", e.removedSubs)
             f == Every("updateSubEvent", SetToSeq(e.changedSubs))
             g == Times("createSubEvent", e.newSubs)
  <1>3. /\ {"deleteTicket", "updateTicket", "deleteSubEvent", "updateSubEvent"}
             \subseteq Ops \ Unnamed
        /\ "createTicket" \in Unnamed /\ "createSubEvent" \in Unnamed
    BY DEF Ops, Unnamed
  <1>4. a \in Seq(Wanted(G)) /\ b \in Seq(Wanted(G)) /\ d \in Seq(Wanted(G)) /\ f \in Seq(Wanted(G))
    BY <1>1, <1>2, <1>3, EveryIs
  <1>5. c \in Seq(Wanted(G)) /\ g \in Seq(Wanted(G))
    BY <1>1, <1>3, TimesIs
  <1>6. SaveTickets(e) = a \o b \o c \o d \o f \o g
    BY DEF SaveTickets
  <1> HIDE DEF a, b, c, d, f, g
  <1>. QED
    BY <1>4, <1>5, <1>6, ConcatProperties

LEMMA PageGrows ==
    ASSUME NEW G, NEW M, NEW H, NEW N, NEW e \in Page(G, M), G \subseteq H, M \subseteq N
    PROVE  e \in Page(H, N)
  <1>1. e.removedTickets \in Seq(H) /\ e.removedSubs \in Seq(N)
    BY SeqMonotonic DEF Page
  <1>. QED
    BY <1>1 DEF Page

\* A step of the page, and a step of one server action.
LEMMA Edited ==
    ASSUME ShopInv, NEW e \in Page(given, meant), Edit(e),
           IsFiniteSet(e.changedTickets), IsFiniteSet(e.changedSubs)
    PROVE  ShopInv' /\ ShopMoves
  <1>1. ShopOK' /\ ShopMoves /\ BatchesOK(given, meant, items)'
    BY DEF ShopInv, ShopOK, ShopMoves, BatchesOK, Edit, shop
  <1>2. PageOK(given, meant)'
    BY DEF PageOK, Edit, shop
  <1>. QED
    BY <1>1, <1>2 DEF ShopInv

LEMMA Worked ==
    ASSUME ShopInv, ShopOK', ShopMoves, editor' \in Page(given, meant),
           IsFiniteSet(editor'.changedTickets), IsFiniteSet(editor'.changedSubs),
           NEW c \in Calls, NEW b, BatchOK(b, given', meant', items'), call' = [call EXCEPT ![c] = b]
    PROVE  ShopInv'
  <1>1. PageOK(given, meant)'
    BY PageGrows DEF PageOK, ShopMoves
  <1>2. ASSUME NEW x \in Calls PROVE BatchOK(call'[x], given', meant', items')
    <2>1. BatchOK(call[x], given, meant, items) /\ NoItem \notin given
      BY InBatch
    <2>2. BatchOK(call[x], given', meant', items')
      BY <2>1, BatchKept DEF ShopMoves
    <2>. QED
      BY <2>2 DEF ShopInv, BatchesOK
  <1>3. BatchesOK(given, meant, items)'
    BY <1>2 DEF ShopInv, BatchesOK
  <1>. QED
    BY <1>1, <1>3 DEF ShopInv

LEMMA OnThePage ==
    ASSUME ShopInv
    PROVE  /\ editor.tickets \subseteq given /\ editor.subs \subseteq meant
           /\ editor.newTickets \in Nat /\ editor.newSubs \in Nat
           /\ editor.removedTickets \in Seq(given) /\ editor.removedSubs \in Seq(meant)
           /\ editor.changedTickets \subseteq given /\ editor.changedSubs \subseteq meant
           /\ IsFiniteSet(editor.changedTickets) /\ IsFiniteSet(editor.changedSubs)
           /\ editor.waits \in Calls \cup {NoSave} /\ editor.refresh \in BOOLEAN
           /\ editor \in Page(given, meant)
  BY DEF ShopInv, PageOK, Page

LEMMA MountedIs ==
    ASSUME ShopInv, NEW w \in Calls \cup {NoSave}
    PROVE  LET e == [Mounted EXCEPT !.waits = w]
           IN  /\ e \in Page(given, meant) /\ e.changedTickets = {} /\ e.changedSubs = {}
               /\ Mounted \in Page(given, meant)
  <1>1. items \in SUBSET given /\ sessions \in SUBSET meant
    BY DEF ShopInv, ShopOK
  <1>2. <<>> \in Seq(given) /\ <<>> \in Seq(meant)
    BY EmptySeq
  <1>. QED
    BY <1>1, <1>2 DEF Mounted, Page

LEMMA PageStep ==
    ASSUME ShopInv,
           \/ AddTicket \/ AddSub \/ DropNewTicket \/ DropNewSub \/ Refresh \/ Load \/ SaveRejects
           \/ \E i \in Items : RemoveTicket(i) \/ RemoveSub(i) \/ PatchTicket(i) \/ PatchSub(i)
    PROVE  ShopInv' /\ ShopMoves
  <1>1. /\ editor.tickets \subseteq given /\ editor.subs \subseteq meant
        /\ editor.newTickets \in Nat /\ editor.newSubs \in Nat
        /\ editor.removedTickets \in Seq(given) /\ editor.removedSubs \in Seq(meant)
        /\ editor.changedTickets \subseteq given /\ editor.changedSubs \subseteq meant
        /\ IsFiniteSet(editor.changedTickets) /\ IsFiniteSet(editor.changedSubs)
        /\ editor.waits \in Calls \cup {NoSave} /\ editor.refresh \in BOOLEAN
        /\ editor \in Page(given, meant)
    BY OnThePage
  <1>2. /\ \A i : /\ IsFiniteSet(editor.changedTickets \cup {i})
                  /\ IsFiniteSet(editor.changedSubs \cup {i})
                  /\ IsFiniteSet(editor.changedTickets \ {i})
                  /\ IsFiniteSet(editor.changedSubs \ {i})
        /\ IsFiniteSet({})
    BY <1>1, FS_AddElement, FS_RemoveElement, FS_EmptySet
  <1>3. CASE AddTicket \/ AddSub \/ DropNewTicket \/ DropNewSub
    <2>1. PICK n \in Nat : \/ Edit([editor EXCEPT !.newTickets = n])
                           \/ Edit([editor EXCEPT !.newSubs = n])
      <3>1. /\ editor.newTickets + 1 \in Nat /\ editor.newSubs + 1 \in Nat
            /\ editor.newTickets > 0 => editor.newTickets - 1 \in Nat
            /\ editor.newSubs > 0 => editor.newSubs - 1 \in Nat
        BY <1>1
      <3>2. \/ Edit([editor EXCEPT !.newTickets = editor.newTickets + 1])
            \/ Edit([editor EXCEPT !.newSubs = editor.newSubs + 1])
            \/ editor.newTickets > 0 /\ Edit([editor EXCEPT !.newTickets = editor.newTickets - 1])
            \/ editor.newSubs > 0 /\ Edit([editor EXCEPT !.newSubs = editor.newSubs - 1])
        BY <1>3 DEF AddTicket, AddSub, DropNewTicket, DropNewSub
      <3>. QED
        BY <3>1, <3>2, Zenon
    <2>2. /\ [editor EXCEPT !.newTickets = n] \in Page(given, meant)
          /\ [editor EXCEPT !.newSubs = n] \in Page(given, meant)
          /\ [editor EXCEPT !.newTickets = n].changedTickets = editor.changedTickets
          /\ [editor EXCEPT !.newTickets = n].changedSubs = editor.changedSubs
          /\ [editor EXCEPT !.newSubs = n].changedTickets = editor.changedTickets
          /\ [editor EXCEPT !.newSubs = n].changedSubs = editor.changedSubs
      BY <1>1 DEF Page
    <2>. QED
      BY <1>1, <2>1, <2>2, Edited
  <1>4. ASSUME NEW e, e \in Page(given, meant), Edit(e),
               e.changedTickets = {} \/ e.changedTickets = editor.changedTickets
               \/ (\E i : e.changedTickets \in {editor.changedTickets \cup {i}, editor.changedTickets \ {i}}),
               e.changedSubs = {} \/ e.changedSubs = editor.changedSubs
               \/ (\E i : e.changedSubs \in {editor.changedSubs \cup {i}, editor.changedSubs \ {i}})
        PROVE  ShopInv' /\ ShopMoves
    <2>1. IsFiniteSet(e.changedTickets) /\ IsFiniteSet(e.changedSubs)
      BY <1>1, <1>2, <1>4
    <2>. QED
      BY <1>4, <2>1, Edited
  <1>5. CASE Refresh
    <2> DEFINE e == [editor EXCEPT !.refresh = FALSE, !.changedTickets = {}, !.changedSubs = {}]
               m == [Mounted EXCEPT !.waits = editor.waits]
    <2>1. e \in Page(given, meant) /\ e.changedTickets = {} /\ e.changedSubs = {}
      BY <1>1 DEF Page
    <2>2. m \in Page(given, meant) /\ m.changedTickets = {} /\ m.changedSubs = {}
      BY <1>1, MountedIs
    <2>3. Edit(e) \/ Edit(m)
      BY <1>5 DEF Refresh
    <2> HIDE DEF e, m
    <2>4. CASE Edit(e)
      BY <1>4, <2>1, <2>4
    <2>5. CASE Edit(m)
      BY <1>4, <2>2, <2>5
    <2>. QED
      BY <2>3, <2>4, <2>5
  <1>6. CASE Load
    <2>1. Mounted \in Page(given, meant)
      BY MountedIs
    <2>2. Mounted.changedTickets = {} /\ Mounted.changedSubs = {}
      BY DEF Mounted
    <2>3. Edit(Mounted)
      BY <1>6 DEF Load
    <2>. QED
      BY <1>4, <2>1, <2>2, <2>3
  <1>7. CASE SaveRejects
    <2> DEFINE e == [editor EXCEPT !.waits = NoSave]
    <2>1. e \in Page(given, meant) /\ e.changedTickets = editor.changedTickets
          /\ e.changedSubs = editor.changedSubs
      BY <1>1 DEF Page
    <2>2. Edit(e)
      BY <1>7 DEF SaveRejects
    <2> HIDE DEF e
    <2>. QED
      BY <1>4, <2>1, <2>2
  <1>8. ASSUME NEW i \in Items, RemoveTicket(i) \/ RemoveSub(i)
        PROVE  ShopInv' /\ ShopMoves
    <2> DEFINE t == [editor EXCEPT !.removedTickets = Append(@, i), !.changedTickets = @ \ {i}]
               u == [editor EXCEPT !.removedSubs = Append(@, i), !.changedSubs = @ \ {i}]
    <2>1. RemoveTicket(i) => i \in given /\ Edit(t)
      BY <1>1 DEF RemoveTicket
    <2>2. RemoveSub(i) => i \in meant /\ Edit(u)
      BY <1>1 DEF RemoveSub
    <2>3. i \in given => Append(editor.removedTickets, i) \in Seq(given)
      BY <1>1
    <2>4. i \in meant => Append(editor.removedSubs, i) \in Seq(meant)
      BY <1>1
    <2>5. i \in given => t \in Page(given, meant)
      BY <1>1, <2>3 DEF Page
    <2>6. i \in meant => u \in Page(given, meant)
      BY <1>1, <2>4 DEF Page
    <2>7. /\ t.changedTickets = editor.changedTickets \ {i} /\ t.changedSubs = editor.changedSubs
          /\ u.changedTickets = editor.changedTickets /\ u.changedSubs = editor.changedSubs \ {i}
      BY <1>1 DEF Page
    <2> HIDE DEF t, u
    <2>. QED
      BY <1>4, <1>8, <2>1, <2>2, <2>5, <2>6, <2>7
  <1>9. ASSUME NEW i \in Items, PatchTicket(i) \/ PatchSub(i)
        PROVE  ShopInv' /\ ShopMoves
    <2> DEFINE t == [editor EXCEPT !.changedTickets = @ \cup {i}]
               u == [editor EXCEPT !.changedSubs = @ \cup {i}]
    <2>1. PatchTicket(i) => i \in given /\ Edit(t)
      BY <1>1 DEF PatchTicket
    <2>2. PatchSub(i) => i \in meant /\ Edit(u)
      BY <1>1 DEF PatchSub
    <2>3. i \in given => t \in Page(given, meant)
      BY <1>1 DEF Page
    <2>4. i \in meant => u \in Page(given, meant)
      BY <1>1 DEF Page
    <2>5. /\ t.changedTickets = editor.changedTickets \cup {i} /\ t.changedSubs = editor.changedSubs
          /\ u.changedTickets = editor.changedTickets /\ u.changedSubs = editor.changedSubs \cup {i}
      BY <1>1 DEF Page
    <2> HIDE DEF t, u
    <2>. QED
      BY <1>4, <1>9, <2>1, <2>2, <2>3, <2>4, <2>5
  <1>. QED
    BY <1>3, <1>5, <1>6, <1>7, <1>8, <1>9

LEMMA SameShop ==
    ASSUME ShopInv, UNCHANGED shop
    PROVE  /\ ShopOK' /\ ShopMoves /\ given' = given /\ meant' = meant /\ items' = items
  BY DEF ShopInv, ShopOK, ShopMoves, shop

LEMMA StopStep ==
    ASSUME ShopInv, ShopOK', ShopMoves, UNCHANGED editor, NEW c \in Calls,
           Stop(c, "ok") \/ Stop(c, "error")
    PROVE  ShopInv'
  <1>1. PICK s \in {"ok", "error"} : call' = [call EXCEPT ![c] = [IdleCall EXCEPT !.state = s]]
    BY DEF Stop
  <1>2. BatchOK([IdleCall EXCEPT !.state = s], given', meant', items')
    BY IdleBatch
  <1>3. /\ editor' \in Page(given, meant)
        /\ IsFiniteSet(editor'.changedTickets) /\ IsFiniteSet(editor'.changedSubs)
    BY OnThePage
  <1>. QED
    BY <1>1, <1>2, <1>3, Worked

\* The two ways a call moves on.
LEMMA AdvancedIs ==
    ASSUME NEW G, NEW b, b.todo \in Seq(Wanted(G)), b.step \in Nat, b \in Batches(G),
           Tail(b.todo) \in Seq(Wanted(G)), NEW i \in Items
    PROVE  /\ Advanced(b, i) \in Batches(G) /\ Advanced(b, i).state = b.state
           /\ b.step < Len(Steps[Head(b.todo).do]) =>
                /\ Advanced(b, i).todo = b.todo /\ Advanced(b, i).step = b.step + 1
                /\ Advanced(b, i).made = i
           /\ ~(b.step < Len(Steps[Head(b.todo).do])) =>
                Advanced(b, i).todo = Tail(b.todo) /\ Advanced(b, i).step = 1
  <1>1. b.step + 1 \in Nat
    OBVIOUS
  <1>2. CASE b.step < Len(Steps[Head(b.todo).do])
    <2> DEFINE n == [b EXCEPT !.step = b.step + 1, !.made = i]
    <2>1. n \in Batches(G) /\ n.state = b.state /\ n.todo = b.todo /\ n.step = b.step + 1 /\ n.made = i
      BY <1>1 DEF Batches
    <2>. QED
      BY <1>2, <2>1 DEF Advanced
  <1>3. CASE ~(b.step < Len(Steps[Head(b.todo).do]))
    <2> DEFINE n == [b EXCEPT !.todo = Tail(b.todo), !.step = 1, !.made = NoItem]
    <2>1. n \in Batches(G) /\ n.state = b.state /\ n.todo = Tail(b.todo) /\ n.step = 1
      BY DEF Batches
    <2>. QED
      BY <1>3, <2>1 DEF Advanced
  <1>. QED
    BY <1>2, <1>3

LEMMA SucceedStep ==
    ASSUME ShopInv, NEW c \in Calls, NEW i \in Items, Succeed(c, i)
    PROVE  ShopInv' /\ ShopMoves
  <1>1. Perform(c, i) /\ Busy(c)
    BY DEF Succeed, Perform
  <1>2. /\ ShopOK' /\ ShopMoves
        /\ Running(c).do = "createSubEvent" => i \in meant'
        /\ Doing(c) = "deleteItem" => i \notin items'
        /\ Running(c).do = "deleteSubEvent" => i = Running(c).item
    BY <1>1, PerformStep
  <1>3. /\ call[c].todo \in Seq(Wanted(given)) /\ Running(c) \in Wanted(given)
        /\ Running(c).do \in Ops /\ call[c].step \in 1..Len(Steps[Running(c).do])
        /\ call[c].todo # <<>> /\ call[c].state = "running"
    BY <1>1, AtWork DEF Busy
  <1>4. /\ Len(Steps[Running(c).do]) \in Nat
        /\ Running(c).do = "deleteSubEvent" => Steps[Running(c).do][3] = "deleteItem"
    BY <1>3, StepsAre
  <1>5. given \subseteq given' /\ Wanted(given) \subseteq Wanted(given')
    BY <1>2 DEF ShopMoves, Wanted
  <1>6. call[c].todo \in Seq(Wanted(given')) /\ Tail(call[c].todo) \in Seq(Wanted(given))
    BY <1>3, <1>5, SeqMonotonic, HeadTailProperties
  <1>7. Tail(call[c].todo) \in Seq(Wanted(given'))
    BY <1>5, <1>6, SeqMonotonic
  <1> DEFINE b == Advanced(call[c], i)
  <1>8. /\ call' = [call EXCEPT ![c] = b]
        /\ b \in Batches(given') /\ b.state = "running"
        /\ call[c].step < Len(Steps[Running(c).do]) =>
             b.todo = call[c].todo /\ b.step = call[c].step + 1 /\ b.made = i
        /\ ~(call[c].step < Len(Steps[Running(c).do])) =>
             b.todo = Tail(call[c].todo) /\ b.step = 1
    <2>1. call[c] \in Batches(given')
      BY <1>6, InBatch DEF BatchOK, Batches
    <2>2. call[c].step \in Nat /\ call' = [call EXCEPT ![c] = b]
      BY <2>1 DEF Succeed, Batches
    <2>. QED
      BY <1>3, <1>6, <1>7, <2>1, <2>2, AdvancedIs DEF Running
  <1> HIDE DEF b
  <1>9. /\ editor' \in Page(given, meant)
        /\ IsFiniteSet(editor'.changedTickets) /\ IsFiniteSet(editor'.changedSubs)
    BY <1>1, OnThePage DEF Perform
  <1>10. ASSUME call[c].step < Len(Steps[Running(c).do])
         PROVE  BatchOK(b, given', meant', items')
    <2>1. call[c].step + 1 \in 1..Len(Steps[Running(c).do])
      BY <1>3, <1>4, <1>10
    <2>2. ASSUME Running(c).do = "deleteSubEvent", call[c].step + 1 = 4
          PROVE  Running(c).item \notin items'
      <3>1. call[c].step = 3
        BY <1>3, <1>4, <2>2
      <3>. QED
        BY <1>2, <1>4, <2>2, <3>1 DEF Doing
    <2>. QED
      BY <1>2, <1>8, <1>10, <2>1, <2>2 DEF BatchOK, Running
  <1>11. ASSUME ~(call[c].step < Len(Steps[Running(c).do]))
         PROVE  BatchOK(b, given', meant', items')
    <2> DEFINE t == Tail(call[c].todo)
    <2>1. b.todo = t /\ b.step = 1 /\ t \in Seq(Wanted(given'))
      BY <1>7, <1>8, <1>11
    <2> HIDE DEF t
    <2>2. ASSUME t # <<>>
          PROVE  1 \in 1..Len(Steps[Head(t).do])
      <3>1. Head(t) \in Wanted(given')
        BY <2>1, <2>2, HeadTailProperties
      <3>2. Len(Steps[Head(t).do]) \in Nat \ {0}
        BY <3>1, StepsAre DEF Wanted
      <3>. QED
        BY <3>2
    <2>. QED
      BY <1>8, <2>1, <2>2 DEF BatchOK
  <1>12. BatchOK(b, given', meant', items')
    BY <1>10, <1>11
  <1>. QED
    BY <1>2, <1>8, <1>9, <1>12, Worked

LEMMA ServeStep ==
    ASSUME ShopInv, NEW c \in Calls, Serve(c)
    PROVE  ShopInv' /\ ShopMoves
  <1>1. CASE Fail(c) \/ Complete(c)
    BY <1>1, SameShop, StopStep DEF Fail, Complete
  <1>2. ASSUME NEW i \in Items, ActsUnheard(c, i)
        PROVE  ShopInv' /\ ShopMoves
    <2>1. Perform(c, i) /\ Stop(c, "error") /\ UNCHANGED editor
      BY <1>2 DEF ActsUnheard, Perform
    <2>. QED
      BY <2>1, PerformStep, StopStep
  <1>. QED
    BY <1>1, <1>2, SucceedStep DEF Serve

LEMMA SaveCallStep ==
    ASSUME ShopInv, NEW c \in Calls, Save(c) \/ Saved(c) \/ Unread(c)
    PROVE  ShopInv' /\ ShopMoves
  <1>1. UNCHANGED shop
    BY DEF Save, Saved, Unread
  <1>2. ShopOK' /\ ShopMoves /\ given' = given /\ meant' = meant /\ items' = items
    BY <1>1, SameShop
  <1>3. /\ editor.tickets \subseteq given /\ editor.subs \subseteq meant
        /\ editor.newTickets \in Nat /\ editor.newSubs \in Nat
        /\ editor.removedTickets \in Seq(given) /\ editor.removedSubs \in Seq(meant)
        /\ editor.changedTickets \subseteq given /\ editor.changedSubs \subseteq meant
        /\ IsFiniteSet(editor.changedTickets) /\ IsFiniteSet(editor.changedSubs)
        /\ editor.waits \in Calls \cup {NoSave} /\ editor.refresh \in BOOLEAN
        /\ editor \in Page(given, meant)
    BY OnThePage
  <1>4. /\ editor' \in Page(given, meant)
        /\ editor'.changedTickets = editor.changedTickets /\ editor'.changedSubs = editor.changedSubs
    <2>1. <<>> \in Seq(given) /\ <<>> \in Seq(meant)
      BY EmptySeq
    <2>2. CASE Save(c)
      BY <1>3, <2>2 DEF Save, Page
    <2>3. CASE Saved(c)
      BY <1>3, <2>1, <2>3 DEF Saved, Page
    <2>4. CASE Unread(c)
      BY <1>3, <2>4 DEF Unread
    <2>. QED
      BY <2>2, <2>3, <2>4
  <1>5. CASE Save(c)
    <2> DEFINE t == SaveTickets(editor)
               b == [IdleCall EXCEPT !.state = "running", !.todo = t]
    <2>1. call' = [call EXCEPT ![c] = b]
      BY <1>5 DEF Save
    <2>2. t \in Seq(Wanted(given))
      BY <1>3, Saves, InBatch DEF ShopInv, ShopOK
    <2> HIDE DEF t
    <2>3. b \in Batches(given) /\ b.state = "running" /\ b.todo = t /\ b.step = 1
      BY <2>2 DEF Batches, IdleCall
    <2> HIDE DEF b
    <2>4. ASSUME t # <<>>
          PROVE  1 \in 1..Len(Steps[Head(t).do])
      <3>1. Head(t) \in Wanted(given)
        BY <2>2, <2>4, HeadTailProperties
      <3>2. Len(Steps[Head(t).do]) \in Nat \ {0}
        BY <3>1, StepsAre DEF Wanted
      <3>. QED
        BY <3>2
    <2>5. BatchOK(b, given', meant', items')
      BY <1>2, <2>3, <2>4 DEF BatchOK
    <2>. QED
      BY <1>2, <1>3, <1>4, <2>1, <2>5, Worked
  <1>6. CASE Saved(c) \/ Unread(c)
    <2>1. call' = [call EXCEPT ![c] = IdleCall]
      BY <1>6 DEF Saved, Unread
    <2>2. BatchOK(IdleCall, given', meant', items')
      <3>1. [IdleCall EXCEPT !.state = "idle"] = IdleCall
        BY DEF IdleCall
      <3>. QED
        BY <3>1, IdleBatch
    <2>. QED
      BY <1>2, <1>3, <1>4, <2>1, <2>2, Worked
  <1>. QED
    BY <1>2, <1>5, <1>6

LEMMA CatalogStep ==
    ASSUME ShopInv, [CatalogNext]_catalogVars
    PROVE  ShopInv' /\ ShopMoves
  <1>1. ASSUME NEW i \in Items, Sell(i) PROVE ShopInv' /\ ShopMoves
    BY <1>1 DEF Sell, ShopInv, ShopOK, ShopMoves, PageOK, BatchesOK
  <1>2. CASE UNCHANGED catalogVars
    BY <1>2 DEF catalogVars, shop, ShopInv, ShopOK, ShopMoves, PageOK, BatchesOK
  <1>. QED
    BY <1>1, <1>2, PageStep, ServeStep, SaveCallStep DEF CatalogNext

LEMMA CatalogStarts == CatalogInit => ShopInv
  <1>. SUFFICES ASSUME CatalogInit PROVE ShopInv
    OBVIOUS
  <1>1. ShopOK
    BY DEF CatalogInit, ShopOK
  <1>2. PageOK(given, meant)
    <2>1. <<>> \in Seq(given) /\ <<>> \in Seq(meant)
      BY EmptySeq
    <2>. QED
      BY <2>1, FS_EmptySet DEF CatalogInit, Mounted, PageOK, Page
  <1>3. BatchesOK(given, meant, items)
    <2>1. [IdleCall EXCEPT !.state = "idle"] = IdleCall
      BY DEF IdleCall
    <2>2. BatchOK(IdleCall, given, meant, items)
      BY <2>1, IdleBatch
    <2>. QED
      BY <2>2 DEF CatalogInit, BatchesOK
  <1>. QED
    BY <1>1, <1>2, <1>3 DEF ShopInv

LEMMA ShopIsSound == ShopInv => CatalogInv
  <1>. SUFFICES ASSUME ShopInv PROVE CatalogInv
    OBVIOUS
  <1>1. ASSUME NEW c \in Calls
        PROVE  /\ call[c].state \in {"idle", "running", "ok", "error"}
               /\ call[c].made \in Items \cup {NoItem}
               /\ call[c].state # "running" => call[c].todo = <<>>
               /\ Busy(c) => call[c].step \in 1..Len(Steps[Running(c).do])
    BY InBatch, AtWork DEF BatchOK, Batches
  <1>2. CatalogTypeOK
    BY <1>1, OnThePage DEF CatalogTypeOK, ShopInv, ShopOK
  <1>. QED
    BY <1>2 DEF CatalogInv, OrdersKeepTheirItem, ShopInv, ShopOK

-----------------------------------------------------------------------------
(* Oversight: the memberships, and the orders and rows the office reads.    *)

Member == [role : Roles \cup {"none"}, events : SUBSET Events, subs : SUBSET Subs]
Seat == [item : Subs, canceled : BOOLEAN]
Booking == [event : Events, status : {"n", "p", "c", "e"}, seats : Seq(Seat)]

\* An organiser's membership names sessions of its own organization, and the
\* events of those sessions.
MembersOK ==
    /\ members \in [Orgs -> Member]
    /\ \A g \in Orgs : members[g].role = "workshop_organiser" =>
         /\ members[g].subs # {}
         /\ \A s \in members[g].subs : OrgOf[EventOf[s]] = g /\ EventOf[s] \in members[g].events

BooksOK ==
    /\ session \in [Subs -> {"linked", "unlinked", "gone"}]
    /\ booked \in Seq(Booking)
    /\ DOMAIN appRows \subseteq DOMAIN booked /\ (\A c \in DOMAIN appRows : appRows[c] \in Row)
    /\ mailed \subseteq DOMAIN appRows
    /\ sweep \in [at : {"idle", "reading", "read"}, seen : Seq(Booking), start : Seq(Booking)]
    /\ Len(sweep.seen) <= Len(booked)

LEMMA MembersStep ==
    ASSUME MembersOK, [OversightNext]_oversightVars
    PROVE  MembersOK'
  <1>1. ASSUME NEW g \in Orgs, NEW m \in Member, members' = [members EXCEPT ![g] = m],
               m.role = "workshop_organiser" =>
                 /\ m.subs # {}
                 /\ \A s \in m.subs : OrgOf[EventOf[s]] = g /\ EventOf[s] \in m.events
        PROVE  MembersOK'
    BY <1>1 DEF MembersOK
  <1>2. ASSUME NEW r \in Roles, NEW es \in SUBSET Events
        PROVE  LET m == [NoMember EXCEPT !.role = r, !.events = es]
               IN  m \in Member /\ m.role = r
    BY DEF NoMember, Member
  <1>3. ASSUME NEW r \in Roles
        PROVE  [NoMember EXCEPT !.role = r] \in Member /\ [NoMember EXCEPT !.role = r].role = r
    BY DEF NoMember, Member
  <1>4. CASE InviteUser
    <2>1. PICK g \in Orgs, r \in Roles \ {"workshop_organiser"} :
             members' = [members EXCEPT ![g] = [NoMember EXCEPT !.role = r]]
      BY <1>4 DEF InviteUser
    <2>. QED
      BY <1>1, <1>3, <2>1
  <1>5. CASE GrantBroad
    <2>1. PICK g \in Orgs, r \in {"super_admin", "organizer_admin", "finance"} :
             members' = [members EXCEPT ![g] = [NoMember EXCEPT !.role = r]]
      BY <1>5 DEF GrantBroad, Grant
    <2>2. r \in Roles /\ r # "workshop_organiser"
      BY DEF Roles
    <2>. QED
      BY <1>1, <1>3, <2>1, <2>2
  <1>6. CASE GrantStaff
    <2>1. PICK g \in Orgs, es \in SUBSET Events :
             members' = [members EXCEPT ![g] = [NoMember EXCEPT !.role = "checkin_staff",
                                                                !.events = es]]
      BY <1>6 DEF GrantStaff, Grant
    <2>2. "checkin_staff" \in Roles
      BY DEF Roles
    <2>. QED
      BY <1>1, <1>2, <2>1, <2>2
  <1>7. CASE GrantWorkshop
    <2>1. PICK g \in Orgs, ss \in SUBSET Subs :
             /\ SessionsGrantable(g, ss)
             /\ members' = [members EXCEPT ![g] = [role |-> "workshop_organiser",
                              events |-> {EventOf[s] : s \in ss}, subs |-> ss]]
      BY <1>7 DEF GrantWorkshop, Grant
    <2> DEFINE m == [role |-> "workshop_organiser", events |-> {EventOf[s] : s \in ss}, subs |-> ss]
    <2>2. m \in Member
      BY OversightAssumption DEF Member, Roles
    <2>3. ss # {} /\ \A s \in ss : OrgOf[EventOf[s]] = g /\ EventOf[s] \in m.events
      BY <2>1 DEF SessionsGrantable
    <2>4. m.subs = ss
      OBVIOUS
    <2> HIDE DEF m
    <2>. QED
      BY <1>1, <2>1, <2>2, <2>3, <2>4 DEF m
  <1>8. CASE UNCHANGED members
    BY <1>8 DEF MembersOK
  <1>. QED
    BY <1>4, <1>5, <1>6, <1>7, <1>8
    DEF OversightNext, oversightVars, DropSession, BeginSweep, ReadPage, LeavePage, PretixPlace,
        PretixMoves, RowMoves, MailDelivered

LEMMA BooksStep ==
    ASSUME BooksOK, [OversightNext]_oversightVars
    PROVE  BooksOK'
  <1>0. /\ booked \in Seq(Booking) /\ Len(booked) \in Nat /\ DOMAIN booked = 1..Len(booked)
        /\ sweep.seen \in Seq(Booking) /\ Len(sweep.seen) \in Nat /\ sweep.start \in Seq(Booking)
        /\ Len(sweep.seen) <= Len(booked)
    BY DEF BooksOK
  <1>1. CASE InviteUser \/ GrantBroad \/ GrantStaff \/ GrantWorkshop
             \/ UNCHANGED <<session, booked, appRows, mailed, sweep>>
    BY <1>1 DEF InviteUser, GrantBroad, GrantStaff, GrantWorkshop, Grant, BooksOK
  <1>2. ASSUME NEW s \in Subs, DropSession(s) PROVE BooksOK'
    BY <1>2 DEF DropSession, BooksOK
  <1>3. CASE BeginSweep
    <2>1. <<>> \in Seq(Booking) /\ Len(<<>>) = 0
      BY EmptySeq
    <2>. QED
      BY <1>0, <1>3, <2>1 DEF BeginSweep, BooksOK
  <1>4. CASE ReadPage
    <2>1. CASE Len(sweep.seen) < Len(booked)
      <3> DEFINE n == Append(sweep.seen, booked[Len(sweep.seen) + 1])
      <3>1. Len(sweep.seen) + 1 \in 1..Len(booked)
        BY <1>0, <2>1
      <3>2. booked[Len(sweep.seen) + 1] \in Booking
        BY <1>0, <3>1, ElementOfSeq
      <3>3. n \in Seq(Booking) /\ Len(n) = Len(sweep.seen) + 1
        BY <1>0, <3>2
      <3>4. sweep' = [sweep EXCEPT !.seen = n] /\ UNCHANGED <<session, booked, appRows, mailed>>
        BY <1>4, <2>1 DEF ReadPage
      <3> HIDE DEF n
      <3>5. sweep'.seen = n /\ sweep' \in [at : {"idle", "reading", "read"}, seen : Seq(Booking),
                                           start : Seq(Booking)]
        BY <3>3, <3>4 DEF BooksOK
      <3>6. Len(sweep'.seen) <= Len(booked')
        BY <3>1, <3>3, <3>4, <3>5
      <3>. QED
        BY <3>4, <3>5, <3>6 DEF BooksOK
    <2>2. CASE ~(Len(sweep.seen) < Len(booked))
      BY <1>4, <2>2 DEF ReadPage, BooksOK
    <2>. QED
      BY <2>1, <2>2
  <1>5. CASE LeavePage
    <2>1. <<>> \in Seq(Booking) /\ Len(<<>>) = 0
      BY EmptySeq
    <2>. QED
      BY <1>0, <1>5, <2>1 DEF LeavePage, Idle, BooksOK
  <1>6. ASSUME booked' \in Seq(Booking), Len(booked') >= Len(booked),
               UNCHANGED <<session, appRows, mailed, sweep>>
        PROVE  BooksOK'
    <2>1. Len(booked') \in Nat /\ DOMAIN booked' = 1..Len(booked')
      BY <1>6
    <2>2. DOMAIN booked \subseteq DOMAIN booked' /\ Len(sweep.seen) <= Len(booked')
      BY <1>0, <1>6, <2>1
    <2>. QED
      BY <1>6, <2>2 DEF BooksOK
  <1>7. CASE PretixPlace
    <2>1. PICK e \in Events : \E o \in OrdersOf(e) : booked' = Append(booked, o)
      BY <1>7 DEF PretixPlace
    <2>2. PICK q \in BoundedSeq({s \in Subs : EventOf[s] = e}, MaxSeats) :
             booked' = Append(booked, [event |-> e, status |-> "n",
                         seats |-> [k \in DOMAIN q |-> [item |-> q[k], canceled |-> FALSE]]])
      BY <2>1 DEF OrdersOf
    <2>3. PICK n \in 0..MaxSeats : q \in [1..n -> {s \in Subs : EventOf[s] = e}]
      BY <2>2 DEF BoundedSeq, SeqOf
    <2> DEFINE seats0 == [k \in DOMAIN q |-> [item |-> q[k], canceled |-> FALSE]]
               o == [event |-> e, status |-> "n", seats |-> seats0]
    <2>4. \A k \in 1..n : [item |-> q[k], canceled |-> FALSE] \in Seat
      BY <2>3 DEF Seat
    <2>5. n \in Nat /\ seats0 = [k \in 1..n |-> [item |-> q[k], canceled |-> FALSE]]
      BY <2>3, OversightAssumption
    <2> HIDE DEF seats0
    <2>6. seats0 \in Seq(Seat)
      BY <2>4, <2>5
    <2>7. o \in Booking
      BY <2>6 DEF Booking
    <2>8. booked' = Append(booked, o)
      BY <2>2 DEF seats0
    <2> HIDE DEF o
    <2>. QED
      BY <1>0, <1>6, <1>7, <2>7, <2>8 DEF PretixPlace
  <1>8. ASSUME NEW c \in Codes, PretixMoves(c) PROVE BooksOK'
    <2>0. booked[c] \in Booking /\ c \in 1..Len(booked)
      BY <1>0, ElementOfSeq DEF Codes
    <2>1. ASSUME NEW o \in Booking, booked' = [booked EXCEPT ![c] = o] PROVE BooksOK'
      <3>1. booked' \in Seq(Booking) /\ Len(booked') = Len(booked)
        BY <1>0, <2>0, <2>1, ExceptSeq
      <3>. QED
        BY <1>0, <1>6, <1>8, <3>1 DEF PretixMoves
    <2>2. ASSUME NEW to \in {"p", "c", "e"}, booked' = [booked EXCEPT ![c].status = to]
          PROVE  BooksOK'
      <3>1. [booked[c] EXCEPT !.status = to] \in Booking
        BY <2>0 DEF Booking
      <3>2. booked' = [booked EXCEPT ![c] = [booked[c] EXCEPT !.status = to]]
        BY <2>2
      <3>. QED
        BY <2>1, <3>1, <3>2
    <2>3. ASSUME NEW k \in DOMAIN booked[c].seats,
                 booked' = [booked EXCEPT ![c].seats[k].canceled = TRUE]
          PROVE  BooksOK'
      <3>1. booked[c].seats \in Seq(Seat) /\ booked[c].seats[k] \in Seat
            /\ k \in 1..Len(booked[c].seats)
        BY <2>0, ElementOfSeq DEF Booking
      <3> DEFINE p == [booked[c].seats[k] EXCEPT !.canceled = TRUE]
                 q == [booked[c].seats EXCEPT ![k] = p]
      <3>2. p \in Seat
        BY <3>1 DEF Seat
      <3>3. booked' = [booked EXCEPT ![c] = [booked[c] EXCEPT !.seats = q]]
        BY <2>3
      <3> HIDE DEF p
      <3>4. q \in Seq(Seat)
        BY <3>1, <3>2, ExceptSeq
      <3> HIDE DEF q
      <3>5. [booked[c] EXCEPT !.seats = q] \in Booking
        BY <2>0, <3>4 DEF Booking
      <3>. QED
        BY <2>1, <3>3, <3>5
    <2>. QED
      BY <1>8, <2>2, <2>3 DEF PretixMoves
  <1>9. ASSUME NEW c \in Codes, RowMoves(c) PROVE BooksOK'
    BY <1>9 DEF RowMoves, Codes, BooksOK
  <1>10. ASSUME NEW c \in Codes, MailDelivered(c) PROVE BooksOK'
    BY <1>10 DEF MailDelivered, BooksOK
  <1>. QED
    BY <1>1, <1>2, <1>3, <1>4, <1>5, <1>7, <1>8, <1>9, <1>10 DEF OversightNext, oversightVars

\* An order as it may have become: its seats stay, what is canceled stays so, and
\* an order that is no longer valid never is again.
Follows(b, a) ==
    /\ DOMAIN b.seats = DOMAIN a.seats
    /\ \A k \in DOMAIN a.seats : /\ b.seats[k].item = a.seats[k].item
                                 /\ a.seats[k].canceled => b.seats[k].canceled
    /\ Valid(b) => Valid(a)

\* What a sweep has read of an order lies between what it was when the sweep
\* began and what it is now.
RosterOK ==
    /\ \A c \in DOMAIN booked : DOMAIN booked[c].seats \subseteq 1..MaxSeats
    /\ Len(sweep.start) <= Len(booked)
    /\ \A c \in DOMAIN sweep.start : Follows(booked[c], sweep.start[c])
    /\ \A c \in DOMAIN sweep.seen : Follows(booked[c], sweep.seen[c])
    /\ \A c \in DOMAIN sweep.seen \cap DOMAIN sweep.start : Follows(sweep.seen[c], sweep.start[c])
    /\ sweep.at = "read" => Len(sweep.start) <= Len(sweep.seen)

LEMMA FollowsItself == ASSUME NEW a PROVE Follows(a, a)
  BY DEF Follows

LEMMA FollowsOn ==
    ASSUME NEW a, NEW b, NEW d, Follows(b, a), Follows(d, b) PROVE Follows(d, a)
  BY DEF Follows

LEMMA RosterStep ==
    ASSUME BooksOK, RosterOK, [OversightNext]_oversightVars
    PROVE  RosterOK'
  <1>0. /\ booked \in Seq(Booking) /\ Len(booked) \in Nat /\ DOMAIN booked = 1..Len(booked)
        /\ sweep.seen \in Seq(Booking) /\ Len(sweep.seen) \in Nat
        /\ DOMAIN sweep.seen = 1..Len(sweep.seen)
        /\ sweep.start \in Seq(Booking) /\ Len(sweep.start) \in Nat
        /\ DOMAIN sweep.start = 1..Len(sweep.start)
        /\ Len(sweep.seen) <= Len(booked)
    BY DEF BooksOK
  <1>1. CASE UNCHANGED <<booked, sweep>>
    BY <1>1 DEF RosterOK
  <1>2. CASE BeginSweep
    <2>1. DOMAIN <<>> = {} /\ Len(<<>>) = 0
      OBVIOUS
    <2>2. booked' = booked /\ sweep'.seen = <<>> /\ sweep'.start = booked /\ sweep'.at = "reading"
      BY <1>2 DEF BeginSweep
    <2>. QED
      BY <1>0, <2>1, <2>2, FollowsItself DEF RosterOK
  <1>3. CASE LeavePage
    <2>1. DOMAIN <<>> = {} /\ Len(<<>>) = 0
      OBVIOUS
    <2>2. booked' = booked /\ sweep'.seen = <<>> /\ sweep'.start = <<>> /\ sweep'.at = "idle"
      BY <1>3 DEF LeavePage, Idle
    <2>. QED
      BY <1>0, <2>1, <2>2 DEF RosterOK
  <1>4. CASE ReadPage /\ Len(sweep.seen) < Len(booked)
    <2> DEFINE n == Len(sweep.seen) + 1
               page == Append(sweep.seen, booked[n])
    <2>1. n \in 1..Len(booked) /\ n \in Nat
      BY <1>0, <1>4
    <2>2. booked[n] \in Booking
      BY <1>0, <2>1, ElementOfSeq
    <2>3. /\ DOMAIN page = 1..n
          /\ page[n] = booked[n] /\ \A c \in 1..Len(sweep.seen) : page[c] = sweep.seen[c]
      BY <1>0, <2>2
    <2>4. sweep' = [sweep EXCEPT !.seen = page] /\ booked' = booked
      BY <1>4 DEF ReadPage
    <2>5. sweep'.seen = page /\ sweep'.start = sweep.start /\ sweep'.at = "reading"
      BY <1>4, <2>4 DEF ReadPage, BooksOK
    <2> HIDE DEF page
    <2>6. ASSUME NEW c \in 1..n
          PROVE  /\ Follows(booked[c], page[c])
                 /\ c \in DOMAIN sweep.start => Follows(page[c], sweep.start[c])
      <3>1. CASE c = n
        BY <2>3, <3>1, FollowsItself DEF RosterOK
      <3>2. CASE c # n
        <4>1. c \in 1..Len(sweep.seen)
          BY <1>0, <3>2
        <4>2. page[c] = sweep.seen[c]
          BY <2>3, <4>1
        <4>. QED
          BY <1>0, <4>1, <4>2 DEF RosterOK
      <3>. QED
        BY <3>1, <3>2
    <2> HIDE DEF n
    <2>. QED
      BY <2>3, <2>4, <2>5, <2>6 DEF RosterOK
  <1>5. CASE ReadPage /\ ~(Len(sweep.seen) < Len(booked))
    <2>1. sweep' = [sweep EXCEPT !.at = "read"] /\ booked' = booked
      BY <1>5 DEF ReadPage
    <2>2. sweep'.seen = sweep.seen /\ sweep'.start = sweep.start
      BY <2>1 DEF BooksOK
    <2>3. Len(sweep.start) <= Len(sweep.seen)
      BY <1>0, <1>5 DEF RosterOK
    <2>. QED
      BY <2>1, <2>2, <2>3 DEF RosterOK
  <1>6. CASE PretixPlace
    <2>1. PICK e \in Events : \E o \in OrdersOf(e) : booked' = Append(booked, o)
      BY <1>6 DEF PretixPlace
    <2>2. PICK q \in BoundedSeq({s \in Subs : EventOf[s] = e}, MaxSeats) :
             booked' = Append(booked, [event |-> e, status |-> "n",
                         seats |-> [k \in DOMAIN q |-> [item |-> q[k], canceled |-> FALSE]]])
      BY <2>1 DEF OrdersOf
    <2>3. PICK n \in 0..MaxSeats : q \in [1..n -> {s \in Subs : EventOf[s] = e}]
      BY <2>2 DEF BoundedSeq, SeqOf
    <2> DEFINE o == [event |-> e, status |-> "n",
                     seats |-> [k \in DOMAIN q |-> [item |-> q[k], canceled |-> FALSE]]]
    <2>4. DOMAIN o.seats \subseteq 1..MaxSeats
      BY <2>3, OversightAssumption
    <2>5. booked' = Append(booked, o) /\ sweep' = sweep
      BY <1>6, <2>2 DEF PretixPlace
    <2> HIDE DEF o
    <2>6. /\ Len(booked') = Len(booked) + 1 /\ DOMAIN booked' = 1..(Len(booked) + 1)
          /\ booked'[Len(booked) + 1] = o /\ \A c \in 1..Len(booked) : booked'[c] = booked[c]
      BY <1>0, <2>5
    <2>7. \A c \in DOMAIN booked' : DOMAIN booked'[c].seats \subseteq 1..MaxSeats
      <3>. SUFFICES ASSUME NEW c \in 1..(Len(booked) + 1)
                    PROVE  DOMAIN booked'[c].seats \subseteq 1..MaxSeats
        BY <2>6
      <3>1. c = Len(booked) + 1 \/ c \in 1..Len(booked)
        BY <1>0
      <3>. QED
        BY <1>0, <2>4, <2>6, <3>1 DEF RosterOK
    <2>8. /\ \A c \in DOMAIN sweep.start : booked'[c] = booked[c]
          /\ \A c \in DOMAIN sweep.seen : booked'[c] = booked[c]
      BY <1>0, <2>6 DEF RosterOK
    <2>9. Len(sweep.start) <= Len(booked')
      BY <1>0, <2>6 DEF RosterOK
    <2>. QED
      BY <2>5, <2>7, <2>8, <2>9 DEF RosterOK
  <1>7. ASSUME NEW c \in Codes, PretixMoves(c) PROVE RosterOK'
    <2>0. booked[c] \in Booking /\ c \in 1..Len(booked) /\ sweep' = sweep
      BY <1>0, <1>7, ElementOfSeq DEF Codes, PretixMoves
    <2>1. ASSUME NEW o, Follows(o, booked[c]), booked' = [booked EXCEPT ![c] = o] PROVE RosterOK'
      <3>1. DOMAIN booked' = DOMAIN booked /\ Len(booked') = Len(booked)
        BY <1>0, <2>1
      <3>2. \A x \in DOMAIN booked : Follows(booked'[x], booked[x])
        BY <1>0, <2>1, FollowsItself
      <3>3. \A x \in DOMAIN booked : DOMAIN booked'[x].seats = DOMAIN booked[x].seats
        BY <3>2 DEF Follows
      <3>4. DOMAIN sweep.start \subseteq DOMAIN booked /\ DOMAIN sweep.seen \subseteq DOMAIN booked
        BY <1>0 DEF RosterOK
      <3>5. /\ \A x \in DOMAIN sweep.start : Follows(booked'[x], sweep.start[x])
            /\ \A x \in DOMAIN sweep.seen : Follows(booked'[x], sweep.seen[x])
        BY <3>2, <3>4, FollowsOn DEF RosterOK
      <3>. QED
        BY <2>0, <3>1, <3>3, <3>5 DEF RosterOK
    <2>2. ASSUME NEW to \in {"p", "c", "e"},
                 booked[c].status \in (IF to = "c" THEN {"n", "p", "e"} ELSE {"n"}),
                 booked' = [booked EXCEPT ![c].status = to]
          PROVE  RosterOK'
      <3> DEFINE o == [booked[c] EXCEPT !.status = to]
      <3>1. o.seats = booked[c].seats /\ o.status = to
        BY <2>0 DEF Booking
      <3>2. booked' = [booked EXCEPT ![c] = o]
        BY <2>2
      <3> HIDE DEF o
      <3>3. Valid(o) => Valid(booked[c])
        BY <2>2, <3>1 DEF Valid
      <3>4. Follows(o, booked[c])
        BY <3>1, <3>3 DEF Follows
      <3>. QED
        BY <2>1, <3>2, <3>4
    <2>3. ASSUME NEW k \in DOMAIN booked[c].seats,
                 booked' = [booked EXCEPT ![c].seats[k].canceled = TRUE]
          PROVE  RosterOK'
      <3>1. booked[c].seats \in Seq(Seat) /\ booked[c].seats[k] \in Seat
        BY <2>0, ElementOfSeq DEF Booking
      <3> DEFINE p == [booked[c].seats[k] EXCEPT !.canceled = TRUE]
                 q == [booked[c].seats EXCEPT ![k] = p]
                 o == [booked[c] EXCEPT !.seats = q]
      <3>2. p.item = booked[c].seats[k].item /\ p.canceled
        BY <3>1 DEF Seat
      <3>3. booked' = [booked EXCEPT ![c] = o]
        BY <2>3
      <3> HIDE DEF p
      <3>4. /\ DOMAIN q = DOMAIN booked[c].seats /\ q[k] = p
            /\ \A x \in DOMAIN booked[c].seats : x # k => q[x] = booked[c].seats[x]
        BY <3>1
      <3> HIDE DEF q
      <3>5. o.seats = q /\ o.status = booked[c].status
        BY <2>0 DEF Booking
      <3> HIDE DEF o
      <3>6. Follows(o, booked[c])
        BY <3>2, <3>4, <3>5 DEF Follows, Valid
      <3>. QED
        BY <2>1, <3>3, <3>6
    <2>. QED
      BY <1>7, <2>2, <2>3 DEF PretixMoves
  <1>. QED
    BY <1>1, <1>2, <1>3, <1>4, <1>5, <1>6, <1>7
    DEF OversightNext, oversightVars, InviteUser, GrantBroad, GrantStaff, GrantWorkshop, Grant,
        DropSession, RowMoves, MailDelivered

LEMMA OversightStarts == OversightInit => MembersOK /\ BooksOK
  <1>1. <<>> \in Seq(Booking) /\ Len(<<>>) = 0 /\ DOMAIN <<>> = {}
    BY EmptySeq
  <1>2. NoMember \in Member /\ NoMember.role = "none"
    BY DEF NoMember, Member
  <1>. QED
    BY <1>1, <1>2 DEF OversightInit, MembersOK, BooksOK, Idle

\* Whoever is restricted is an organiser somewhere, and the sessions of their
\* memberships say which events and organizations they belong to.
LEMMA RestrictedHave ==
    ASSUME MembersOK
    PROVE  /\ Restricted => SubEventScope # {}
           /\ \A s \in SubEventScope : \E g \in Orgs :
                /\ members[g].role = "workshop_organiser" /\ s \in members[g].subs
                /\ s \in Subs /\ OrgOf[EventOf[s]] = g /\ EventOf[s] \in members[g].events
                /\ EventOf[s] \in Events
  <1>1. ASSUME NEW g \in Workshops
        PROVE  /\ g \in Orgs /\ members[g].role = "workshop_organiser" /\ members[g].subs # {}
               /\ \A s \in members[g].subs : s \in Subs /\ OrgOf[EventOf[s]] = g
                      /\ EventOf[s] \in members[g].events /\ EventOf[s] \in Events
    BY <1>1, OversightAssumption DEF Workshops, MembersOK, Member
  <1>2. ASSUME Restricted PROVE SubEventScope # {}
    <2>1. PICK g \in Workshops : TRUE
      BY <1>2 DEF Restricted
    <2>. QED
      BY <1>1, <2>1 DEF SubEventScope
  <1>3. ASSUME NEW s \in SubEventScope
        PROVE  \E g \in Workshops : s \in members[g].subs
    BY <1>3 DEF SubEventScope
  <1>. QED
    BY <1>1, <1>2, <1>3

LEMMA OwnList == MembersOK => OwnListAnswers
  <1>. SUFFICES ASSUME MembersOK, ListRefused(NoSub) PROVE FALSE
    BY DEF OwnListAnswers
  <1>1. CodesRefused(SubEventScope)
    BY DEF ListRefused
  <1>2. PICK s \in SubEventScope : ~CanAccessEvent(EventOf[s])
    BY <1>1 DEF CodesRefused, Existing
  <1>3. PICK g \in Orgs : /\ members[g].role = "workshop_organiser" /\ OrgOf[EventOf[s]] = g
                          /\ EventOf[s] \in members[g].events
    BY RestrictedHave, <1>2
  <1>. QED
    BY <1>2, <1>3 DEF CanAccessEvent

LEMMA OversightIsSound == MembersOK /\ BooksOK => OversightInv
  <1>. SUFFICES ASSUME MembersOK, BooksOK PROVE OversightTypeOK
    BY OwnList DEF OversightInv
  <1>. QED
    BY DEF MembersOK, BooksOK, Member, OversightTypeOK, Codes

LEMMA RosterStarts == OversightInit => RosterOK
  <1>. SUFFICES ASSUME OversightInit PROVE RosterOK
    OBVIOUS
  <1>1. DOMAIN <<>> = {} /\ Len(<<>>) = 0
    OBVIOUS
  <1>2. booked = <<>> /\ sweep.seen = <<>> /\ sweep.start = <<>> /\ sweep.at = "idle"
    BY DEF OversightInit, Idle
  <1>. QED
    BY <1>1, <1>2 DEF RosterOK

\* The seats of s a sweep has read.
SeenSeats(s) == UNION {{c} \X EntrySeats(sweep.seen[c], s) : c \in DOMAIN sweep.seen}

LEMMA HeldFollow ==
    ASSUME NEW a, NEW b, NEW s, Follows(b, a)
    PROVE  HeldSeats(b, s) \subseteq HeldSeats(a, s)
  BY DEF HeldSeats, Follows, Valid

LEMMA SeenBetween ==
    ASSUME BooksOK, RosterOK, sweep.at = "read", NEW s \in Subs
    PROVE  /\ KeptSeats(booked, s) \subseteq SeenSeats(s)
           /\ SeenSeats(s) \subseteq KeptSeats(sweep.start, s) \cup LaterSeats
           /\ KeptSeats(sweep.start, s) \cup LaterSeats
                 \subseteq (1..Len(booked)) \X (1..MaxSeats)
  <1>1. /\ Len(booked) \in Nat /\ DOMAIN booked = 1..Len(booked)
        /\ Len(sweep.seen) \in Nat /\ DOMAIN sweep.seen = 1..Len(sweep.seen)
        /\ Len(sweep.start) \in Nat /\ DOMAIN sweep.start = 1..Len(sweep.start)
        /\ Len(sweep.seen) <= Len(booked) /\ Len(sweep.start) <= Len(sweep.seen)
    BY DEF BooksOK, RosterOK
  <1>2. \A o : EntrySeats(o, s) = HeldSeats(o, s)
    BY DEF EntrySeats, Valid, Live, HeldSeats
  <1>3. \A o : HeldSeats(o, s) \subseteq DOMAIN o.seats
    BY DEF HeldSeats
  <1>4. /\ DOMAIN sweep.start \subseteq DOMAIN sweep.seen /\ DOMAIN sweep.seen \subseteq DOMAIN booked
        /\ Codes = DOMAIN booked
    BY <1>1 DEF Codes
  <1>5. ASSUME NEW c \in DOMAIN sweep.start
        PROVE  /\ HeldSeats(booked[c], s) \subseteq HeldSeats(sweep.seen[c], s)
               /\ HeldSeats(sweep.seen[c], s) \subseteq HeldSeats(sweep.start[c], s)
               /\ DOMAIN sweep.start[c].seats = DOMAIN booked[c].seats
    <2>1. /\ Follows(booked[c], sweep.seen[c]) /\ Follows(sweep.seen[c], sweep.start[c])
          /\ Follows(booked[c], sweep.start[c])
      BY <1>4 DEF RosterOK
    <2>. QED
      BY <2>1, HeldFollow DEF Follows
  <1>6. \A c \in DOMAIN sweep.seen : DOMAIN sweep.seen[c].seats = DOMAIN booked[c].seats
    BY DEF RosterOK, Follows
  <1>7. \A c \in DOMAIN booked : DOMAIN booked[c].seats \subseteq 1..MaxSeats
    BY DEF RosterOK
  <1>8. KeptSeats(booked, s) \subseteq SeenSeats(s)
    BY <1>2, <1>4, <1>5 DEF KeptSeats, SeenSeats
  <1>9. SeenSeats(s) \subseteq KeptSeats(sweep.start, s) \cup LaterSeats
    <2>. SUFFICES ASSUME NEW c \in DOMAIN sweep.seen, NEW k \in HeldSeats(sweep.seen[c], s)
                  PROVE  <<c, k>> \in KeptSeats(sweep.start, s) \cup LaterSeats
      BY <1>2 DEF SeenSeats
    <2>1. CASE c \in DOMAIN sweep.start
      BY <1>5, <2>1 DEF KeptSeats
    <2>2. CASE c \notin DOMAIN sweep.start
      BY <1>3, <1>4, <1>6, <2>2 DEF LaterSeats
    <2>. QED
      BY <2>1, <2>2
  <1>10. KeptSeats(sweep.start, s) \subseteq (1..Len(booked)) \X (1..MaxSeats)
    <2>. SUFFICES ASSUME NEW c \in DOMAIN sweep.start, NEW k \in HeldSeats(sweep.start[c], s)
                  PROVE  c \in 1..Len(booked) /\ k \in 1..MaxSeats
      BY DEF KeptSeats
    <2>. QED
      BY <1>1, <1>3, <1>4, <1>5, <1>7
  <1>11. LaterSeats \subseteq (1..Len(booked)) \X (1..MaxSeats)
    BY <1>1, <1>4, <1>7 DEF LaterSeats
  <1>. QED
    BY <1>8, <1>9, <1>10, <1>11

LEMMA RosterCounts == BooksOK /\ RosterOK => RosterIsWhole
  <1>1. ASSUME BooksOK, RosterOK, sweep.at = "read", NEW s \in Subs
        PROVE  /\ Cardinality(KeptSeats(booked, s)) <= Headcount(s)
               /\ Headcount(s) <= Cardinality(KeptSeats(sweep.start, s)) + Cardinality(LaterSeats)
    <2> DEFINE Kept == KeptSeats(sweep.start, s)
    <2>0. IsFiniteSet(1..Len(booked)) /\ IsFiniteSet(1..MaxSeats)
      <3>1. 1 \in Int /\ Len(booked) \in Int /\ MaxSeats \in Int
        BY <1>1, OversightAssumption DEF BooksOK
      <3>. QED
        BY <3>1, FS_Interval
    <2>1. IsFiniteSet((1..Len(booked)) \X (1..MaxSeats))
      BY <2>0, FS_Product
    <2>2. IsFiniteSet(Kept \cup LaterSeats) /\ IsFiniteSet(Kept) /\ IsFiniteSet(LaterSeats)
      BY <1>1, <2>1, SeenBetween, FS_Subset
    <2>3. /\ Cardinality(Kept \cup LaterSeats) = Cardinality(Kept) + Cardinality(LaterSeats)
                                                 - Cardinality(Kept \cap LaterSeats)
          /\ IsFiniteSet(Kept \cap LaterSeats)
      BY <2>2, FS_Union, FS_Intersection
    <2>4. /\ Cardinality(Kept) \in Nat /\ Cardinality(LaterSeats) \in Nat
          /\ Cardinality(Kept \cap LaterSeats) \in Nat
      BY <2>2, <2>3, FS_CardinalityType
    <2>5. IsFiniteSet(SeenSeats(s)) /\ Cardinality(SeenSeats(s)) <= Cardinality(Kept \cup LaterSeats)
      BY <1>1, <2>2, SeenBetween, FS_Subset
    <2>6. /\ Cardinality(KeptSeats(booked, s)) <= Cardinality(SeenSeats(s))
          /\ Cardinality(SeenSeats(s)) \in Nat
      BY <1>1, <2>5, SeenBetween, FS_Subset, FS_CardinalityType
    <2>7. Headcount(s) = Cardinality(SeenSeats(s))
      BY DEF Headcount, SeenSeats
    <2> HIDE DEF Kept
    <2>8. Cardinality(SeenSeats(s)) <= Cardinality(Kept) + Cardinality(LaterSeats)
      BY <2>3, <2>4, <2>5, <2>6
    <2>. QED
      BY <2>6, <2>7, <2>8 DEF Kept
  <1>. QED
    BY <1>1 DEF RosterIsWhole

LEMMA ListsOpen == MembersOK /\ BooksOK => ListedOpens
  <1>. SUFFICES ASSUME MembersOK, BooksOK, NEW s \in Subs \cup {NoSub}, NEW up \in SUBSET Orgs,
                       NEW c \in PageRows(s, up)
                PROVE  Opens(c, up) /\ \E g \in Orgs : Justifies(members[g], g, c)
    BY DEF ListedOpens
  <1> DEFINE e == booked[c].event
  <1>1. /\ c \in DOMAIN appRows /\ e \in EventScope
        /\ Restricted => \E ss \in SUBSET SubEventScope : c \in OrderCodesForSubEvents(ss, up)
    <2> DEFINE f == IF ListRefused(s) THEN NoSub ELSE s
    <2>1. /\ c \in DOMAIN appRows /\ e \in EventScope
          /\ Restricted /\ f = NoSub => c \in OrderCodesForSubEvents(SubEventScope, up)
          /\ f # NoSub => c \in OrderCodesForSubEvents({f}, up)
      BY DEF PageRows, ListRegistrations
    <2>2. ASSUME Restricted, f # NoSub
          PROVE  {f} \in SUBSET SubEventScope
      <3>1. f = s /\ ~ListRefused(s) /\ s # NoSub
        BY <2>2
      <3>2. SubEventScope # {}
        BY <2>2, RestrictedHave
      <3>. QED
        BY <2>2, <3>1, <3>2 DEF ListRefused
    <2> HIDE DEF f
    <2>. QED
      BY <2>1, <2>2
  <1>2. e \in Events
    BY <1>1 DEF EventScope
  <1>3. CanAccessEvent(e)
    BY <1>1 DEF EventScope, CanAccessEvent, Narrowed
  <1>4. ASSUME Restricted
        PROVE  \E x \in Existing(SubEventScope) :
                  /\ session[x] = "linked" /\ EventOf[x] = e /\ OrgOf[EventOf[x]] \in up
                  /\ Live(booked[c], x) # {}
    BY <1>1, <1>4 DEF OrderCodesForSubEvents, Existing
  <1>5. Opens(c, up)
    BY <1>3, <1>4 DEF Opens, OrderHoldsAnySubEvent
  <1>. SUFFICES \E g \in Orgs : Justifies(members[g], g, c)
    BY <1>5
  <1>6. CASE IsSuperAdmin
    BY <1>6 DEF IsSuperAdmin, Justifies
  <1>7. CASE ~IsSuperAdmin
    <2> DEFINE g == OrgOf[e]
    <2>1. g \in Orgs
      BY <1>2, OversightAssumption
    <2>2. \/ Narrowed(members[g]) /\ e \in members[g].events
          \/ members[g].role \in {"organizer_admin", "finance"}
      BY <1>1, <1>7 DEF EventScope
    <2>3. CASE members[g].role \in {"organizer_admin", "finance"}
      BY <2>1, <2>3 DEF Justifies
    <2>4. CASE members[g].role = "checkin_staff" /\ e \in members[g].events
      BY <2>1, <2>4 DEF Justifies
    <2>5. CASE members[g].role = "workshop_organiser"
      <3>1. g \in Workshops \ Broad
        BY <2>1, <2>5 DEF Workshops, Broad
      <3>2. Restricted
        BY <1>7, <3>1 DEF Restricted
      <3>3. PICK x \in SubEventScope : session[x] = "linked" /\ EventOf[x] = e /\ Live(booked[c], x) # {}
        BY <1>4, <3>2 DEF Existing
      <3>4. PICK h \in Orgs : x \in members[h].subs /\ OrgOf[EventOf[x]] = h
        BY <3>3, RestrictedHave
      <3>5. h = g
        BY <3>3, <3>4
      <3>. QED
        BY <2>1, <2>5, <3>3, <3>4, <3>5 DEF Justifies
    <2>. QED
      BY <2>2, <2>3, <2>4, <2>5 DEF Narrowed
  <1>. QED
    BY <1>6, <1>7

LEMMA IssuedAgree == BooksOK => OneNotionOfIssued
  <1>. SUFFICES ASSUME BooksOK PROVE OneNotionOfIssued
    OBVIOUS
  <1>1. ASSUME NEW c \in DOMAIN appRows PROVE QrShown(c) <=> Issued(appRows[c])
    <2>1. /\ appRows[c].status \in {"pending", "paid", "canceled"}
          /\ appRows[c].approval \in {"not_required", "pending", "approved", "rejected"}
      BY DEF BooksOK, Row
    <2>. QED
      BY <2>1 DEF QrShown, RegistrationState, Issued
  <1>2. Blocked \cap NoTicket = {}
    BY DEF NoTicket
  <1>3. ASSUME NEW c \in DOMAIN appRows, QrShown(c)
        PROVE  c \in Blocked \cup NoTicket <=> ~(appRows[c].secret /\ c \in mailed)
    BY <1>1, <1>3 DEF Blocked, NoTicket
  <1>4. ASSUME ~Restricted
        PROVE  IssuedTickets = Cardinality({c \in ListRegistrations(NoSub, Orgs) : QrShown(c)})
    <2>1. ListRegistrations(NoSub, Orgs) = {c \in DOMAIN appRows : booked[c].event \in EventScope}
      BY <1>4 DEF ListRegistrations
    <2>2. {c \in DOMAIN appRows : booked[c].event \in EventScope /\ Issued(appRows[c])}
             = {c \in ListRegistrations(NoSub, Orgs) : QrShown(c)}
      BY <1>1, <2>1
    <2>. QED
      BY <2>2 DEF IssuedTickets
  <1>. QED
    BY <1>1, <1>2, <1>3, <1>4 DEF OneNotionOfIssued

-----------------------------------------------------------------------------
(* The office: each component takes steps of its own.                       *)

LEMMA OfficeSteps ==
    MCSpec => CatalogInit /\ [][CatalogNext]_catalogVars /\ EventInit /\ [][EventNext]_eventVars
              /\ OversightInit /\ [][OversightNext]_oversightVars
  <1>1. MCInit => CatalogInit /\ EventInit /\ OversightInit
    BY DEF MCInit
  <1>2. [MCNext]_vars => /\ [CatalogNext]_catalogVars /\ [EventNext]_eventVars
                         /\ [OversightNext]_oversightVars
    BY DEF MCNext, vars
  <1>. QED
    BY <1>1, <1>2, PTL DEF MCSpec

LEMMA OfficeHolds ==
    MCSpec => [](ShopInv /\ IInv /\ MembersOK /\ BooksOK)
  <1>1. MCSpec => []ShopInv
    BY OfficeSteps, CatalogStarts, CatalogStep, PTL
  <1>2. MCSpec => []IInv
    BY OfficeSteps, InitInv, InvStep, PTL
  <1>3. MCSpec => [](MembersOK /\ BooksOK)
    BY OfficeSteps, OversightStarts, MembersStep, BooksStep, PTL
  <1>. QED
    BY <1>1, <1>2, <1>3, PTL

\* The catalogue's two stores, the event's and the office's keep their shape; an
\* item with orders is never lost, however many saves overlap, fail or are
\* repeated (saveTicketsAction); and an organiser's own list always answers.
THEOREM OfficeIsSound == MCSpec => []OfficeInv
  <1>1. IInv => EventTypeOK /\ CoverOnDisk
    BY EventIsSound
  <1>2. ShopInv /\ IInv /\ MembersOK /\ BooksOK => OfficeInv
    BY <1>1, ShopIsSound, OversightIsSound DEF OfficeInv, EventInv
  <1>. QED
    BY OfficeHolds, <1>2, PTL

\* The same of the catalogue's own specification, without the run's bounds.
THEOREM CatalogIsSound == CatalogSpec => []CatalogInv
  <1>1. CatalogSpec => []ShopInv
    BY CatalogStarts, CatalogStep, PTL DEF CatalogSpec
  <1>. QED
    BY <1>1, ShopIsSound, PTL

\* A session that leaves the programme takes its pretix item with it, whichever
\* call of a deletion or of its retry fails (deleteSubEvent).
THEOREM SessionsGoWhole == CatalogSpec => SessionGoesWhole
  <1>1. CatalogSpec => []ShopInv
    BY CatalogStarts, CatalogStep, PTL DEF CatalogSpec
  <1>2. ShopInv /\ [CatalogNext]_catalogVars =>
           [\A i \in sessions : i \notin MainTickets']_catalogVars
    BY CatalogStep DEF ShopMoves, MainTickets
  <1>. QED
    BY <1>1, <1>2, PTL DEF CatalogSpec, SessionGoesWhole

\* What a registration list shows opens, and one membership of the viewer
\* justifies it, for any number of organizations, roles and sessions.
THEOREM ListsAreJustified == OversightSpec => []ListedOpens
  <1>1. OversightSpec => [](MembersOK /\ BooksOK)
    BY OversightStarts, MembersStep, BooksStep, PTL DEF OversightSpec
  <1>. QED
    BY <1>1, ListsOpen, PTL

\* A finished roster counts every seat that was live all through the sweep and no
\* seat twice, whatever is placed, paid, canceled or expires meanwhile (rosters).
THEOREM RostersAreWhole == OversightSpec => []RosterIsWhole
  <1>1. OversightSpec => [](BooksOK /\ RosterOK)
    BY OversightStarts, BooksStep, RosterStarts, RosterStep, PTL DEF OversightSpec
  <1>. QED
    BY <1>1, RosterCounts, PTL

\* The four places that decide what an issued ticket is agree.
THEOREM IssuedIsOneNotion == OversightSpec => []OneNotionOfIssued
  <1>1. OversightSpec => [](MembersOK /\ BooksOK)
    BY OversightStarts, MembersStep, BooksStep, PTL DEF OversightSpec
  <1>. QED
    BY <1>1, IssuedAgree, PTL

\* While no slug is created again under a running deletion, a registration that
\* pretix still holds keeps its row (deleteEvent).
THEOREM RegistrationsSurvive ==
    EventInit /\ [][EventNext /\ NoReuseMidDelete]_eventVars => NoRegistrationDestroyed
  <1> DEFINE Gone == \A j \in Jobs : At(j, "deleteMapping") => ~pretix.there
  <1>1. EventInit => Gone
    BY IdleIs DEF EventInit, At
  <1>2. IInv /\ Gone /\ [EventNext /\ NoReuseMidDelete]_eventVars => Gone'
    <2>. SUFFICES ASSUME IInv, Gone, [EventNext /\ NoReuseMidDelete]_eventVars PROVE Gone'
      OBVIOUS
    <2>1. CASE UNCHANGED eventVars
      BY <2>1 DEF eventVars, At
    <2>2. ASSUME EventNext, NoReuseMidDelete PROVE Gone'
      <3>0. job \in [Jobs -> Job] /\ pretix \in Pretix
        BY DEF IInv, JobsOK, StoresOK
      <3>1. CASE PretixFlips
        BY <3>0, <3>1 DEF PretixFlips, At, Pretix
      <3>2. ASSUME NEW j \in Jobs, CreateEvent(j) PROVE Gone'
        <4>1. PICK live \in BOOLEAN :
                 /\ pretix' = NewEvent(live)
                 /\ job' = [job EXCEPT ![j] = [IdleJob EXCEPT !.at = "mapping", !.live = live]]
          BY <3>2 DEF CreateEvent
        <4>2. pretix'.birth > pretix.birth
          BY <3>0, <4>1 DEF NewEvent, Pretix
        <4>3. \A k \in Jobs : job[k].at # "deleteMapping"
          BY <2>2, <4>2 DEF NoReuseMidDelete, Deleting
        <4>4. [IdleJob EXCEPT !.at = "mapping", !.live = live].at = "mapping"
          BY DEF IdleJob
        <4>. QED
          BY <3>0, <4>1, <4>3, <4>4 DEF At
      <3>3. ASSUME NEW j \in Jobs, DeletePretix(j) PROVE Gone'
        <4>1. pretix'.there => ~At(j, "deleteMapping")' /\ pretix.there
          BY <3>0, <3>3 DEF DeletePretix, Tolerated, Deletable, Deleted, Goto, End, IdleJob, At, Pretix, Job
        <4>2. \A k \in Jobs \ {j} : job'[k] = job[k]
          BY <3>0, <3>3 DEF DeletePretix, Goto, End
        <4>. QED
          BY <4>1, <4>2 DEF At
      <3>4. ASSUME NEW j \in Jobs, pretix'.there => pretix.there,
                   \A k \in Jobs \ {j} : job'[k] = job[k], ~At(j, "deleteMapping")'
            PROVE  Gone'
        BY <3>4 DEF At
      <3>5. ASSUME NEW j \in Jobs, NEW at \in Stages \ {"deleteMapping"}, Goto(j, at) \/ End(j),
                   pretix'.there => pretix.there
            PROVE  Gone'
        <4>1. /\ \A k \in Jobs \ {j} : job'[k] = job[k]
              /\ job'[j].at = at \/ job'[j].at = "idle"
          BY <3>0, <3>5, IdleIs DEF Goto, End, Job
        <4>. QED
          BY <3>4, <3>5, <4>1 DEF At
      <3>6. ASSUME NEW j \in Jobs, NEW at \in Stages \ {"deleteMapping"}, NEW r \in Job,
                   Begin(j, at, r)
            PROVE  Gone'
        <4>1. [r EXCEPT !.at = at, !.read = mapping].at = at
          BY DEF Job
        <4>2. /\ pretix' = pretix /\ job' = [job EXCEPT ![j] = [r EXCEPT !.at = at, !.read = mapping]]
          BY <3>6 DEF Begin
        <4>3. (\A k \in Jobs \ {j} : job'[k] = job[k]) /\ job'[j].at = at
          BY <3>0, <4>1, <4>2
        <4>. QED
          BY <3>4, <4>2, <4>3 DEF At
      <3>7. /\ {"audit", "rollback", "patch", "local", "ask", "mirror", "save", "swap", "unlink",
                "count", "deletePretix", "order", "row"} \subseteq Stages \ {"deleteMapping"}
            /\ IdleJob \in Job /\ \A live \in BOOLEAN : [IdleJob EXCEPT !.live = live] \in Job
            /\ [IdleJob EXCEPT !.birth = pretix.birth] \in Job
        BY <3>0, IdleIs DEF Stages, Job, Pretix
      <3>8. ASSUME NEW j \in Jobs,
                   \/ InsertMapping(j) \/ CreateAudited(j) \/ CreateFails(j) \/ RollBack(j)
                   \/ WriteLocal(j) \/ Mirror(j) \/ SwapCover(j) \/ Unlink(j)
                   \/ CountRows(j) \/ DeleteMapping(j) \/ InsertRow(j) \/ GiveUp(j)
            PROVE  Gone'
        <4>1. pretix'.there => pretix.there
          BY <3>0, <3>8 DEF InsertMapping, CreateAudited, CreateFails, RollBack, WriteLocal, Mirror,
               SwapCover, Unlink, CountRows, DeleteMapping, InsertRow, GiveUp, Deleted, Pretix
        <4>2. \/ Goto(j, "audit") \/ Goto(j, "rollback") \/ Goto(j, "unlink")
              \/ Goto(j, "deletePretix") \/ End(j)
          BY <3>8 DEF InsertMapping, CreateAudited, CreateFails, RollBack, WriteLocal, Mirror,
               SwapCover, Unlink, CountRows, DeleteMapping, InsertRow, GiveUp
        <4>. QED
          BY <3>5, <3>7, <4>1, <4>2
      <3>9. ASSUME NEW j \in Jobs, PatchPretix(j) PROVE Gone'
        <4>1. pretix'.there => pretix.there
          BY <3>0, <3>9 DEF PatchPretix, Patched, Pretix
        <4>2. Goto(j, "local") \/ End(j)
          BY <3>9 DEF PatchPretix
        <4>. QED
          BY <3>5, <3>7, <4>1, <4>2
      <3>10. ASSUME NEW j \in Jobs,
                    \/ UpdateEvent(j) \/ LiveHook(j) \/ SetCover(j) \/ RemoveCover(j)
                    \/ DeleteEvent(j) \/ Register(j)
             PROVE  Gone'
        BY <3>6, <3>7, <3>10 DEF UpdateEvent, LiveHook, SetCover, RemoveCover, DeleteEvent, Register
      <3>11. ASSUME NEW j \in Jobs, AskPretix(j) \/ SaveFile(j) \/ PlaceOrder(j)
             PROVE  Gone'
        <4>1. pretix'.there => pretix.there
          BY <3>0, <3>11 DEF AskPretix, SaveFile, PlaceOrder, Pretix
        <4>2. /\ \A k \in Jobs \ {j} : job'[k] = job[k]
              /\ job'[j].at \in {"mirror", "swap", "row", "idle"}
          <5>1. CASE End(j)
            BY <3>0, <5>1, IdleIs DEF End
          <5>2. CASE AskPretix(j) /\ ~End(j)
            BY <3>0, <5>2 DEF AskPretix, Job
          <5>3. CASE SaveFile(j)
            BY <3>0, <5>3 DEF SaveFile, Job
          <5>4. CASE PlaceOrder(j) /\ ~End(j)
            <6>1. PICK o \in Orders : job' = [job EXCEPT ![j].file = o, ![j].at = "row"]
              BY <5>4 DEF PlaceOrder
            <6>. QED
              BY <3>0, <6>1 DEF Job
          <5>. QED
            BY <3>11, <5>1, <5>2, <5>3, <5>4
        <4>. QED
          BY <3>4, <4>1, <4>2 DEF At
      <3>. QED
        BY <2>2, <3>1, <3>2, <3>3, <3>8, <3>9, <3>10, <3>11 DEF EventNext
    <2>. QED
      BY <2>1, <2>2
  <1>3. IInv /\ Gone /\ [EventNext /\ NoReuseMidDelete]_eventVars =>
           [\A r \in rows \ rows' : ~(pretix.there /\ r.order \in pretix.orders)]_eventVars
    <2>. SUFFICES ASSUME IInv, Gone, EventNext, rows \ rows' # {}
                  PROVE  ~pretix.there
      BY DEF eventVars
    <2>1. PICK j \in Jobs : DeleteMapping(j)
      BY DEF EventNext, PretixFlips, CreateEvent, InsertMapping, CreateAudited, CreateFails, RollBack,
             UpdateEvent, Begin, PatchPretix, WriteLocal, LiveHook, AskPretix, Mirror, SetCover,
             SaveFile, RemoveCover, SwapCover, Unlink, DeleteEvent, CountRows, DeletePretix,
             Register, PlaceOrder, InsertRow, GiveUp
    <2>. QED
      BY <2>1 DEF DeleteMapping
  <1>. QED
    <2>1. EventInit /\ [][EventNext /\ NoReuseMidDelete]_eventVars => []IInv
      <3>1. [EventNext /\ NoReuseMidDelete]_eventVars => [EventNext]_eventVars
        OBVIOUS
      <3>. QED
        BY <3>1, InitInv, InvStep, PTL
    <2>. QED
      BY <1>1, <1>2, <1>3, <2>1, PTL DEF NoRegistrationDestroyed

=============================================================================
