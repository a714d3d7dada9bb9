--------------------------- MODULE ScanOutcomeProofs ---------------------------
(***************************************************************************)
(* What the checkpoints of a scan that is not resumed mean, for any number *)
(* of actors, processes, objects, remote jobs, requests, polls and         *)
(* crashes: downloaded files are there, counts are complete, and COMPLETED *)
(* is published.                                                           *)
(*                                                                         *)
(* Without a resume one task works on the scan, and what it may rely on is *)
(* clear at each of its places (Task).  Any number of normalize requests   *)
(* run beside it and beside one another; each knows that the extraction is *)
(* over and how far it has come itself (Publishes), whatever the others    *)
(* wrote in between.  A copy of the row may be stale, but never ahead of   *)
(* the row (Stale).                                                        *)
(***************************************************************************)
EXTENDS ScanPipelineProofs

NoResume == "resume" \notin Requests

-----------------------------------------------------------------------------
(* The stages of the task *)

Submitted == {"mark_processing", "submit_heartbeat", "poll", "begin_check", "check_jobs",
              "store_poll", "poll_heartbeat", "judge_poll", "sleep", "mark_ready",
              "mark_downloading", "hold_for_download"}

Loading == {"next_download", "download", "download_heartbeat"}

Loaded == {"store_download", "mark_downloaded", "mark_extracting", "read_files"}

TaskPlaces == Fresh \cup {"create_jobs", "store_jobs"} \cup Submitted \cup Loading
                \cup Loaded \cup {"store_extraction", "mark_extracted"}

(* The stages of a normalize request *)

Listing == {"mark_normalizing", "normalize_heartbeat", "list_files"}

Reading == {"make_tables", "table_heartbeat"}

Having == {"mark_normalized", "check_normalized", "stamp_normalized", "choose_upload",
           "mark_uploading", "upload_heartbeat", "upload"}

Sent == {"mark_uploaded", "check_uploaded", "stamp_uploaded", "uploaded_heartbeat",
         "mark_completed"}

Publishing == Listing \cup Reading \cup Having \cup Sent

-----------------------------------------------------------------------------
(* The invariant.  Its parts are about an actor state x, the row r, the    *)
(* files fs, the object store mn and w, whether the directory was removed. *)

Have(fs, items) == \A item \in items : fs[item[1]] = item[2]

Disk(fs) == {o \in Objects : fs[o] # NoRow}

Unread(r) == r.ids # {} /\ ~r.extracted /\ r.counts = {}

Waiting(r) == ~r.downloaded /\ Unread(r)

Blank(r) == r.ids = {} /\ ~r.downloaded /\ ~r.extracted /\ r.counts = {}

(* The copy c agrees with the row on what only the task writes.            *)
Agrees(c, r) ==
  /\ c.ids = r.ids
  /\ c.downloaded <=> r.downloaded
  /\ c.extracted <=> r.extracted
  /\ c.counts = r.counts

OwnCopy(x, r) == x.copy # NoRow => Agrees(x.copy, r)

(* What the task may rely on where it is. *)
Stage(x, r, fs, w) ==
  /\ x.place \in Fresh \cup {"create_jobs"} => Blank(r)
  /\ x.place = "store_jobs" => IF x.phase = "refresh" THEN Waiting(r) ELSE Blank(r)
  /\ x.place \in Submitted => Waiting(r)
  /\ x.place \in Loading =>
       Waiting(r) /\ x.items \subseteq r.ids /\ (~w => Have(fs, r.ids \ x.items))
  /\ x.place \in Loaded => Unread(r) /\ (~w => Have(fs, r.ids))
  /\ x.place = "store_extraction" =>
       IF x.phase = "refresh" THEN r.extracted
       ELSE Unread(r) /\ (~w => Wanted \subseteq x.found /\ x.found \subseteq Disk(fs))
  /\ x.place = "mark_extracted" => r.extracted

Task(x, r, fs, w) ==
  x.place \in TaskPlaces /\ r # NoRow => OwnCopy(x, r) /\ Stage(x, r, fs, w)

(* Statuses that stand for an extracted and for a normalized scan.         *)
ExtractedOn == {"EXTRACTED", "NORMALIZING", "NORMALIZED", "UPLOADING_TO_MINIO",
                "UPLOADED_TO_MINIO", "COMPLETED"}

Late == {"UPLOADING_TO_MINIO", "UPLOADED_TO_MINIO", "COMPLETED"}

(* The copy is about to go on from NORMALIZED. *)
Leaves(x) ==
  \/ x.place = "choose_upload"
  \/ x.place = "mark_uploading" /\ x.phase # "refresh"

Publishes(x, r, mn, w) ==
  x.place \in Publishing /\ r # NoRow =>
    /\ r.extracted
    /\ x.place \in Reading => (~w => r.counts \subseteq x.found \cup x.chosen)
    /\ x.place \in Having => (~w => r.counts \subseteq x.found)
    /\ x.place \in Sent => (~w => r.counts \subseteq mn)
    /\ Leaves(x) /\ x.copy.status = "NORMALIZED" => r.normalized
    /\ x.place = "stamp_normalized" /\ x.phase = "refresh" => r.normalized

(* A copy is not ahead of the row. *)
Stale(x, r) ==
  x.copy # NoRow /\ r # NoRow =>
    /\ x.copy.normalized => r.normalized
    /\ x.copy.status \in Late => r.normalized

(* Without a resume there is nothing to re-enter; a handler keeps its      *)
(* copy; and a status is written on a copy that allows it.                 *)
Path(x) ==
  /\ x.place # "reenter_extracting"
  /\ x.place = "configure" => x.plan = "submit"
  /\ x.place \in Publishing => x.attached /\ x.copy # NoRow
  /\ x.phase = "commit" /\ x.place \in StatusPlaces =>
       IsValidTransition(x.copy.status, StatusAt[x.place])

RowSound(r, fs, mn, w) ==
  r # NoRow =>
    /\ r.downloaded => (~w => Have(fs, r.ids))
    /\ ~w => r.counts \subseteq Disk(fs)
    /\ r.extracted => (~w => Wanted \subseteq r.counts)
    /\ r.status \in ExtractedOn => r.extracted
    /\ r.status \in Late => r.normalized
    /\ r.status = "COMPLETED" => (~w => r.counts \subseteq mn)

(* All that is said of one actor. *)
Fits(x, r, fs, mn, w) ==
  Path(x) /\ Task(x, r, fs, w) /\ Publishes(x, r, mn, w) /\ Stale(x, r)

OneTask ==
  /\ \A a, b \in Actors : act[a].place \in TaskPlaces /\ act[b].place \in TaskPlaces => a = b
  /\ ~started => \A a \in Actors : act[a] = Idle

OInv ==
  /\ SInv
  /\ OneTask
  /\ \A a \in Actors : Fits(act[a], row, files, minio, wiped)
  /\ RowSound(row, files, minio, wiped)

-----------------------------------------------------------------------------
(* The stages apart *)

LEMMA StagesApart ==
  /\ \A p \in Fresh : p \notin {"create_jobs", "store_jobs", "store_extraction", "mark_extracted"}
                      /\ p \notin Submitted /\ p \notin Loading /\ p \notin Loaded
  /\ \A p \in Submitted : p \notin {"create_jobs", "store_jobs", "store_extraction", "mark_extracted"}
                      /\ p \notin Fresh /\ p \notin Loading /\ p \notin Loaded
  /\ \A p \in Loading : p \notin {"create_jobs", "store_jobs", "store_extraction", "mark_extracted"}
                      /\ p \notin Fresh /\ p \notin Submitted /\ p \notin Loaded
  /\ \A p \in Loaded : p \notin {"create_jobs", "store_jobs", "store_extraction", "mark_extracted"}
                      /\ p \notin Fresh /\ p \notin Submitted /\ p \notin Loading
  /\ \A p \in {"create_jobs", "store_jobs", "store_extraction", "mark_extracted"} :
       p \notin Fresh /\ p \notin Submitted /\ p \notin Loading /\ p \notin Loaded
BY DEF Fresh, Submitted, Loading, Loaded

LEMMA PublishingApart ==
  /\ \A p \in Listing : p \notin Reading /\ p \notin Having /\ p \notin Sent /\ p # "choose_upload"
                        /\ p # "mark_uploading" /\ p # "stamp_normalized"
  /\ \A p \in Reading : p \notin Listing /\ p \notin Having /\ p \notin Sent /\ p # "choose_upload"
                        /\ p # "mark_uploading" /\ p # "stamp_normalized"
  /\ \A p \in Having : p \notin Listing /\ p \notin Reading /\ p \notin Sent
  /\ \A p \in Sent : p \notin Listing /\ p \notin Reading /\ p \notin Having /\ p # "choose_upload"
                        /\ p # "mark_uploading" /\ p # "stamp_normalized"
BY DEF Listing, Reading, Having, Sent

LEMMA TaskIsNoHandler ==
  /\ \A p \in TaskPlaces : p \notin Publishing /\ p # "idle" /\ p # "fail" /\ p # "cancel"
                           /\ p # "crash" /\ p # "delete_files" /\ p # "delete_row"
                           /\ p # "reenter_extracting" /\ p # "resume" /\ p # "spawn"
  /\ \A p \in Publishing : p \notin TaskPlaces /\ p # "idle" /\ p # "fail" /\ p # "configure"
                           /\ p # "reenter_extracting"
<1>1. \A p \in Fresh \cup {"create_jobs", "store_jobs"} :
        p \notin Publishing /\ p # "idle" /\ p # "fail" /\ p # "cancel"
        /\ p # "crash" /\ p # "delete_files" /\ p # "delete_row"
        /\ p # "reenter_extracting" /\ p # "resume" /\ p # "spawn"
  BY DEF Fresh, Publishing, Listing, Reading, Having, Sent
<1>2. \A p \in Submitted :
        p \notin Publishing /\ p # "idle" /\ p # "fail" /\ p # "cancel"
        /\ p # "crash" /\ p # "delete_files" /\ p # "delete_row"
        /\ p # "reenter_extracting" /\ p # "resume" /\ p # "spawn"
  BY DEF Submitted, Publishing, Listing, Reading, Having, Sent
<1>3. \A p \in Loading \cup Loaded \cup {"store_extraction", "mark_extracted"} :
        p \notin Publishing /\ p # "idle" /\ p # "fail" /\ p # "cancel"
        /\ p # "crash" /\ p # "delete_files" /\ p # "delete_row"
        /\ p # "reenter_extracting" /\ p # "resume" /\ p # "spawn"
  BY DEF Loading, Loaded, Publishing, Listing, Reading, Having, Sent
<1>4. \A p \in Publishing : p # "idle" /\ p # "fail" /\ p # "configure" /\ p # "reenter_extracting"
  BY DEF Publishing, Listing, Reading, Having, Sent
<1>5. QED
  BY <1>1, <1>2, <1>3, <1>4 DEF TaskPlaces

-----------------------------------------------------------------------------
(* What the steps of the others leave *)

(* The row is gone, or a task that relies on it still may.                 *)
Still(r, s) == s = NoRow \/ (r # NoRow /\ Agrees(s, r))

(* The row is gone, or what was extracted and normalized still is.         *)
Forward(r, s) ==
  s = NoRow \/ /\ r # NoRow
               /\ r.normalized => s.normalized
               /\ r.extracted => s.extracted /\ s.counts = r.counts

LEMMA StillForward ==
  ASSUME NEW r, NEW s, Still(r, s), r # NoRow => (r.normalized => s.normalized)
  PROVE  Forward(r, s)
BY DEF Still, Forward, Agrees

LEMMA TaskUndisturbed ==
  ASSUME NEW x, NEW r, NEW s, NEW fs, NEW gs, NEW w, NEW v,
         Task(x, r, fs, w), Still(r, s), ~v => ~w /\ gs = fs
  PROVE  Task(x, s, gs, v)
BY DEF Task, Stage, Still, Agrees, OwnCopy, Blank, Waiting, Unread, Have, Disk

LEMMA PublishesUndisturbed ==
  ASSUME NEW x, NEW r, NEW s, NEW mn, NEW nn, NEW w, NEW v,
         Publishes(x, r, mn, w), Forward(r, s), ~v => ~w, mn \subseteq nn
  PROVE  Publishes(x, s, nn, v)
BY DEF Publishes, Forward

LEMMA StaleUndisturbed ==
  ASSUME NEW x, NEW r, NEW s, Stale(x, r), Forward(r, s)
  PROVE  Stale(x, s)
BY DEF Stale, Forward

LEMMA SameRowForward == ASSUME NEW r PROVE Still(r, r) /\ Forward(r, r)
BY DEF Still, Forward, Agrees

LEMMA IdleFits == ASSUME NEW r, NEW fs, NEW mn, NEW w PROVE Fits(Idle, r, fs, mn, w)
<1>1. Idle.place = "idle" /\ Idle.copy = NoRow /\ Idle.phase = "read"
  BY IdleTyped
<1>2. Idle.place \notin TaskPlaces /\ Idle.place \notin Publishing
  BY <1>1, TaskIsNoHandler
<1>3. QED
  BY <1>1, <1>2 DEF Fits, Path, Task, Publishes, Stale

(* A step of actor a, which is y afterwards, for the invariant.            *)
LEMMA ActorStep ==
  ASSUME OInv, SInv', NEW a \in Actors, NEW y, act' = [act EXCEPT ![a] = y],
         started, started',
         Fits(y, row', files', minio', wiped'),
         RowSound(row', files', minio', wiped'),
         y.place \in TaskPlaces => act[a].place \in TaskPlaces,
         Forward(row, row'),
         act[a].place \in TaskPlaces \/ (Still(row, row') /\ (~wiped' => files' = files)),
         ~wiped' => ~wiped, minio \subseteq minio'
  PROVE  OInv'
<1>1. act'[a] = y /\ \A b \in Actors : b # a => act'[b] = act[b]
  BY DEF OInv, SInv, AllActors
<1>2. ASSUME NEW b \in Actors, b # a
      PROVE  Fits(act[b], row', files', minio', wiped')
  <2>1. Fits(act[b], row, files, minio, wiped)
    BY DEF OInv
  <2>2. Publishes(act[b], row', minio', wiped') /\ Stale(act[b], row')
    BY <2>1, PublishesUndisturbed, StaleUndisturbed DEF Fits
  <2>3. Task(act[b], row', files', wiped')
    <3>1. CASE act[a].place \in TaskPlaces
      <4>1. act[b].place \notin TaskPlaces
        BY <1>2, <3>1 DEF OInv, OneTask
      <4>2. QED
        BY <4>1 DEF Task
    <3>2. CASE Still(row, row') /\ (~wiped' => files' = files)
      BY <2>1, <3>2, TaskUndisturbed DEF Fits
    <3>3. QED
      BY <3>1, <3>2
  <2>4. QED
    BY <2>1, <2>2, <2>3 DEF Fits
<1>3. \A b \in Actors : Fits(act'[b], row', files', minio', wiped')
  BY <1>1, <1>2
<1>4. OneTask'
  BY <1>1 DEF OInv, OneTask
<1>5. QED
  BY <1>3, <1>4 DEF OInv

(* The files and the row stay; a table may reach the object store.         *)
LEMMA LocalStep ==
  ASSUME OInv, SInv', NEW a \in Actors, NEW y, act' = [act EXCEPT ![a] = y],
         started, UNCHANGED <<row, files, started, wiped>>, minio \subseteq minio',
         Fits(y, row, files, minio', wiped),
         y.place \in TaskPlaces => act[a].place \in TaskPlaces
  PROVE  OInv'
<1>1. RowSound(row, files, minio', wiped)
  BY DEF OInv, RowSound
<1>2. Still(row, row) /\ Forward(row, row)
  BY SameRowForward
<1>3. QED
  BY <1>1, <1>2, ActorStep

(* An actor that is doing something was started. *)
LEMMA BusyStarted ==
  ASSUME OInv, NEW a \in Actors, act[a].place # "idle"
  PROVE  started
BY IdleTyped DEF OInv, OneTask

LEMMA ActorFits ==
  ASSUME OInv, NEW a \in Actors
  PROVE  /\ act[a] \in ActorState /\ Actor(act[a])
         /\ Fits(act[a], row, files, minio, wiped)
         /\ act[a].place # "idle" => started
BY BusyStarted, ActorIs DEF OInv

(* An actor that is through, or gives up. *)
LEMMA EndStep ==
  ASSUME OInv, SInv', NEW a \in Actors, act[a].place # "idle", End(a),
         UNCHANGED <<row, files, started, wiped>>, minio' = minio
  PROVE  OInv'
<1>1. Idle.place \notin TaskPlaces
  BY IdleTyped, TaskIsNoHandler
<1>2. QED
  BY <1>1, IdleFits, BusyStarted, LocalStep DEF End

-----------------------------------------------------------------------------
(* What a move keeps *)

(* The copy after a local step is the one before, none, or a fresh one.    *)
LEMMA CopyKept ==
  ASSUME NEW x, NEW y, NEW r, y.copy \in {x.copy, NoRow, r}
  PROVE  /\ OwnCopy(x, r) => OwnCopy(y, r)
         /\ Stale(x, r) /\ (r # NoRow => (r.status \in Late => r.normalized)) => Stale(y, r)
BY DEF OwnCopy, Agrees, Stale

LEMMA RowLate ==
  ASSUME OInv
  PROVE  row # NoRow => (row.status \in Late => row.normalized)
BY DEF OInv, RowSound

(* To a place that is neither of the task nor of a normalize request.      *)
LEMMA AsideFits ==
  ASSUME NEW x, NEW y, NEW r, NEW fs, NEW mn, NEW w, Stale(x, r),
         r # NoRow => (r.status \in Late => r.normalized),
         y.copy \in {x.copy, NoRow, r}, y.phase = "read",
         y.place \notin TaskPlaces, y.place \notin Publishing, y.place # "reenter_extracting"
  PROVE  Fits(y, r, fs, mn, w)
<1>1. Stale(y, r)
  BY CopyKept
<1>2. y.place # "configure"
  BY DEF TaskPlaces, Fresh
<1>3. QED
  BY <1>1, <1>2 DEF Fits, Path, Task, Publishes

(* The stage at each place. *)
LEMMA StageAt ==
  ASSUME NEW x, NEW r, NEW fs, NEW w
  PROVE  /\ x.place \in Fresh \cup {"create_jobs"} => (Stage(x, r, fs, w) <=> Blank(r))
         /\ x.place = "store_jobs" =>
              (Stage(x, r, fs, w) <=> IF x.phase = "refresh" THEN Waiting(r) ELSE Blank(r))
         /\ x.place \in Submitted => (Stage(x, r, fs, w) <=> Waiting(r))
         /\ x.place \in Loading =>
              (Stage(x, r, fs, w) <=>
                 Waiting(r) /\ x.items \subseteq r.ids /\ (~w => Have(fs, r.ids \ x.items)))
         /\ x.place \in Loaded => (Stage(x, r, fs, w) <=> Unread(r) /\ (~w => Have(fs, r.ids)))
         /\ x.place = "store_extraction" =>
              (Stage(x, r, fs, w) <=>
                 IF x.phase = "refresh" THEN r.extracted
                 ELSE Unread(r) /\ (~w => Wanted \subseteq x.found /\ x.found \subseteq Disk(fs)))
         /\ x.place = "mark_extracted" => (Stage(x, r, fs, w) <=> r.extracted)
<1>1. CASE x.place \in Fresh \cup {"create_jobs"}
  BY <1>1, StagesApart DEF Stage
<1>2. CASE x.place \in Submitted
  BY <1>2, StagesApart DEF Stage
<1>3. CASE x.place \in Loading
  BY <1>3, StagesApart DEF Stage
<1>4. CASE x.place \in Loaded
  BY <1>4, StagesApart DEF Stage
<1>5. CASE x.place \in {"store_jobs", "store_extraction", "mark_extracted"}
  BY <1>5, StagesApart DEF Stage
<1>6. QED
  BY <1>1, <1>2, <1>3, <1>4, <1>5

(* To a place of the task. *)
LEMMA TaskFits ==
  ASSUME NEW x, NEW y, NEW r, NEW fs, NEW mn, NEW w,
         x.place \in TaskPlaces, Task(x, r, fs, w), Stale(x, r),
         r # NoRow => (r.status \in Late => r.normalized),
         y.copy \in {x.copy, NoRow, r}, y.phase = "read", y.place \in TaskPlaces,
         y.place = "configure" => y.plan = "submit",
         NEW gs, r # NoRow => Stage(y, r, gs, w)
  PROVE  Fits(y, r, gs, mn, w)
<1>1. Stale(y, r) /\ (r # NoRow => OwnCopy(y, r))
  BY CopyKept DEF Task
<1>2. y.place \notin Publishing /\ y.place # "reenter_extracting"
  BY TaskIsNoHandler
<1>3. QED
  BY <1>1, <1>2 DEF Fits, Path, Task, Publishes

LEMMA AsideStep ==
  ASSUME OInv, SInv', NEW a \in Actors, act[a].place # "idle",
         NEW z \in ActorState, z.copy \in {act[a].copy, NoRow, row},
         NEW p \in {"fail", "delete_row"}, act' = [act EXCEPT ![a] = Moved(z, p)],
         UNCHANGED <<row, files, started, wiped>>, minio \subseteq minio'
  PROVE  OInv'
<1> DEFINE y == Moved(z, p)
<1>1. p \in Places /\ p # "idle"
  BY PlainPlaces DEF Plain
<1>2. y.place = p /\ y.phase = "read" /\ y.copy \in {act[a].copy, NoRow, row}
  BY <1>1, MovedFields
<1> HIDE DEF y
<1>3. y.place \notin TaskPlaces /\ y.place \notin Publishing /\ y.place # "reenter_extracting"
  BY <1>2, TaskIsNoHandler DEF Publishing, Listing, Reading, Having, Sent
<1>4. Fits(y, row, files, minio', wiped)
  BY <1>2, <1>3, ActorFits, RowLate, AsideFits DEF Fits
<1>5. QED
  BY <1>3, <1>4, ActorFits, LocalStep DEF y

(* A local step of the task to its place p. *)
LEMMA TaskStep ==
  ASSUME OInv, SInv', NEW a \in Actors, act[a].place \in TaskPlaces,
         NEW z \in ActorState, z.copy \in {act[a].copy, NoRow, row},
         NEW p \in Places, p \in TaskPlaces, act' = [act EXCEPT ![a] = Moved(z, p)],
         p = "configure" => z.plan = "submit",
         \A y : y.place = p /\ y.phase = "read" /\ y.items = z.items /\ y.found = z.found
                  /\ row # NoRow => Stage(y, row, files, wiped),
         UNCHANGED <<row, files, minio, started, wiped>>
  PROVE  OInv'
<1> DEFINE y == Moved(z, p)
<1>1. p # "idle" /\ act[a].place # "idle"
  BY TaskIsNoHandler
<1>2. /\ y.place = p /\ y.phase = "read" /\ y.copy \in {act[a].copy, NoRow, row}
      /\ y.plan = z.plan /\ y.items = z.items /\ y.found = z.found
  BY <1>1, MovedFields
<1> HIDE DEF y
<1>3. row # NoRow => Stage(y, row, files, wiped)
  BY <1>2
<1>4. Fits(y, row, files, minio, wiped)
  BY <1>2, <1>3, ActorFits, RowLate, TaskFits DEF Fits
<1>5. QED
  BY <1>1, <1>4, ActorFits, LocalStep DEF y

-----------------------------------------------------------------------------
(* The task between its calls *)

(* Which places are of the task. *)
LEMMA TaskHas ==
  /\ Fresh \subseteq TaskPlaces /\ Submitted \subseteq TaskPlaces
  /\ Loading \subseteq TaskPlaces /\ Loaded \subseteq TaskPlaces
  /\ {"create_jobs", "store_jobs", "store_extraction", "mark_extracted"} \subseteq TaskPlaces
BY DEF TaskPlaces

LEMMA StageNow ==
  ASSUME OInv, NEW a \in Actors, act[a].place \in TaskPlaces, row # NoRow
  PROVE  Stage(act[a], row, files, wiped) /\ OwnCopy(act[a], row)
BY ActorFits DEF Fits, Task

LEMMA LoadNow ==
  ASSUME OInv, NEW a \in Actors, row # NoRow
  PROVE  LET x == act[a] IN
         /\ x.place \in Loading =>
              Waiting(row) /\ x.items \subseteq row.ids
                /\ (~wiped => Have(files, row.ids \ x.items))
         /\ x.place \in Loaded => Unread(row) /\ (~wiped => Have(files, row.ids))
<1>1. act[a].place \in Loading \cup Loaded => Stage(act[a], row, files, wiped)
  BY StageNow, TaskHas
<1>2. QED
  BY <1>1 DEF Stage

LEMMA BeginKeeps ==
  ASSUME OInv, SInv', NEW a \in Actors, Begin(a)
  PROVE  OInv'
<1> DEFINE x == act[a]
<1>1. x.place = "begin" /\ x.place \in Fresh /\ x \in ActorState
  BY ActorFits DEF Begin, At, Fresh
<1>2. UNCHANGED <<row, files, minio, started, wiped>>
  BY DEF Begin, Environment
<1>3. CASE End(a)
  BY <1>1, <1>2, <1>3, EndStep
<1>4. CASE ~End(a)
  <2> DEFINE plan == IF row.ids = {} THEN "submit"
                     ELSE IF row.downloaded THEN "reenter" ELSE "extract"
             z(t) == [x EXCEPT !.copy = row, !.attached = (t = "attached"), !.plan = plan]
  <2>1. PICK t \in Teardowns : row # NoRow /\ act' = [act EXCEPT ![a] = Moved(z(t), "configure")]
    BY <1>4 DEF Begin
  <2>2. Blank(row)
    BY <1>1, <2>1, StageNow, StageAt, TaskHas
  <2>3. plan = "submit"
    BY <2>2 DEF Blank
  <2> HIDE DEF plan
  <2>4. z(t) \in ActorState /\ z(t).copy = row /\ z(t).plan = "submit"
    BY <1>1, <2>1, <2>3 DEF ActorState, OInv, SInv, TypeOK
  <2>5. "configure" \in Fresh /\ "configure" \in Places
    BY PlacesAre DEF Awaiting, Fresh
  <2> HIDE DEF z
  <2>6. QED
    BY <1>1, <1>2, <2>1, <2>2, <2>4, <2>5, TaskStep, StageAt, TaskHas
<1>5. QED
  BY <1>3, <1>4

LEMMA ConfigureKeeps ==
  ASSUME OInv, SInv', NEW a \in Actors, Configure(a)
  PROVE  OInv'
<1> DEFINE x == act[a]
<1>1. x.place = "configure" /\ x.place \in Fresh /\ x \in ActorState
  BY ActorFits DEF Configure, At, Fresh
<1>2. x.plan = "submit"
  BY <1>1, ActorFits DEF Fits, Path
<1>3. PlanStart["submit"] = "mark_requested"
  BY DEF PlanStart
<1>4. act' = [act EXCEPT ![a] = Moved(x, "mark_requested")]
      /\ UNCHANGED <<row, files, minio, started, wiped>>
  BY <1>2, <1>3 DEF Configure, Goto, Environment
<1>5. row # NoRow => Blank(row)
  BY <1>1, StageNow, StageAt, TaskHas
<1>6. "mark_requested" \in Fresh /\ "mark_requested" \in Places
  BY PlacesAre, CallPlacesIs DEF StatusPlaces, Fresh
<1>7. QED
  BY <1>1, <1>4, <1>5, <1>6, TaskStep, StageAt, TaskHas

LEMMA GetJobIs ==
  ASSUME OInv, NEW a \in Actors
  PROVE  GetJob(act[a]) \in {act[a].copy, row} /\ GetJob(act[a]) \in Row \cup {NoRow}
BY ActorFits DEF GetJob, ActorState, OInv, SInv, TypeOK

LEMMA HoldForSubmitKeeps ==
  ASSUME OInv, SInv', NEW a \in Actors, HoldForSubmit(a)
  PROVE  OInv'
<1> DEFINE x == act[a]
           z == [x EXCEPT !.copy = GetJob(x)]
<1>1. x.place = "hold_for_submit" /\ x.place \in Fresh /\ x \in ActorState
  BY ActorFits DEF HoldForSubmit, At, Fresh
<1> DEFINE p == NextCreate(x.chosen)
<1>2. act' = [act EXCEPT ![a] = Moved(z, p)]
      /\ UNCHANGED <<row, files, minio, started, wiped>>
  BY DEF HoldForSubmit, Environment
<1>3. z \in ActorState /\ z.copy = GetJob(x)
  BY <1>1, GetJobIs DEF ActorState
<1>4. row # NoRow => Blank(row)
  BY <1>1, StageNow, StageAt, TaskHas
<1>5. p \in {"create_jobs", "fail"} /\ p \in Places
  BY <1>1, ActorFits, NextCreatePlaces DEF Actor, Shape
<1> HIDE DEF z, p
<1>6. CASE p = "create_jobs"
  BY <1>1, <1>2, <1>3, <1>4, <1>5, <1>6, GetJobIs, TaskStep, StageAt, TaskHas
<1>7. CASE p = "fail"
  BY <1>1, <1>2, <1>3, <1>7, GetJobIs, AsideStep
<1>8. QED
  BY <1>5, <1>6, <1>7

LEMMA CreateJobKeeps ==
  ASSUME OInv, SInv', NEW a \in Actors, CreateJob(a)
  PROVE  OInv'
<1> DEFINE x == act[a]
           o == CHOOSE o \in x.chosen : TRUE
           z(j) == [x EXCEPT !.chosen = @ \ {o}, !.items = @ \cup {<<o, j>>}]
           p == NextCreate(x.chosen \ {o})
<1>1. x.place = "create_jobs" /\ x.place \in TaskPlaces /\ x \in ActorState /\ Actor(x)
  BY ActorFits, TaskHas DEF CreateJob, At
<1>2. x.chosen # {} /\ x.chosen \in SUBSET Objects /\ x.items \in SUBSET Items
  BY <1>1 DEF Actor, Shape, ActorState
<1>3. o \in Objects
  BY <1>2
<1>4. PICK j \in Handed(x) : act' = [act EXCEPT ![a] = Moved(z(j), p)]
  BY DEF CreateJob
<1>5. UNCHANGED <<row, files, minio, started, wiped>>
  BY DEF CreateJob
<1>6. j \in RemoteJobs
  BY <1>2 DEF Handed, OInv, SInv, TypeOK, Items
<1> HIDE DEF o
<1>7. x.items \cup {<<o, j>>} \in SUBSET Items
  BY <1>2, <1>3, <1>6 DEF Items
<1>8. z(j) \in ActorState /\ z(j).copy = x.copy
  BY <1>1, <1>2, <1>7 DEF ActorState
<1>9. p \in {"store_jobs", "create_jobs", "fail"} /\ p \in Places
  BY NextCreatePlaces
<1> HIDE DEF z, p
<1>10. row # NoRow => Blank(row)
  BY <1>1, StageNow, StageAt
<1>11. CASE p = "fail"
  BY <1>1, <1>4, <1>5, <1>8, <1>11, AsideStep
<1>12. CASE p \in {"store_jobs", "create_jobs"}
  <2>1. p \in TaskPlaces /\ p # "configure"
    BY <1>12, TaskHas
  <2>2. ASSUME NEW y, y.place = p, y.phase = "read", row # NoRow
        PROVE  Stage(y, row, files, wiped)
    BY <1>10, <1>12, <2>2, StageAt
  <2>3. QED
    BY <1>1, <1>4, <1>5, <1>8, <1>9, <2>1, <2>2, TaskStep
<1>13. QED
  BY <1>9, <1>11, <1>12

(* A move within the wait for the results. *)
LEMMA WaitingStep ==
  ASSUME OInv, SInv', NEW a \in Actors, act[a].place \in Submitted,
         NEW z \in ActorState, z.copy \in {act[a].copy, NoRow, row},
         NEW p \in Submitted, act' = [act EXCEPT ![a] = Moved(z, p)],
         UNCHANGED <<row, files, minio, started, wiped>>
  PROVE  OInv'
<1>1. row # NoRow => Waiting(row)
  BY StageNow, StageAt, TaskHas
<1>2. p \in Places
  BY PlacesAre, CallPlacesIs DEF Submitted, StatusPlaces, OtherCalls, Awaiting, LocalPlaces
<1>3. p # "configure"
  BY StagesApart DEF Fresh
<1>4. QED
  BY <1>1, <1>2, <1>3, TaskStep, StageAt, TaskHas

LEMMA WaitingKeeps ==
  ASSUME OInv, SInv', NEW a \in Actors,
         Poll(a) \/ BeginCheck(a) \/ CheckJobs(a) \/ JudgePoll(a) \/ Wake(a)
  PROVE  OInv'
<1> DEFINE x == act[a]
<1>1. x.place \in Submitted /\ x.place # "idle" /\ x \in ActorState /\ x.polls \in Nat
  BY ActorFits DEF Poll, BeginCheck, CheckJobs, JudgePoll, Wake, At, Submitted, ActorState
<1>2. UNCHANGED <<row, files, minio, started, wiped>>
  BY DEF Poll, BeginCheck, CheckJobs, JudgePoll, Wake, Environment
<1>3. {"begin_check", "check_jobs", "store_poll", "mark_ready", "sleep", "poll"} \subseteq Submitted
  BY DEF Submitted
<1>4. CASE Goto(a, "fail")
  BY <1>1, <1>2, <1>4, AsideStep DEF Goto
<1>5. CASE Poll(a) /\ ~Goto(a, "fail")
  <2>1. [x EXCEPT !.polls = @ + 1] \in ActorState /\ [x EXCEPT !.polls = @ + 1].copy = x.copy
    BY <1>1 DEF ActorState
  <2>2. act' = [act EXCEPT ![a] = Moved([x EXCEPT !.polls = @ + 1], "begin_check")]
    BY <1>5 DEF Poll
  <2>3. QED
    BY <1>1, <1>2, <1>3, <2>1, <2>2, WaitingStep
<1>6. CASE BeginCheck(a)
  <2>1. [x EXCEPT !.copy = GetJob(x)] \in ActorState /\ [x EXCEPT !.copy = GetJob(x)].copy = GetJob(x)
    BY <1>1, GetJobIs DEF ActorState
  <2>2. PICK p \in {"fail", "check_jobs"} :
          act' = [act EXCEPT ![a] = Moved([x EXCEPT !.copy = GetJob(x)], p)]
    BY <1>6 DEF BeginCheck
  <2>3. QED
    BY <1>1, <1>2, <1>3, <2>1, <2>2, GetJobIs, WaitingStep, AsideStep
<1>7. CASE CheckJobs(a)
  <2>1. \A v \in {"ready", "failed", "pending"} :
          [x EXCEPT !.plan = v] \in ActorState /\ [x EXCEPT !.plan = v].copy = x.copy
    BY <1>1 DEF ActorState
  <2>2. PICK v \in {"ready", "failed", "pending"} :
          act' = [act EXCEPT ![a] = Moved([x EXCEPT !.plan = v], "store_poll")]
    BY <1>7 DEF CheckJobs
  <2>3. QED
    BY <1>1, <1>2, <1>3, <2>1, <2>2, WaitingStep
<1>8. CASE (JudgePoll(a) \/ Wake(a)) /\ ~Goto(a, "fail")
  <2>1. PICK p \in {"mark_ready", "sleep", "poll"} : act' = [act EXCEPT ![a] = Moved(x, p)]
    BY <1>8 DEF JudgePoll, Wake, Goto
  <2>2. QED
    BY <1>1, <1>2, <1>3, <2>1, WaitingStep
<1>9. QED
  BY <1>4, <1>5, <1>6, <1>7, <1>8

-----------------------------------------------------------------------------
(* The files *)

LEMMA HoldForDownloadKeeps ==
  ASSUME OInv, SInv', NEW a \in Actors, HoldForDownload(a)
  PROVE  OInv'
<1> DEFINE x == act[a]
           c == GetJob(x)
           z == [x EXCEPT !.copy = c, !.items = c.ids]
<1>1. x.place = "hold_for_download" /\ x.place \in Submitted /\ x \in ActorState /\ x.place # "idle"
  BY ActorFits DEF HoldForDownload, At, Submitted
<1>2. UNCHANGED <<row, files, minio, started, wiped>>
  BY DEF HoldForDownload, Environment
<1>3. CASE c = NoRow
  <2>1. act' = [act EXCEPT ![a] = Moved(x, "fail")]
    BY <1>3 DEF HoldForDownload
  <2>2. QED
    BY <1>1, <1>2, <2>1, AsideStep
<1>4. CASE c # NoRow
  <2>1. act' = [act EXCEPT ![a] = Moved(z, "next_download")]
    BY <1>4 DEF HoldForDownload
  <2>2. c \in Row /\ c \in {x.copy, row}
    BY <1>4, GetJobIs
  <2>3. c.ids \in SUBSET Items
    BY <2>2 DEF Row
  <2>4. row # NoRow => Waiting(row) /\ OwnCopy(x, row)
    BY <1>1, StageNow, StageAt, TaskHas
  <2>5. row # NoRow => c.ids = row.ids
    BY <1>4, <2>2, <2>4 DEF OwnCopy, Agrees
  <2> HIDE DEF c
  <2>6. z \in ActorState /\ z.copy = c /\ z.items = c.ids
    BY <1>1, <2>2, <2>3 DEF ActorState
  <2>7. "next_download" \in Loading /\ "next_download" \in Places
    BY PlacesAre DEF LocalPlaces, Loading
  <2> HIDE DEF z
  <2>8. ASSUME NEW y, y.place = "next_download", y.items = z.items, row # NoRow
        PROVE  Stage(y, row, files, wiped)
    <3>1. y.items = row.ids /\ Have(files, row.ids \ y.items)
      BY <2>5, <2>6, <2>8 DEF Have
    <3>2. QED
      BY <2>4, <2>7, <2>8, <3>1, StageAt
  <2>9. QED
    BY <1>1, <1>2, <2>1, <2>2, <2>6, <2>7, <2>8, TaskStep, TaskHas
<1>5. QED
  BY <1>3, <1>4

LEMMA NextDownloadKeeps ==
  ASSUME OInv, SInv', NEW a \in Actors, NextDownload(a)
  PROVE  OInv'
<1> DEFINE x == act[a]
<1>1. x.place = "next_download" /\ x.place \in Loading /\ x \in ActorState
  BY ActorFits DEF NextDownload, At, Loading
<1>2. UNCHANGED <<row, files, minio, started, wiped>>
  BY DEF NextDownload, Environment
<1>3. row # NoRow => Waiting(row) /\ x.items \subseteq row.ids /\ (~wiped => Have(files, row.ids \ x.items))
  BY <1>1, LoadNow
<1>4. CASE x.items = {}
  <2>1. act' = [act EXCEPT ![a] = Moved(x, "store_download")]
    BY <1>4 DEF NextDownload, Goto
  <2>2. "store_download" \in Loaded /\ "store_download" \in Places
    BY PlacesAre, CallPlacesIs DEF OtherCalls, Loaded
  <2>3. row # NoRow => Unread(row) /\ (~wiped => Have(files, row.ids))
    BY <1>3, <1>4 DEF Waiting, Have
  <2>4. QED
    BY <1>1, <1>2, <2>1, <2>2, <2>3, TaskStep, StageAt, TaskHas
<1>5. CASE x.items # {}
  <2>1. act' = [act EXCEPT ![a] = Moved(x, "download")]
    BY <1>5 DEF NextDownload, Goto
  <2>2. "download" \in Loading /\ "download" \in Places
    BY PlacesAre DEF Awaiting, Loading
  <2>3. ASSUME NEW y, y.place = "download", y.items = x.items, row # NoRow
        PROVE  Stage(y, row, files, wiped)
    BY <1>3, <2>2, <2>3, StageAt
  <2>4. QED
    BY <1>1, <1>2, <2>1, <2>2, <2>3, TaskStep, TaskHas
<1>6. QED
  BY <1>4, <1>5

(* One result more is in the directory. *)
LEMMA OneMoreFile ==
  ASSUME NEW ids \in SUBSET Items, SameJob(ids), NEW items \in SUBSET ids,
         NEW i \in items, NEW fs \in [Objects -> RemoteJobs \cup {NoRow}],
         NEW w, ~w => Have(fs, ids \ items)
  PROVE  ~w => Have([fs EXCEPT ![i[1]] = i[2]], ids \ (items \ {i}))
<1> DEFINE gs == [fs EXCEPT ![i[1]] = i[2]]
<1>1. i[1] \in Objects
  BY DEF Items
<1> SUFFICES ASSUME ~w, NEW k \in ids \ (items \ {i}) PROVE gs[k[1]] = k[2]
  BY DEF Have
<1>2. k[1] \in Objects /\ k[2] = i[2]
  BY DEF Items, SameJob
<1>3. CASE k[1] = i[1]
  BY <1>1, <1>2, <1>3
<1>4. CASE k[1] # i[1]
  <2>1. k \in ids \ items
    BY <1>4
  <2>2. fs[k[1]] = k[2]
    BY <2>1 DEF Have
  <2>3. QED
    BY <1>2, <1>4, <2>2
<1>5. QED
  BY <1>3, <1>4

LEMMA DownloadKeeps ==
  ASSUME NoResume, OInv, SInv', NEW a \in Actors, Download(a)
  PROVE  OInv'
<1> DEFINE x == act[a]
           item == CHOOSE i \in x.items : TRUE
           z == [x EXCEPT !.items = @ \ {item}]
           y == Moved(z, "download_heartbeat")
<1>1. x.place = "download" /\ x.place \in Loading /\ x.place \in TaskPlaces /\ x \in ActorState
      /\ x.items \in SUBSET Items /\ x.items # {}
  BY ActorFits, TaskHas DEF Download, At, Loading, Actor, Shape, ActorState
<1>2. item \in x.items
  BY <1>1
<1> HIDE DEF item
<1>3. /\ files' = [files EXCEPT ![item[1]] = item[2]]
      /\ act' = [act EXCEPT ![a] = y]
      /\ UNCHANGED <<row, minio, started, wiped>>
  BY DEF Download, item, Environment
<1>4. z \in ActorState /\ z.items = x.items \ {item} /\ z.copy = x.copy
  BY <1>1 DEF ActorState
<1>5. "download_heartbeat" \in Loading /\ "download_heartbeat" \in Places
      /\ "download_heartbeat" \in TaskPlaces
  BY PlacesAre, CallPlacesIs, TaskHas DEF OtherCalls, Loading
<1> HIDE DEF z
<1>6. /\ y.place = "download_heartbeat" /\ y.phase = "read" /\ y.items = z.items
      /\ y.copy \in {x.copy, NoRow, row}
  BY <1>4, <1>5, MovedFields
<1> HIDE DEF y
<1>7. ASSUME row # NoRow
      PROVE  /\ Waiting(row) /\ x.items \subseteq row.ids
             /\ y.items \subseteq row.ids
             /\ ~wiped => Have(files', row.ids \ y.items)
  <2>1. Waiting(row) /\ x.items \subseteq row.ids /\ (~wiped => Have(files, row.ids \ x.items))
    BY <1>1, <1>7, LoadNow
  <2>2. row.ids \in SUBSET Items /\ files \in [Objects -> RemoteJobs \cup {NoRow}]
    BY <1>7 DEF OInv, SInv, TypeOK, Row
  <2>3. SameJob(row.ids)
    BY <1>7, <2>1 DEF OInv, SInv, RowCover, Covered, NoResume, Waiting, Unread
  <2>4. ~wiped => Have(files', row.ids \ (x.items \ {item}))
    BY <1>2, <1>3, <2>1, <2>2, <2>3, OneMoreFile
  <2>5. QED
    BY <1>4, <1>6, <2>1, <2>4
<1>8. row # NoRow => Stage(y, row, files', wiped)
  BY <1>5, <1>6, <1>7, StageAt
<1>9. Fits(y, row, files', minio, wiped)
  <2>1. Task(x, row, files, wiped) /\ Stale(x, row)
    BY ActorFits DEF Fits
  <2>2. y.place # "configure" /\ y.place \in TaskPlaces /\ y.phase = "read"
    BY <1>5, <1>6
  <2>3. QED
    BY <1>1, <1>6, <1>8, <2>1, <2>2, RowLate, TaskFits
<1>10. RowSound(row, files', minio, wiped)
  BY <1>7 DEF RowSound, Waiting, Unread, OInv
<1>11. started /\ Forward(row, row)
  BY <1>1, ActorFits, TaskIsNoHandler, SameRowForward
<1>12. QED
  BY <1>1, <1>3, <1>9, <1>10, <1>11, ActorStep

(* Downloaded results are files in the directory. *)
LEMMA HaveDisk ==
  ASSUME NEW ids \in SUBSET Items, NEW fs, Have(fs, ids)
  PROVE  ObjectsOf(ids) \subseteq Disk(fs)
<1> SUFFICES ASSUME NEW i \in ids PROVE i[1] \in Disk(fs)
  BY DEF ObjectsOf
<1>1. i[1] \in Objects /\ i[2] \in RemoteJobs /\ fs[i[1]] = i[2]
  BY DEF Items, Have
<1>2. QED
  BY <1>1, PipelineAssumption DEF Disk

LEMMA ReadFilesKeeps ==
  ASSUME NoResume, OInv, SInv', NEW a \in Actors, ReadFiles(a)
  PROVE  OInv'
<1> DEFINE x == act[a]
           z == [x EXCEPT !.found = OnDisk]
<1>1. x.place = "read_files" /\ x.place \in Loaded /\ x \in ActorState
  BY ActorFits DEF ReadFiles, At, Loaded
<1>2. act' = [act EXCEPT ![a] = Moved(z, "store_extraction")]
      /\ UNCHANGED <<row, files, minio, started, wiped>>
  BY DEF ReadFiles, Environment
<1>3. OnDisk \in SUBSET Objects /\ OnDisk = Disk(files)
  BY DEF OnDisk, Disk
<1>4. z \in ActorState /\ z.found = Disk(files) /\ z.copy = x.copy
  BY <1>1, <1>3 DEF ActorState
<1> HIDE DEF z
<1>5. row # NoRow => Unread(row) /\ (~wiped => Have(files, row.ids))
  BY <1>1, LoadNow
<1>6. ASSUME row # NoRow, ~wiped PROVE Wanted \subseteq Disk(files)
  <2>1. row.ids \in SUBSET Items
    BY <1>6 DEF OInv, SInv, TypeOK, Row
  <2>2. Wanted \subseteq ObjectsOf(row.ids)
    BY <1>5, <1>6 DEF OInv, SInv, RowCover, Covered, NoResume, Unread
  <2>3. QED
    BY <1>5, <1>6, <2>1, <2>2, HaveDisk
<1>7. "store_extraction" \in Places /\ "store_extraction" \in TaskPlaces
  BY PlacesAre, CallPlacesIs, TaskHas DEF OtherCalls
<1>8. ASSUME NEW y, y.place = "store_extraction", y.phase = "read", y.found = z.found, row # NoRow
      PROVE  Stage(y, row, files, wiped)
  BY <1>4, <1>5, <1>6, <1>8, StageAt
<1>9. QED
  BY <1>1, <1>2, <1>4, <1>7, <1>8, TaskStep, TaskHas

LEMMA ErrorKeeps ==
  ASSUME OInv, SInv', NEW a \in Actors, CaughtError(a) \/ UncaughtError(a)
  PROVE  OInv'
<1>1. act[a].place # "idle" /\ act[a] \in ActorState
  BY ActorFits DEF CaughtError, UncaughtError, Catching, Raising
<1>2. UNCHANGED <<row, files, minio, started, wiped>>
  BY DEF CaughtError, UncaughtError, Environment
<1>3. CASE CaughtError(a)
  BY <1>1, <1>2, <1>3, AsideStep DEF CaughtError, Goto
<1>4. CASE UncaughtError(a)
  BY <1>1, <1>2, <1>4, EndStep DEF UncaughtError
<1>5. QED
  BY <1>3, <1>4

LEMMA WorkflowKeeps ==
  ASSUME NoResume, OInv, SInv', NEW a \in Actors, Workflow(a)
  PROVE  OInv'
BY BeginKeeps, ConfigureKeeps, HoldForSubmitKeeps, CreateJobKeeps, WaitingKeeps,
   HoldForDownloadKeeps, NextDownloadKeeps, DownloadKeeps, ReadFilesKeeps, ErrorKeeps DEF Workflow

-----------------------------------------------------------------------------
(* Normalize requests between their calls *)

LEMMA PublishingHas ==
  /\ Listing \subseteq Publishing /\ Reading \subseteq Publishing
  /\ Having \subseteq Publishing /\ Sent \subseteq Publishing
BY DEF Publishing

LEMMA PublishingPlaces == Publishing \subseteq Places
<1>1. Listing \cup Reading \subseteq Places
  BY PlacesAre, CallPlacesIs DEF Listing, Reading, StatusPlaces, OtherCalls, LocalPlaces
<1>2. Having \cup Sent \subseteq Places
  BY PlacesAre, CallPlacesIs DEF Having, Sent, StatusPlaces, OtherCalls, LocalPlaces
<1>3. QED
  BY <1>1, <1>2 DEF Publishing

(* What a normalize request knows at each place. *)
LEMMA PublishingAt ==
  ASSUME NEW x, NEW r, NEW mn, NEW w, r.extracted
  PROVE  /\ x.place \in Listing => Publishes(x, r, mn, w)
         /\ x.place \in Reading =>
              (Publishes(x, r, mn, w) <=> r = NoRow \/ (~w => r.counts \subseteq x.found \cup x.chosen))
         /\ x.place \in Having =>
              (Publishes(x, r, mn, w) <=>
                 \/ r = NoRow
                 \/ /\ ~w => r.counts \subseteq x.found
                    /\ Leaves(x) /\ x.copy.status = "NORMALIZED" => r.normalized
                    /\ x.place = "stamp_normalized" /\ x.phase = "refresh" => r.normalized)
         /\ x.place \in Sent =>
              (Publishes(x, r, mn, w) <=> r = NoRow \/ (~w => r.counts \subseteq mn))
<1>1. CASE x.place \in Listing
  BY <1>1, PublishingApart, PublishingHas DEF Publishes, Leaves
<1>2. CASE x.place \in Reading
  BY <1>2, PublishingApart, PublishingHas DEF Publishes, Leaves
<1>3. CASE x.place \in Having
  BY <1>3, PublishingApart, PublishingHas DEF Publishes
<1>4. CASE x.place \in Sent
  BY <1>4, PublishingApart, PublishingHas DEF Publishes, Leaves
<1>5. QED
  BY <1>1, <1>2, <1>3, <1>4

LEMMA PublishNow ==
  ASSUME OInv, NEW a \in Actors, act[a].place \in Publishing
  PROVE  /\ act[a].attached /\ act[a].copy # NoRow /\ act[a] \in ActorState
         /\ act[a].place # "idle" /\ act[a].place \notin TaskPlaces
         /\ Publishes(act[a], row, minio, wiped)
         /\ row # NoRow => row.extracted
BY ActorFits, TaskIsNoHandler DEF Fits, Path, Publishes

(* A local step of a normalize request to its place p. *)
LEMMA PublishStep ==
  ASSUME OInv, SInv', NEW a \in Actors, act[a].place \in Publishing,
         NEW z \in ActorState, z.copy = act[a].copy, z.attached,
         NEW p \in Publishing, act' = [act EXCEPT ![a] = Moved(z, p)],
         \A y : y.place = p /\ y.phase = "read" /\ y.chosen = z.chosen /\ y.found = z.found
                  /\ y.copy = z.copy /\ row # NoRow => Publishes(y, row, minio', wiped),
         UNCHANGED <<row, files, started, wiped>>, minio \subseteq minio'
  PROVE  OInv'
<1> DEFINE y == Moved(z, p)
<1>1. p \in Places /\ p # "idle" /\ p \notin TaskPlaces /\ p # "configure" /\ p # "reenter_extracting"
  BY PublishingPlaces, TaskIsNoHandler
<1>2. /\ y.place = p /\ y.phase = "read" /\ y.chosen = z.chosen /\ y.found = z.found
      /\ y.copy = z.copy /\ y.attached = z.attached
  BY <1>1, MovedFields
<1> HIDE DEF y
<1>3. y.attached /\ y.copy # NoRow
  BY <1>2, PublishNow
<1>4. Publishes(y, row, minio', wiped)
  BY <1>2 DEF Publishes
<1>5. Stale(y, row)
  BY <1>2, ActorFits DEF Fits, Stale
<1>6. Fits(y, row, files, minio', wiped)
  BY <1>1, <1>2, <1>3, <1>4, <1>5 DEF Fits, Path, Task
<1>7. QED
  BY <1>1, <1>2, <1>6, PublishNow, ActorFits, LocalStep DEF y

LEMMA ListFilesKeeps ==
  ASSUME OInv, SInv', NEW a \in Actors, ListFiles(a)
  PROVE  OInv'
<1> DEFINE x == act[a]
           z == [x EXCEPT !.chosen = OnDisk]
<1>1. x.place = "list_files" /\ x.place \in Publishing
  BY PublishingHas DEF ListFiles, At, Listing
<1>2. act' = [act EXCEPT ![a] = Moved(z, "make_tables")]
      /\ UNCHANGED <<row, files, minio, started, wiped>>
  BY DEF ListFiles, Environment
<1>3. OnDisk \in SUBSET Objects /\ OnDisk = Disk(files)
  BY DEF OnDisk, Disk
<1>4. z \in ActorState /\ z.chosen = OnDisk /\ z.copy = x.copy /\ z.attached
  BY <1>1, <1>3, PublishNow DEF ActorState
<1> HIDE DEF z
<1>5. row # NoRow => row.extracted /\ (~wiped => row.counts \subseteq Disk(files))
  BY <1>1, PublishNow DEF OInv, RowSound
<1>6. "make_tables" \in Reading /\ "make_tables" \in Publishing
  BY PublishingHas DEF Reading
<1>7. ASSUME NEW y, y.place = "make_tables", y.chosen = z.chosen, row # NoRow
      PROVE  Publishes(y, row, minio, wiped)
  <2>1. ~wiped => row.counts \subseteq y.found \cup y.chosen
    BY <1>3, <1>4, <1>5, <1>7
  <2>2. QED
    BY <1>5, <1>6, <1>7, <2>1, PublishingAt
<1>8. QED
  BY <1>1, <1>2, <1>4, <1>6, <1>7, PublishStep

LEMMA MakeTablesKeeps ==
  ASSUME OInv, SInv', NEW a \in Actors, MakeTables(a) \/ TablesMade(a)
  PROVE  OInv'
<1> DEFINE x == act[a]
           z(o) == [x EXCEPT !.chosen = @ \ {o}, !.found = @ \cup {o}]
<1>1. x.place = "make_tables" /\ x.place \in Reading /\ x.place \in Publishing
  BY PublishingHas DEF MakeTables, TablesMade, At, Reading
<1>2. UNCHANGED <<row, files, minio, started, wiped>>
  BY DEF MakeTables, TablesMade, Environment
<1>3. x \in ActorState /\ x.chosen \in SUBSET Objects /\ x.found \in SUBSET Objects /\ x.attached
  BY <1>1, PublishNow DEF ActorState
<1>4. row # NoRow => row.extracted /\ (~wiped => row.counts \subseteq x.found \cup x.chosen)
  BY <1>1, PublishNow, PublishingAt
<1>5. CASE Goto(a, "fail")
  BY <1>1, <1>2, <1>3, <1>5, PublishNow, AsideStep DEF Goto
<1>6. CASE MakeTables(a) /\ ~Goto(a, "fail")
  <2>1. PICK o \in x.chosen : act' = [act EXCEPT ![a] = Moved(z(o), "table_heartbeat")]
    BY <1>6 DEF MakeTables
  <2>2. /\ z(o) \in ActorState /\ z(o).copy = x.copy /\ z(o).attached
        /\ z(o).chosen = x.chosen \ {o} /\ z(o).found = x.found \cup {o}
    BY <1>3, <2>1 DEF ActorState
  <2> HIDE DEF z
  <2>3. "table_heartbeat" \in Reading /\ "table_heartbeat" \in Publishing
    BY PublishingHas DEF Reading
  <2>4. ASSUME NEW y, y.place = "table_heartbeat", y.chosen = z(o).chosen, y.found = z(o).found,
               row # NoRow
        PROVE  Publishes(y, row, minio, wiped)
    <3>1. ~wiped => row.counts \subseteq y.found \cup y.chosen
      BY <1>4, <2>2, <2>4
    <3>2. QED
      BY <1>4, <2>3, <2>4, <3>1, PublishingAt
  <2>5. QED
    BY <1>1, <1>2, <2>1, <2>2, <2>3, <2>4, PublishStep
<1>7. CASE TablesMade(a)
  <2>1. act' = [act EXCEPT ![a] = Moved(x, "mark_normalized")] /\ x.chosen = {}
    BY <1>7 DEF TablesMade, Goto
  <2>2. "mark_normalized" \in Having /\ "mark_normalized" \in Publishing
    BY PublishingHas DEF Having
  <2>3. ASSUME NEW y, y.place = "mark_normalized", y.phase = "read", y.found = x.found, row # NoRow
        PROVE  Publishes(y, row, minio, wiped)
    <3>1. ~wiped => row.counts \subseteq y.found
      BY <1>4, <2>1, <2>3
    <3>2. QED
      BY <1>4, <2>2, <2>3, <3>1, PublishingAt DEF Leaves
  <2>4. QED
    BY <1>1, <1>2, <1>3, <2>1, <2>2, <2>3, PublishStep
<1>8. QED
  BY <1>5, <1>6, <1>7

LEMMA ChooseKeeps ==
  ASSUME OInv, SInv', NEW a \in Actors, CheckNormalized(a) \/ ChooseUpload(a)
  PROVE  OInv'
<1> DEFINE x == act[a]
<1>1. x.place \in {"check_normalized", "choose_upload"} /\ x.place \in Having /\ x.place \in Publishing
  BY PublishingHas DEF CheckNormalized, ChooseUpload, At, Having
<1>2. UNCHANGED <<row, files, minio, started, wiped>>
  BY DEF CheckNormalized, ChooseUpload, Environment
<1>3. /\ row # NoRow => row.extracted /\ (~wiped => row.counts \subseteq x.found)
      /\ x.place = "choose_upload" /\ row # NoRow /\ x.copy.status = "NORMALIZED" => row.normalized
  BY <1>1, PublishNow, PublishingAt DEF Leaves
<1>4. CASE act' = [act EXCEPT ![a] = Moved(x, "idle")]
  BY <1>1, <1>2, <1>4, PublishNow, MovedToIdle, EndStep DEF End
<1>5. CASE act' # [act EXCEPT ![a] = Moved(x, "idle")]
  <2>1. PICK p \in {"stamp_normalized", "choose_upload", "mark_uploading"} :
          /\ act' = [act EXCEPT ![a] = Moved(x, p)]
          /\ p = "choose_upload" => x.copy.status # "NORMALIZED"
          /\ p = "mark_uploading" => x.place = "choose_upload"
    BY <1>5 DEF CheckNormalized, ChooseUpload, Goto, At
  <2>2. p \in Having /\ p \in Publishing
    BY PublishingHas DEF Having
  <2>3. ASSUME NEW y, y.place = p, y.phase = "read", y.found = x.found, y.copy = x.copy, row # NoRow
        PROVE  Publishes(y, row, minio, wiped)
    <3>1. ~wiped => row.counts \subseteq y.found
      BY <1>3, <2>3
    <3>2. Leaves(y) /\ y.copy.status = "NORMALIZED" => row.normalized
      BY <1>3, <2>1, <2>3 DEF Leaves
    <3>3. QED
      BY <1>3, <2>2, <2>3, <3>1, <3>2, PublishingAt
  <2>4. QED
    BY <1>1, <1>2, <2>1, <2>2, <2>3, PublishNow, PublishStep
<1>6. QED
  BY <1>4, <1>5

LEMMA UploadKeeps ==
  ASSUME OInv, SInv', NEW a \in Actors, Upload(a)
  PROVE  OInv'
<1> DEFINE x == act[a]
<1>1. x.place = "upload" /\ x.place \in Having /\ x.place \in Publishing
  BY PublishingHas DEF Upload, At, Having
<1>2. UNCHANGED <<row, files, started, wiped>> /\ minio \subseteq minio'
  BY DEF Upload, Environment
<1>3. row # NoRow => row.extracted /\ (~wiped => row.counts \subseteq x.found)
  BY <1>1, PublishNow, PublishingAt
<1>4. CASE Goto(a, "fail")
  BY <1>1, <1>2, <1>4, PublishNow, AsideStep DEF Goto
<1>5. CASE ~Goto(a, "fail")
  <2>1. minio' = minio \cup x.found /\ act' = [act EXCEPT ![a] = Moved(x, "mark_uploaded")]
    BY <1>5 DEF Upload, Goto
  <2>2. "mark_uploaded" \in Sent /\ "mark_uploaded" \in Publishing
    BY PublishingHas DEF Sent
  <2>3. ASSUME NEW y, y.place = "mark_uploaded", row # NoRow
        PROVE  Publishes(y, row, minio', wiped)
    <3>1. ~wiped => row.counts \subseteq minio'
      BY <1>3, <2>1, <2>3
    <3>2. QED
      BY <1>3, <2>2, <2>3, <3>1, PublishingAt
  <2>4. QED
    BY <1>1, <1>2, <2>1, <2>2, <2>3, PublishNow, PublishStep
<1>6. QED
  BY <1>4, <1>5

LEMMA CheckUploadedKeeps ==
  ASSUME OInv, SInv', NEW a \in Actors, CheckUploaded(a)
  PROVE  OInv'
<1> DEFINE x == act[a]
<1>1. x.place = "check_uploaded" /\ x.place \in Sent /\ x.place \in Publishing
  BY PublishingHas DEF CheckUploaded, At, Sent
<1>2. row # NoRow => row.extracted /\ (~wiped => row.counts \subseteq minio)
  BY <1>1, PublishNow, PublishingAt
<1>3. PICK p \in {"stamp_uploaded", "uploaded_heartbeat"} : act' = [act EXCEPT ![a] = Moved(x, p)]
  BY DEF CheckUploaded, Goto
<1>4. p \in Sent /\ p \in Publishing
  BY PublishingHas DEF Sent
<1>5. ASSUME NEW y, y.place = p, row # NoRow
      PROVE  Publishes(y, row, minio, wiped)
  BY <1>2, <1>4, <1>5, PublishingAt
<1>6. QED
  BY <1>1, <1>3, <1>4, <1>5, PublishNow, PublishStep DEF CheckUploaded, Environment

-----------------------------------------------------------------------------
(* The other handlers between their calls *)

LEMMA DeleteFilesKeeps ==
  ASSUME OInv, SInv', NEW a \in Actors, DeleteFiles(a)
  PROVE  OInv'
<1> DEFINE x == act[a]
           y == Moved(x, "delete_row")
<1>1. x.place = "delete_files" /\ x.place # "idle" /\ x \in ActorState
  BY ActorFits DEF DeleteFiles, At
<1>2. wiped' = TRUE /\ act' = [act EXCEPT ![a] = y] /\ UNCHANGED <<row, minio, started>>
  BY DEF DeleteFiles, Goto
<1>3. "delete_row" \in Places
  BY PlacesAre DEF LocalPlaces
<1>4. y.place = "delete_row" /\ y.phase = "read" /\ y.copy \in {x.copy, NoRow}
  BY <1>1, <1>3, MovedFields
<1> HIDE DEF y
<1>5. y.place \notin TaskPlaces /\ y.place \notin Publishing /\ y.place # "reenter_extracting"
  BY <1>4, TaskIsNoHandler DEF Publishing, Listing, Reading, Having, Sent
<1>6. Fits(y, row, files', minio, wiped')
  BY <1>4, <1>5, ActorFits, RowLate, AsideFits DEF Fits
<1>7. RowSound(row, files', minio, wiped')
  BY <1>2 DEF RowSound, OInv
<1>8. Still(row, row) /\ Forward(row, row) /\ started
  BY <1>1, ActorFits, SameRowForward
<1>9. QED
  BY <1>2, <1>5, <1>6, <1>7, <1>8, ActorStep

LEMMA DeleteRowKeeps ==
  ASSUME OInv, SInv', NEW a \in Actors, DeleteRow(a)
  PROVE  OInv'
<1>1. act[a].place # "idle" /\ started
  BY ActorFits DEF DeleteRow, At
<1>2. row' = NoRow /\ act' = [act EXCEPT ![a] = Idle] /\ UNCHANGED <<files, minio, started, wiped>>
  BY DEF DeleteRow, End, Environment
<1>3. Still(row, row') /\ Forward(row, row') /\ RowSound(row', files, minio, wiped)
  BY <1>2 DEF Still, Forward, RowSound
<1>4. Idle.place \notin TaskPlaces
  BY IdleTyped, TaskIsNoHandler
<1>5. QED
  BY <1>1, <1>2, <1>3, <1>4, IdleFits, ActorStep

LEMMA RequestKeeps ==
  ASSUME NoResume, OInv, SInv', NEW a \in Actors, Request(a)
  PROVE  OInv'
<1>1. ~Spawn(a)
  BY ActorFits DEF Spawn, At, Actor, Cover, Covered, NoResume
<1>2. QED
  BY <1>1, DeleteFilesKeeps, DeleteRowKeeps, ListFilesKeeps, MakeTablesKeeps, ChooseKeeps,
     UploadKeeps, CheckUploadedKeeps DEF Request

-----------------------------------------------------------------------------
(* Where the calls of the task and of a normalize request lead *)

LEMMA AfterTask ==
  /\ After["mark_requested"] \in Fresh
  /\ \A p \in Submitted \cap CallPlaces : After[p] \in Submitted
  /\ \A p \in Loading \cap CallPlaces : After[p] \in Loading
  /\ \A p \in Loaded \cap CallPlaces : After[p] \in Loaded
  /\ After["store_jobs"] \in Submitted
  /\ After["store_extraction"] = "mark_extracted"
  /\ After["mark_extracted"] = "idle"
<1>1. \A p \in Submitted \cap CallPlaces : After[p] \in Submitted
  BY CallPlacesIs, AfterEach DEF Submitted, StatusPlaces, OtherCalls
<1>2. \A p \in Loading \cap CallPlaces : After[p] \in Loading
  BY CallPlacesIs, AfterEach DEF Loading, StatusPlaces, OtherCalls
<1>3. \A p \in Loaded \cap CallPlaces : After[p] \in Loaded
  BY CallPlacesIs, AfterEach DEF Loaded, StatusPlaces, OtherCalls
<1>4. QED
  BY <1>1, <1>2, <1>3, AfterEach DEF Fresh, Submitted

LEMMA AfterPublish ==
  /\ \A p \in Listing \cap CallPlaces : After[p] \in Listing
  /\ \A p \in Reading \cap CallPlaces : After[p] \in Reading
  /\ \A p \in Having \cap CallPlaces :
       /\ After[p] \in Having /\ After[p] \notin {"mark_uploading", "stamp_normalized"}
       /\ After[p] = "choose_upload" => p = "stamp_normalized"
  /\ \A p \in Sent \cap CallPlaces : After[p] \in Sent \cup {"idle"}
<1>1. \A p \in (Listing \cup Reading) \cap CallPlaces :
        (p \in Listing => After[p] \in Listing) /\ (p \in Reading => After[p] \in Reading)
  BY CallPlacesIs, AfterEach DEF Listing, Reading, StatusPlaces, OtherCalls
<1>2. \A p \in Having \cap CallPlaces :
        /\ After[p] \in Having /\ After[p] \notin {"mark_uploading", "stamp_normalized"}
        /\ After[p] = "choose_upload" => p = "stamp_normalized"
  BY CallPlacesIs, AfterEach DEF Having, StatusPlaces, OtherCalls
<1>3. \A p \in Sent \cap CallPlaces : After[p] \in Sent \cup {"idle"}
  BY CallPlacesIs, AfterEach DEF Sent, StatusPlaces, OtherCalls
<1>4. QED
  BY <1>1, <1>2, <1>3

(* A call of anything else ends its handler. *)
LEMMA AfterAside ==
  ASSUME NEW p \in CallPlaces, p \notin TaskPlaces, p \notin Publishing,
         p # "reenter_extracting", p # "resume"
  PROVE  After[p] = "idle"
<1>1. p \in {"fail", "cancel", "crash"}
  BY CallPlacesIs DEF StatusPlaces, OtherCalls, TaskPlaces, Fresh, Submitted, Loading, Loaded,
                      Publishing, Listing, Reading, Having, Sent
<1>2. QED
  BY <1>1, AfterEach

(* The end of a call of the task. *)
LEMMA TaskLeaves ==
  ASSUME OInv, SInv', NEW a \in Actors, act[a].place \in TaskPlaces, act[a].place \in CallPlaces,
         NEW z \in ActorState, z.copy \in {act[a].copy, NoRow, row},
         z.items = act[a].items, z.found = act[a].found,
         act' = [act EXCEPT ![a] = Moved(z, After[act[a].place])],
         row # NoRow => act[a].phase = "refresh" \/ act[a].place \in StatusPlaces,
         UNCHANGED <<row, files, minio, started, wiped>>
  PROVE  OInv'
<1> DEFINE x == act[a]
           p == After[x.place]
<1>1. p \in Places /\ p # "configure"
  BY AfterPlaces
<1>2. CASE x.place = "mark_extracted"
  <2>1. act' = [act EXCEPT ![a] = Idle]
    BY <1>2, AfterTask, MovedToIdle
  <2>2. QED
    BY <1>2, <2>1, EndStep DEF End
<1>3. CASE x.place # "mark_extracted"
  <2>1. p \in TaskPlaces
    <3>1. x.place \notin {"begin", "configure", "hold_for_submit", "create_jobs"}
      BY CallPlacesIs DEF StatusPlaces, OtherCalls
    <3>2. QED
      BY <1>3, <3>1, AfterTask, TaskHas DEF TaskPlaces, Fresh
  <2>2. ASSUME NEW y, y.place = p, y.phase = "read", y.items = x.items, y.found = x.found,
               row # NoRow
        PROVE  Stage(y, row, files, wiped)
    <3>1. Stage(x, row, files, wiped)
      BY <2>2, StageNow
    <3>2. CASE x.place \in Fresh \cup {"create_jobs"}
      <4>1. x.place = "mark_requested"
        BY <3>2, CallPlacesIs DEF Fresh, StatusPlaces, OtherCalls
      <4>2. QED
        BY <2>2, <3>1, <3>2, <4>1, AfterTask, StageAt
    <3>3. CASE x.place \in Submitted
      BY <2>2, <3>1, <3>3, AfterTask, StageAt
    <3>4. CASE x.place \in Loading
      <4>1. y.place \in Loading
        BY <2>2, <3>4, AfterTask
      <4>2. Waiting(row) /\ x.items \subseteq row.ids /\ (~wiped => Have(files, row.ids \ x.items))
        BY <2>2, <3>4, LoadNow
      <4>3. QED
        BY <2>2, <4>1, <4>2, StageAt
    <3>5. CASE x.place \in Loaded
      <4>1. y.place \in Loaded
        BY <2>2, <3>5, AfterTask
      <4>2. Unread(row) /\ (~wiped => Have(files, row.ids))
        BY <2>2, <3>5, LoadNow
      <4>3. QED
        BY <2>2, <4>1, <4>2, StageAt
    <3>6. CASE x.place \in {"store_jobs", "store_extraction"}
      <4>1. x.phase = "refresh"
        BY <2>2, <3>6 DEF StatusPlaces
      <4>2. CASE x.place = "store_jobs"
        BY <2>2, <3>1, <4>1, <4>2, AfterTask, StageAt
      <4>3. CASE x.place = "store_extraction"
        BY <2>2, <3>1, <4>1, <4>3, AfterTask, StageAt
      <4>4. QED
        BY <3>6, <4>2, <4>3
    <3>7. QED
      BY <1>3, <3>2, <3>3, <3>4, <3>5, <3>6 DEF TaskPlaces
  <2> HIDE DEF p
  <2>3. QED
    BY <1>1, <2>1, <2>2, TaskStep DEF p
<1>4. QED
  BY <1>2, <1>3

(* The end of a call of a normalize request. *)
LEMMA PublishLeaves ==
  ASSUME OInv, SInv', NEW a \in Actors, act[a].place \in Publishing, act[a].place \in CallPlaces,
         NEW z \in ActorState, z.copy = act[a].copy \/ (z.copy = row /\ row # NoRow), z.attached,
         z.chosen = act[a].chosen, z.found = act[a].found,
         act' = [act EXCEPT ![a] = Moved(z, After[act[a].place])],
         row # NoRow => act[a].phase = "refresh" \/ act[a].place \in StatusPlaces,
         UNCHANGED <<row, files, minio, started, wiped>>
  PROVE  OInv'
<1> DEFINE x == act[a]
           p == After[x.place]
           y == Moved(z, p)
<1>1. CASE p = "idle"
  BY <1>1, PublishNow, MovedToIdle, EndStep DEF End
<1>2. CASE p # "idle"
  <2>1. p \in Publishing /\ p \in Places
    BY <1>2, AfterPublish, AfterPlaces, PublishingHas DEF Publishing
  <2>2. /\ y.place = p /\ y.phase = "read" /\ y.chosen = x.chosen /\ y.found = x.found
        /\ y.copy = z.copy /\ y.attached = z.attached
    BY <1>2, <2>1, MovedFields
  <2>3. p \notin TaskPlaces /\ p # "configure" /\ p # "reenter_extracting"
    BY <2>1, TaskIsNoHandler
  <2>4. act' = [act EXCEPT ![a] = y]
    OBVIOUS
  <2>5. row # NoRow => Publishes(y, row, minio, wiped)
    <3> SUFFICES ASSUME row # NoRow PROVE Publishes(y, row, minio, wiped)
      OBVIOUS
    <3>1. Publishes(x, row, minio, wiped) /\ row.extracted
      BY PublishNow
    <3>2. CASE x.place \in Listing
      BY <2>2, <3>1, <3>2, AfterPublish, PublishingAt
    <3>3. CASE x.place \in Reading
      <4>1. ~wiped => row.counts \subseteq y.found \cup y.chosen
        BY <2>2, <3>1, <3>3, PublishingAt
      <4>2. QED
        BY <2>2, <3>1, <3>3, <4>1, AfterPublish, PublishingAt
    <3>4. CASE x.place \in Having
      <4>1. ~wiped => row.counts \subseteq y.found
        BY <2>2, <3>1, <3>4, PublishingAt
      <4>2. p \in Having /\ p \notin {"mark_uploading", "stamp_normalized"}
        BY <3>4, AfterPublish
      <4>3. p = "choose_upload" => row.normalized
        <5>1. SUFFICES ASSUME p = "choose_upload" PROVE row.normalized
          OBVIOUS
        <5>2. x.place = "stamp_normalized"
          BY <3>4, <5>1, AfterPublish
        <5>3. x.phase = "refresh"
          BY <5>2 DEF StatusPlaces
        <5>4. QED
          BY <3>1, <3>4, <5>2, <5>3, PublishingAt
      <4> HIDE DEF p, y
      <4>4. QED
        BY <2>2, <3>1, <4>1, <4>2, <4>3, PublishingAt DEF Leaves
    <3>5. CASE x.place \in Sent
      BY <1>2, <2>2, <3>1, <3>5, AfterPublish, PublishingAt
    <3>6. QED
      BY <3>2, <3>3, <3>4, <3>5 DEF Publishing
  <2> HIDE DEF p, y
  <2>6. y.copy # NoRow /\ y.attached
    BY <2>2, PublishNow
  <2>7. Stale(y, row)
    <3>1. Stale(x, row)
      BY ActorFits DEF Fits
    <3>2. y.copy \in {x.copy, NoRow, row}
      BY <2>2
    <3>3. QED
      BY <3>1, <3>2, RowLate, CopyKept
  <2>8. Publishes(y, row, minio, wiped)
    BY <2>5 DEF Publishes
  <2>9. Fits(y, row, files, minio, wiped)
    BY <2>2, <2>3, <2>6, <2>7, <2>8 DEF Fits, Path, Task
  <2>10. started /\ minio \subseteq minio'
    BY PublishNow, ActorFits
  <2>11. y.place \notin TaskPlaces
    BY <2>2, <2>3
  <2>12. QED
    BY <2>4, <2>9, <2>10, <2>11, LocalStep
<1>3. QED
  BY <1>1, <1>2

(* The end of any call, with c as the copy of the row. *)
LEMMA CallEnds ==
  ASSUME NoResume, OInv, SInv', NEW a \in Actors, act[a].place \in CallPlaces,
         NEW c \in Row \cup {NoRow}, c \in {act[a].copy, row},
         act[a].copy # NoRow => c # NoRow,
         act' = [act EXCEPT ![a] = Moved([@ EXCEPT !.copy = c], After[act[a].place])],
         row # NoRow => act[a].phase = "refresh"
                          \/ act[a].place \in StatusPlaces \cup {"fail", "cancel", "resume"},
         UNCHANGED <<row, files, minio, started, wiped>>
  PROVE  OInv'
<1> DEFINE x == act[a]
           z == [x EXCEPT !.copy = c]
<1>1. x \in ActorState /\ x.place # "idle" /\ x.place # "resume" /\ x.place # "reenter_extracting"
  <2>1. x.place # "idle"
    BY CallPlacesIs DEF StatusPlaces, OtherCalls
  <2>2. QED
    BY <2>1, ActorFits DEF Fits, Path, Actor, Cover, Covered, NoResume
<1>2. /\ z \in ActorState /\ z.copy = c /\ z.items = x.items /\ z.found = x.found
      /\ z.chosen = x.chosen /\ (x.attached => z.attached)
  BY <1>1 DEF ActorState
<1>3. act' = [act EXCEPT ![a] = Moved(z, After[x.place])]
  BY DEF OInv, SInv, AllActors
<1> HIDE DEF z
<1>4. CASE x.place \in TaskPlaces
  BY <1>1, <1>2, <1>3, <1>4, TaskIsNoHandler, TaskLeaves
<1>5. CASE x.place \in Publishing
  <2>1. x.place \notin {"fail", "cancel", "resume"} /\ x.attached /\ x.copy # NoRow
    BY <1>5, PublishNow DEF Publishing, Listing, Reading, Having, Sent
  <2>2. QED
    BY <1>2, <1>3, <1>5, <2>1, PublishLeaves
<1>6. CASE x.place \notin TaskPlaces /\ x.place \notin Publishing
  BY <1>1, <1>3, <1>6, AfterAside, MovedToIdle, EndStep DEF End
<1>7. QED
  BY <1>4, <1>5, <1>6

LEMMA CallReadKeeps ==
  ASSUME NoResume, OInv, SInv', NEW a \in Actors, CallRead(a)
  PROVE  OInv'
<1> DEFINE x == act[a]
           c == GetJob(x)
<1>1. /\ x \in ActorState /\ x.place \in CallPlaces /\ x.phase = "read" /\ x.place # "idle"
      /\ UNCHANGED <<row, files, minio, started, wiped>>
  <2>1. x.place # "idle"
    BY CallPlacesIs DEF CallRead, StatusPlaces, OtherCalls
  <2>2. QED
    BY <2>1, ActorFits DEF CallRead, Environment
<1>2. c \in Row \cup {NoRow} /\ c \in {x.copy, row}
  BY GetJobIs
<1>3. (x.copy # NoRow => c = x.copy) /\ (c = NoRow => row = NoRow)
  BY DEF GetJob
<1>4. CASE c # NoRow /\ Accepts(x, c)
  <2> DEFINE y == [x EXCEPT !.copy = c, !.phase = "commit"]
  <2>1. act' = [act EXCEPT ![a] = y]
    BY <1>4 DEF CallRead
  <2>2. /\ y \in ActorState /\ y.place = x.place /\ y.copy = c /\ y.phase = "commit"
        /\ y.chosen = x.chosen /\ y.plan = x.plan /\ y.items = x.items /\ y.found = x.found
        /\ y.attached = x.attached
    BY <1>1, <1>2 DEF ActorState
  <2>3. Fits(x, row, files, minio, wiped)
    BY ActorFits
  <2>4. x.place \in StatusPlaces => IsValidTransition(c.status, StatusAt[x.place])
    BY <1>4, StatusPlacesIs DEF Accepts
  <2> HIDE DEF y, c
  <2>5. Path(y)
    BY <1>3, <1>4, <2>2, <2>3, <2>4 DEF Fits, Path
  <2>6. Stale(y, row) /\ (row # NoRow /\ x.place \in TaskPlaces => OwnCopy(y, row))
    BY <1>2, <2>2, <2>3, RowLate, CopyKept DEF Fits, Task
  <2>7. Task(y, row, files, wiped)
    <3>1. SUFFICES ASSUME row # NoRow, x.place \in TaskPlaces PROVE Stage(y, row, files, wiped)
      BY <2>2, <2>6 DEF Task
    <3>2. Stage(x, row, files, wiped)
      BY <2>3, <3>1 DEF Fits, Task
    <3>3. QED
      BY <1>1, <2>2, <3>2 DEF Stage
  <2>8. Publishes(y, row, minio, wiped)
    <3>1. SUFFICES ASSUME row # NoRow, x.place \in Publishing PROVE Publishes(y, row, minio, wiped)
      BY <2>2 DEF Publishes
    <3>2. y.copy = x.copy
      BY <1>3, <2>2, <2>3, <3>1 DEF Fits, Path
    <3>3. QED
      BY <1>1, <2>2, <2>3, <3>2 DEF Fits, Publishes, Leaves
  <2>9. Fits(y, row, files, minio, wiped)
    BY <2>5, <2>6, <2>7, <2>8 DEF Fits
  <2>10. started /\ minio \subseteq minio'
    BY <1>1, ActorFits
  <2>11. QED
    BY <1>1, <2>1, <2>2, <2>9, <2>10, LocalStep
<1>5. CASE ~(c # NoRow /\ Accepts(x, c))
  <2>1. act' = [act EXCEPT ![a] = Moved([x EXCEPT !.copy = c], After[x.place])]
    BY <1>5 DEF CallRead
  <2>2. act' = [act EXCEPT ![a] = Moved([@ EXCEPT !.copy = c], After[act[a].place])]
    BY <2>1 DEF OInv, SInv, AllActors
  <2>3. row # NoRow => x.place \in StatusPlaces \cup {"fail", "cancel", "resume"}
    BY <1>3, <1>5, StatusPlacesIs DEF Accepts
  <2>4. x.copy # NoRow => c # NoRow
    BY <1>3
  <2> HIDE DEF c
  <2>5. QED
    BY <1>1, <1>2, <2>2, <2>3, <2>4, CallEnds
<1>6. QED
  BY <1>4, <1>5

LEMMA CallRefreshKeeps ==
  ASSUME NoResume, OInv, SInv', NEW a \in Actors, CallRefresh(a)
  PROVE  OInv'
<1>1. /\ act[a].place \in CallPlaces /\ act[a].phase = "refresh" /\ act[a].place # "idle"
      /\ UNCHANGED <<row, files, minio, started, wiped>>
  <2>1. act[a].place # "idle"
    BY CallPlacesIs DEF CallRefresh, StatusPlaces, OtherCalls
  <2>2. QED
    BY <2>1 DEF CallRefresh, Environment
<1>2. CASE row = NoRow
  BY <1>1, <1>2, EndStep DEF CallRefresh
<1>3. CASE row # NoRow
  <2>1. act' = [act EXCEPT ![a] = Moved([act[a] EXCEPT !.copy = row], After[act[a].place])]
    BY <1>3 DEF CallRefresh
  <2>2. act' = [act EXCEPT ![a] = Moved([@ EXCEPT !.copy = row], After[act[a].place])]
    BY <2>1 DEF OInv, SInv, AllActors
  <2>3. row \in Row \cup {NoRow}
    BY DEF OInv, SInv, TypeOK
  <2>4. QED
    BY <1>1, <1>3, <2>2, <2>3, CallEnds
<1>4. QED
  BY <1>2, <1>3

-----------------------------------------------------------------------------
(* The write of a call *)

LEMMA PassedStatus ==
  /\ \A p \in StatusPlaces : StatusAt[p] \in ExtractedOn =>
       p \in {"mark_extracted", "mark_normalizing", "mark_normalized", "mark_uploading",
              "mark_uploaded", "mark_completed"}
  /\ \A p \in StatusPlaces : StatusAt[p] \in Late =>
       p \in {"mark_uploading", "mark_uploaded", "mark_completed"}
  /\ \A p \in StatusPlaces : StatusAt[p] = "COMPLETED" => p = "mark_completed"
<1>1. /\ StatusAt["mark_requested"] = "BATCH_REQUESTED"
      /\ StatusAt["mark_processing"] = "BATCH_PROCESSING"
      /\ StatusAt["mark_ready"] = "BATCH_READY"
      /\ StatusAt["mark_downloading"] = "DOWNLOADING"
      /\ StatusAt["mark_downloaded"] = "DOWNLOADED"
      /\ StatusAt["reenter_extracting"] = "EXTRACTING"
      /\ StatusAt["mark_extracting"] = "EXTRACTING"
      /\ StatusAt["mark_extracted"] = "EXTRACTED"
      /\ StatusAt["mark_normalizing"] = "NORMALIZING"
      /\ StatusAt["mark_normalized"] = "NORMALIZED"
      /\ StatusAt["mark_uploading"] = "UPLOADING_TO_MINIO"
      /\ StatusAt["mark_uploaded"] = "UPLOADED_TO_MINIO"
      /\ StatusAt["mark_completed"] = "COMPLETED"
  BY DEF StatusAt
<1>2. QED
  BY <1>1 DEF StatusPlaces, ExtractedOn, Late

(* A late status is entered from NORMALIZED or from a late status.         *)
LEMMA LateMoves ==
  ASSUME NEW from, NEW p \in StatusPlaces, StatusAt[p] \in Late,
         IsValidTransition(from, StatusAt[p]), from # StatusAt[p]
  PROVE  from \in Late \/ (from = "NORMALIZED" /\ p = "mark_uploading")
<1>1. p \in {"mark_uploading", "mark_uploaded", "mark_completed"}
  BY PassedStatus
<1>2. /\ StatusAt["mark_uploading"] = "UPLOADING_TO_MINIO"
      /\ StatusAt["mark_uploaded"] = "UPLOADED_TO_MINIO"
      /\ StatusAt["mark_completed"] = "COMPLETED"
  BY DEF StatusAt
<1>3. Successor(from, StatusAt[p])
  BY ChainMoves, StatusAtChain
<1>4. QED
  BY <1>1, <1>2, <1>3 DEF Successor, MainChain, Late

(* The status column after each of the row operators. *)
LEMMA StatusColumns ==
  ASSUME NEW c \in Row
  PROVE  /\ \A st : WithStatus(c, st).status = st
         /\ Failed(c).status \in SideStatus /\ Cancelled(c).status \in SideStatus
         /\ Beat(c).status = c.status /\ Downloaded(c).status = c.status
         /\ NormalizedNow(c).status = c.status /\ UploadedNow(c).status = c.status
         /\ \A items : WithBatch(c, items).status = c.status
         /\ \A objs : Extracted(c, objs).status = c.status
BY DEF WithStatus, Failed, Cancelled, SideStatus, Beat, Downloaded, NormalizedNow, UploadedNow,
       WithBatch, Extracted, Row

(* The status a call writes, unless it is that of the copy. *)
LEMMA WrittenStatus ==
  ASSUME NEW x \in ActorState, x.place \in CallPlaces, x.place # "resume", x.copy \in Row
  PROVE  \/ Written(x).status = x.copy.status
         \/ Written(x).status \in SideStatus
         \/ x.place \in StatusPlaces /\ Written(x).status = StatusAt[x.place]
<1>1. CASE x.place \in StatusPlaces
  <2>1. Written(x) = WithStatus(x.copy, StatusAt[x.place])
    BY <1>1, WrittenIs
  <2>2. QED
    BY <1>1, <2>1, StatusColumns
<1>2. CASE x.place \in {"fail", "crash", "cancel"}
  <2>1. Written(x) \in {Failed(x.copy), Cancelled(x.copy)}
    BY <1>2, WrittenIs
  <2>2. QED
    BY <2>1, StatusColumns
<1>3. CASE x.place \in HeartbeatPlaces
  <2>1. Written(x) = Beat(x.copy)
    BY <1>3, WrittenIs
  <2>2. QED
    BY <2>1, StatusColumns
<1>4. CASE x.place \in {"store_jobs", "store_poll", "store_download", "store_extraction",
                        "stamp_normalized", "stamp_uploaded"}
  <2>1. Written(x) \in {WithBatch(x.copy, x.items), WithBatch(x.copy, {}), Downloaded(x.copy),
                        Extracted(x.copy, x.found), NormalizedNow(x.copy), UploadedNow(x.copy)}
    BY <1>4, WrittenIs
  <2>2. QED
    BY <2>1, StatusColumns
<1>5. QED
  BY <1>1, <1>2, <1>3, <1>4, CallPlacesIs DEF OtherCalls, HeartbeatPlaces

(* The row, the copy and the actor after a write. *)
LEMMA Committed ==
  ASSUME OInv, NEW a \in Actors, CallCommit(a), row # NoRow
  PROVE  LET x == act[a]
             c == x.copy
             d == Written(x) IN
         /\ x \in ActorState /\ x.place \in CallPlaces /\ x.place # "idle" /\ x.phase = "commit"
         /\ c \in Row /\ c # NoRow /\ row \in Row
         /\ row' = Merged(row, c, d, Stamps(x)) /\ row' \in Row /\ row' # NoRow
         /\ d \in Row /\ d # NoRow
         /\ act' = [act EXCEPT ![a] = [x EXCEPT !.copy = d, !.phase = "refresh"]]
         /\ UNCHANGED <<files, minio, started, wiped>>
         /\ row'.status = IF d.status # c.status THEN d.status ELSE row.status
<1> DEFINE x == act[a]
           c == x.copy
           d == Written(x)
<1>1. x \in ActorState /\ x.place \in CallPlaces /\ x.phase = "commit" /\ c \in Row /\ row \in Row
  BY ActorFits DEF CallCommit, Actor, Shape, ActorState, OInv, SInv, TypeOK
<1>2. x.place # "idle"
  BY <1>1, CallPlacesIs DEF StatusPlaces, OtherCalls
<1>3. d \in Row
  BY <1>1, WrittenCheckpoints DEF Checkpoints
<1>4. row' = Merged(row, c, d, Stamps(x)) /\ UNCHANGED <<files, minio, started, wiped>>
      /\ act' = [act EXCEPT ![a].copy = d, ![a].phase = "refresh"]
  BY DEF CallCommit, Environment
<1>5. act' = [act EXCEPT ![a] = [x EXCEPT !.copy = d, !.phase = "refresh"]]
  BY <1>4
<1>6. row' \in Row /\ row'.status = IF d.status # c.status THEN d.status ELSE row.status
  BY <1>1, <1>3, <1>4, StampsTyped, MergedColumns
<1>7. d # NoRow /\ c # NoRow /\ row' # NoRow
  BY <1>1, <1>3, <1>6, PipelineAssumption
<1>8. QED
  BY <1>1, <1>2, <1>3, <1>4, <1>5, <1>6, <1>7

Storing == {"store_jobs", "store_download", "store_extraction"}

LEMMA StoringTask == Storing \subseteq TaskPlaces /\ "stamp_normalized" \notin Storing
BY TaskHas DEF Storing, Loaded

(* A write leaves what only the task records, unless it is the task's.     *)
LEMMA CommitStill ==
  ASSUME OInv, NEW a \in Actors, CallCommit(a), row # NoRow
  PROVE  /\ act[a].place \notin Storing => Still(row, row') /\ Agrees(Written(act[a]), act[a].copy)
         /\ row.normalized => row'.normalized
<1> DEFINE x == act[a]
           d == Written(x)
<1>1. /\ x \in ActorState /\ x.place \in CallPlaces /\ x.copy \in Row /\ row \in Row
      /\ row' = Merged(row, x.copy, d, Stamps(x))
  BY Committed
<1>2. row.normalized => row'.normalized
  BY <1>1, CommitCheckpoints DEF Checkpoints
<1>3. ASSUME x.place \notin Storing PROVE Agrees(row', row) /\ Agrees(d, x.copy)
  <2>1. x.place \notin {"store_jobs", "store_download", "store_extraction"}
    BY <1>3 DEF Storing
  <2>2. Agrees(row', row)
    BY <1>1, <2>1, CommitCheckpoints DEF Checkpoints, Agrees
  <2>3. Agrees(d, x.copy)
    BY <1>1, <2>1, WrittenCheckpoints DEF Checkpoints, Agrees
  <2>4. QED
    BY <2>2, <2>3
<1>4. QED
  BY <1>2, <1>3 DEF Still

(* What a write of the task records. *)
LEMMA CommitStored ==
  ASSUME NoResume, OInv, NEW a \in Actors, CallCommit(a), row # NoRow, act[a].place \in Storing
  PROVE  LET x == act[a] IN
         /\ x.place = "store_jobs" => Waiting(row')
         /\ x.place = "store_download" =>
              row'.ids = row.ids /\ Unread(row') /\ (~wiped => Have(files, row.ids))
         /\ x.place = "store_extraction" =>
              /\ row'.ids = row.ids /\ (row'.downloaded <=> row.downloaded)
              /\ ~row.extracted /\ row'.extracted /\ row'.counts = x.found
              /\ ~wiped => Wanted \subseteq x.found /\ x.found \subseteq Disk(files)
         /\ Agrees(Written(x), row')
<1> DEFINE x == act[a]
           d == Written(x)
<1>1. /\ x \in ActorState /\ x.place \in CallPlaces /\ x.copy \in Row /\ row \in Row
      /\ row' = Merged(row, x.copy, d, Stamps(x)) /\ x.phase = "commit" /\ x.copy # NoRow
  BY Committed
<1>2. Stage(x, row, files, wiped) /\ Agrees(x.copy, row)
  BY <1>1, StoringTask, StageNow DEF OwnCopy
<1>3. CASE x.place = "store_jobs"
  <2>1. Blank(row)
    BY <1>1, <1>2, <1>3, StageAt
  <2>2. x.items # {}
    BY <1>3, ActorFits, PipelineAssumption DEF Actor, Cover, Covered, NoResume, ObjectsOf
  <2>3. /\ row'.ids = x.items /\ (row'.downloaded <=> row.downloaded)
        /\ (row'.extracted <=> row.extracted) /\ row'.counts = row.counts
    BY <1>1, <1>2, <1>3, <2>1, <2>2, CommitCheckpoints DEF Checkpoints, Agrees, Blank
  <2>4. /\ d.ids = x.items /\ (d.downloaded <=> x.copy.downloaded)
        /\ (d.extracted <=> x.copy.extracted) /\ d.counts = x.copy.counts
    BY <1>1, <1>3, <2>2, WrittenCheckpoints DEF Checkpoints
  <2>5. Waiting(row')
    BY <2>1, <2>2, <2>3 DEF Blank, Waiting, Unread
  <2>6. Agrees(d, row')
    BY <1>2, <2>3, <2>4 DEF Agrees
  <2>7. QED
    BY <1>3, <2>5, <2>6
<1>4. CASE x.place = "store_download"
  <2>1. "store_download" \in Loaded
    BY DEF Loaded
  <2>2. Unread(row) /\ (~wiped => Have(files, row.ids))
    BY <1>2, <1>4, <2>1, LoadNow
  <2>3. /\ row'.ids = row.ids /\ (row'.downloaded <=> row.downloaded \/ ~x.copy.downloaded)
        /\ (row'.extracted <=> row.extracted) /\ row'.counts = row.counts
    BY <1>1, <1>4, CommitCheckpoints DEF Checkpoints
  <2>4. /\ d.ids = x.copy.ids /\ d.downloaded
        /\ (d.extracted <=> x.copy.extracted) /\ d.counts = x.copy.counts
    BY <1>1, <1>4, WrittenCheckpoints DEF Checkpoints
  <2>5. Agrees(d, row')
    BY <1>2, <2>3, <2>4 DEF Agrees
  <2>6. QED
    BY <1>4, <2>2, <2>3, <2>5 DEF Unread
<1>5. CASE x.place = "store_extraction"
  <2>1. /\ Unread(row)
        /\ ~wiped => Wanted \subseteq x.found /\ x.found \subseteq Disk(files)
    BY <1>1, <1>2, <1>5 DEF Stage
  <2>2. /\ row'.ids = row.ids /\ (row'.downloaded <=> row.downloaded)
        /\ (row'.extracted <=> row.extracted \/ ~x.copy.extracted)
        /\ row'.counts = IF x.found # x.copy.counts THEN x.found ELSE row.counts
    BY <1>1, <1>5, CommitCheckpoints DEF Checkpoints
  <2>3. /\ d.ids = x.copy.ids /\ (d.downloaded <=> x.copy.downloaded)
        /\ d.extracted /\ d.counts = x.found
    BY <1>1, <1>5, WrittenCheckpoints DEF Checkpoints
  <2>4. row'.counts = x.found /\ row'.extracted
    BY <1>2, <2>2 DEF Agrees
  <2>5. Agrees(d, row')
    BY <1>2, <2>2, <2>3, <2>4 DEF Agrees
  <2>6. QED
    BY <1>5, <2>1, <2>2, <2>4, <2>5 DEF Unread
<1>6. QED
  BY <1>3, <1>4, <1>5 DEF Storing

(* The task after its write. *)
LEMMA CommitTask ==
  ASSUME NoResume, OInv, NEW a \in Actors, CallCommit(a), row # NoRow,
         NEW y, y.place = act[a].place, y.phase = "refresh", y.copy = Written(act[a]),
         y.items = act[a].items, y.found = act[a].found
  PROVE  Task(y, row', files, wiped)
<1> DEFINE x == act[a]
<1> SUFFICES ASSUME x.place \in TaskPlaces
             PROVE  Agrees(y.copy, row') /\ Stage(y, row', files, wiped)
  BY DEF Task, OwnCopy
<1>1. Stage(x, row, files, wiped) /\ Agrees(x.copy, row) /\ x.phase = "commit"
  BY StageNow, Committed DEF OwnCopy
<1>2. CASE x.place \notin Storing
  <2>1. Agrees(row', row) /\ Agrees(y.copy, x.copy)
    BY <1>2, CommitStill, Committed DEF Still
  <2>2. Agrees(y.copy, row')
    BY <1>1, <2>1 DEF Agrees
  <2>3. y.place \notin {"store_jobs", "store_download", "store_extraction"}
    BY <1>2 DEF Storing
  <2>4. Stage(y, row', files, wiped)
    BY <1>1, <2>1, <2>3 DEF Stage, Agrees, Blank, Waiting, Unread, Have
  <2>5. QED
    BY <2>2, <2>4
<1>3. CASE x.place \in Storing
  <2>1. Agrees(y.copy, row')
    BY <1>3, CommitStored
  <2>2. CASE x.place = "store_jobs"
    BY <1>3, <2>2, CommitStored, StageAt
  <2>3. CASE x.place = "store_download"
    <3>1. y.place \in Loaded
      BY <2>3 DEF Loaded
    <3>2. Unread(row') /\ (~wiped => Have(files, row'.ids))
      BY <1>3, <2>3, CommitStored
    <3>3. QED
      BY <2>1, <3>1, <3>2, StageAt
  <2>4. CASE x.place = "store_extraction"
    <3>1. row'.extracted
      BY <1>3, <2>4, CommitStored
    <3>2. QED
      BY <2>1, <2>4, <3>1, StageAt
  <2>5. QED
    BY <1>3, <2>1, <2>2, <2>3, <2>4 DEF Storing
<1>4. QED
  BY <1>2, <1>3

(* What was extracted and normalized still is. *)
LEMMA CommitForward ==
  ASSUME NoResume, OInv, NEW a \in Actors, CallCommit(a), row # NoRow
  PROVE  Forward(row, row')
<1> DEFINE x == act[a]
<1>1. row.normalized => row'.normalized
  BY CommitStill
<1>2. CASE x.place \notin Storing
  BY <1>1, <1>2, CommitStill, StillForward
<1>3. CASE x.place \in Storing
  <2>1. ~row.extracted
    <3>1. CASE x.place = "store_jobs"
      <4>1. Stage(x, row, files, wiped) /\ x.phase = "commit"
        BY <1>3, StoringTask, StageNow, Committed
      <4>2. QED
        BY <3>1, <4>1 DEF Stage, Blank
    <3>2. CASE x.place = "store_download"
      <4>1. Unread(row)
        BY <3>2, LoadNow DEF Loaded
      <4>2. QED
        BY <4>1 DEF Unread
    <3>3. CASE x.place = "store_extraction"
      BY <1>3, <3>3, CommitStored
    <3>4. QED
      BY <1>3, <3>1, <3>2, <3>3 DEF Storing
  <2>2. QED
    BY <1>1, <2>1, Committed DEF Forward
<1>4. QED
  BY <1>2, <1>3

(* A write that changes the status to a late one, or to one that stands    *)
(* for an extracted scan, is backed by the row.                            *)
LEMMA CommitStatus ==
  ASSUME NoResume, OInv, NEW a \in Actors, CallCommit(a), row # NoRow,
         Written(act[a]).status # act[a].copy.status
  PROVE  LET s == Written(act[a]).status IN
         /\ s \in ExtractedOn => row.extracted
         /\ s \in Late => row.normalized
         /\ s = "COMPLETED" => (~wiped => row.counts \subseteq minio)
<1> DEFINE x == act[a]
           s == Written(x).status
<1>1. /\ x \in ActorState /\ x.place \in CallPlaces /\ x.copy \in Row /\ x.copy # NoRow
      /\ x.phase = "commit" /\ Fits(x, row, files, minio, wiped)
  BY Committed, ActorFits
<1>2. x.place # "resume"
  BY ActorFits DEF Actor, Cover, Covered, NoResume
<1>3. CASE s \in SideStatus
  BY <1>3 DEF SideStatus, ExtractedOn, Late
<1>4. CASE s \notin SideStatus
  <2>1. x.place \in StatusPlaces /\ s = StatusAt[x.place]
    BY <1>1, <1>2, <1>4, WrittenStatus
  <2>2. IsValidTransition(x.copy.status, StatusAt[x.place])
    BY <1>1, <2>1 DEF Fits, Path
  <2>3. ASSUME s \in ExtractedOn PROVE row.extracted
    <3>1. x.place \in {"mark_extracted", "mark_normalizing", "mark_normalized", "mark_uploading",
                       "mark_uploaded", "mark_completed"}
      BY <2>1, <2>3, PassedStatus
    <3>2. CASE x.place = "mark_extracted"
      BY <3>2, TaskHas, StageNow, StageAt
    <3>3. CASE x.place # "mark_extracted"
      <4>1. x.place \in Publishing
        BY <3>1, <3>3 DEF Publishing, Listing, Having, Sent
      <4>2. QED
        BY <4>1, PublishNow
    <3>4. QED
      BY <3>2, <3>3
  <2>4. ASSUME s \in Late PROVE row.normalized
    <3>1. x.copy.status \in Late \/ (x.copy.status = "NORMALIZED" /\ x.place = "mark_uploading")
      BY <2>1, <2>2, <2>4, LateMoves
    <3>2. CASE x.copy.status \in Late
      BY <1>1, <3>2 DEF Fits, Stale
    <3>3. CASE x.copy.status = "NORMALIZED" /\ x.place = "mark_uploading"
      <4>1. Leaves(x) /\ x.place \in Publishing
        BY <1>1, <3>3 DEF Leaves, Publishing, Having
      <4>2. QED
        BY <1>1, <3>3, <4>1 DEF Fits, Publishes
    <3>4. QED
      BY <3>1, <3>2, <3>3
  <2>5. ASSUME s = "COMPLETED", ~wiped PROVE row.counts \subseteq minio
    <3>1. x.place = "mark_completed"
      BY <2>1, <2>5, PassedStatus
    <3>2. x.place \in Sent /\ x.place \in Publishing
      BY <3>1, PublishingHas DEF Sent
    <3>3. QED
      BY <1>1, <2>5, <3>2 DEF Fits, Publishes
  <2>6. QED
    BY <2>3, <2>4, <2>5
<1>5. QED
  BY <1>3, <1>4

(* A normalize request after its write. *)
LEMMA CommitPublishes ==
  ASSUME NoResume, OInv, NEW a \in Actors, CallCommit(a), row # NoRow,
         NEW y, y.place = act[a].place, y.phase = "refresh",
         y.chosen = act[a].chosen, y.found = act[a].found
  PROVE  Publishes(y, row', minio, wiped)
<1> DEFINE x == act[a]
<1> SUFFICES ASSUME x.place \in Publishing PROVE Publishes(y, row', minio, wiped)
  BY DEF Publishes
<1>1. /\ x \in ActorState /\ x.place \in CallPlaces /\ x.copy \in Row /\ x.copy # NoRow
      /\ row \in Row /\ row' = Merged(row, x.copy, Written(x), Stamps(x)) /\ row' # NoRow
  BY Committed
<1>2. Publishes(x, row, minio, wiped) /\ Stale(x, row)
  BY ActorFits DEF Fits
<1>3. Publishes(x, row', minio, wiped)
  BY <1>2, CommitForward, PublishesUndisturbed
<1>4. x.place = "stamp_normalized" => row'.normalized
  <2>1. SUFFICES ASSUME x.place = "stamp_normalized" PROVE row'.normalized
    OBVIOUS
  <2>2. row'.normalized <=> row.normalized \/ ~x.copy.normalized
    BY <1>1, <2>1, CommitCheckpoints DEF Checkpoints
  <2>3. QED
    BY <1>1, <1>2, <2>2 DEF Stale
<1>5. x.place # "choose_upload"
  BY <1>1, CallPlacesIs DEF StatusPlaces, OtherCalls
<1>6. QED
  BY <1>1, <1>3, <1>4, <1>5 DEF Publishes, Leaves

(* The copy after its write. *)
LEMMA CommitStale ==
  ASSUME NoResume, OInv, NEW a \in Actors, CallCommit(a), row # NoRow,
         NEW y, y.copy = Written(act[a])
  PROVE  Stale(y, row')
<1> DEFINE x == act[a]
           d == Written(x)
<1>1. /\ x \in ActorState /\ x.place \in CallPlaces /\ x.copy \in Row /\ x.copy # NoRow
      /\ row \in Row /\ row' = Merged(row, x.copy, d, Stamps(x))
  BY Committed
<1>2. /\ x.copy.normalized => row.normalized
      /\ x.copy.status \in Late => row.normalized
  BY <1>1, ActorFits DEF Fits, Stale
<1>3. row.normalized => row'.normalized
  BY CommitStill
<1>4. d.normalized => row'.normalized
  <2>1. d.normalized <=> x.copy.normalized \/ x.place = "stamp_normalized"
    BY <1>1, WrittenCheckpoints DEF Checkpoints
  <2>2. row'.normalized <=> row.normalized \/ (x.place = "stamp_normalized" /\ ~x.copy.normalized)
    BY <1>1, CommitCheckpoints DEF Checkpoints
  <2>3. QED
    BY <1>2, <2>1, <2>2
<1>5. d.status \in Late => row'.normalized
  BY <1>2, <1>3, CommitStatus
<1>6. QED
  BY <1>4, <1>5 DEF Stale

(* The row after a write. *)
LEMMA CommitSound ==
  ASSUME NoResume, OInv, NEW a \in Actors, CallCommit(a), row # NoRow
  PROVE  RowSound(row', files, minio, wiped)
<1> DEFINE x == act[a]
           d == Written(x)
           m == row'
<1>1. /\ x \in ActorState /\ x.place \in CallPlaces /\ x.copy \in Row /\ x.copy # NoRow
      /\ row \in Row /\ m # NoRow
      /\ m.status = IF d.status # x.copy.status THEN d.status ELSE row.status
  BY Committed
<1>2. RowSound(row, files, minio, wiped) /\ Forward(row, m)
  BY CommitForward DEF OInv
<1>3. /\ row.extracted => m.extracted /\ m.counts = row.counts
      /\ row.normalized => m.normalized
  BY <1>1, <1>2 DEF Forward
<1>4. m.status \in ExtractedOn => row.extracted
  BY <1>1, <1>2, CommitStatus DEF RowSound
<1>5. m.status \in Late => row.normalized
  BY <1>1, <1>2, CommitStatus DEF RowSound
<1>6. m.status = "COMPLETED" => (~wiped => row.counts \subseteq minio)
  BY <1>1, <1>2, CommitStatus DEF RowSound
<1>7. "COMPLETED" \in ExtractedOn
  BY DEF ExtractedOn
<1>8. /\ m.downloaded => (~wiped => Have(files, m.ids))
      /\ ~wiped => m.counts \subseteq Disk(files)
      /\ m.extracted => (~wiped => Wanted \subseteq m.counts)
  <2>1. CASE x.place \notin Storing
    <3>1. Agrees(m, row)
      BY <1>1, <2>1, CommitStill DEF Still
    <3>2. QED
      BY <1>1, <1>2, <3>1 DEF RowSound, Agrees
  <2>2. CASE x.place = "store_jobs"
    <3>1. Waiting(m)
      BY <2>2, CommitStored DEF Storing
    <3>2. QED
      BY <3>1 DEF Waiting, Unread
  <2>3. CASE x.place = "store_download"
    <3>1. m.ids = row.ids /\ Unread(m) /\ (~wiped => Have(files, row.ids))
      BY <2>3, CommitStored DEF Storing
    <3>2. QED
      BY <3>1 DEF Unread
  <2>4. CASE x.place = "store_extraction"
    <3>1. /\ m.ids = row.ids /\ (m.downloaded <=> row.downloaded) /\ m.counts = x.found
          /\ ~wiped => Wanted \subseteq x.found /\ x.found \subseteq Disk(files)
      BY <2>4, CommitStored DEF Storing
    <3>2. QED
      BY <1>1, <1>2, <3>1 DEF RowSound
  <2>5. QED
    BY <2>1, <2>2, <2>3, <2>4 DEF Storing
<1> HIDE DEF m
<1>9. QED
  BY <1>3, <1>4, <1>5, <1>6, <1>7, <1>8 DEF RowSound, m

LEMMA CallCommitKeeps ==
  ASSUME NoResume, OInv, SInv', NEW a \in Actors, CallCommit(a)
  PROVE  OInv'
<1> DEFINE x == act[a]
<1>1. CASE row = NoRow
  <2>1. x.place # "idle"
    BY CallPlacesIs DEF CallCommit, StatusPlaces, OtherCalls
  <2>2. QED
    BY <1>1, <2>1, EndStep DEF CallCommit, Environment
<1>2. CASE row # NoRow
  <2> DEFINE d == Written(x)
             y == [x EXCEPT !.copy = d, !.phase = "refresh"]
  <2>1. /\ x \in ActorState /\ x.place \in CallPlaces /\ x.place # "idle"
        /\ act' = [act EXCEPT ![a] = y] /\ d \in Row /\ d # NoRow
        /\ UNCHANGED <<files, minio, started, wiped>>
    BY <1>2, Committed
  <2> HIDE DEF d
  <2>2. /\ y.place = x.place /\ y.copy = d /\ y.phase = "refresh" /\ y.plan = x.plan
        /\ y.chosen = x.chosen /\ y.items = x.items /\ y.found = x.found
        /\ y.attached = x.attached
    BY <2>1 DEF ActorState
  <2> HIDE DEF y
  <2>3. Path(y)
    BY <2>1, <2>2, ActorFits DEF Fits, Path
  <2>4. Task(y, row', files, wiped) /\ Publishes(y, row', minio, wiped) /\ Stale(y, row')
    BY <1>2, <2>2, CommitTask, CommitPublishes, CommitStale DEF d
  <2>5. Fits(y, row', files, minio, wiped)
    BY <2>3, <2>4 DEF Fits
  <2>6. RowSound(row', files, minio, wiped) /\ Forward(row, row') /\ started
    BY <1>2, <2>1, CommitSound, CommitForward, ActorFits
  <2>7. x.place \in TaskPlaces \/ Still(row, row')
    BY <1>2, StoringTask, CommitStill
  <2>8. QED
    BY <2>1, <2>2, <2>5, <2>6, <2>7, ActorStep
<1>3. QED
  BY <1>1, <1>2

LEMMA StepKeeps ==
  ASSUME NoResume, OInv, NEW a \in Actors, Step(a)
  PROVE  OInv'
<1>1. SInv'
  BY StepHolds DEF OInv
<1>2. QED
  BY <1>1, CallReadKeeps, CallCommitKeeps, CallRefreshKeeps, WorkflowKeeps, RequestKeeps DEF Step

-----------------------------------------------------------------------------
(* Arrivals *)

LEMMA StartScanKeeps ==
  ASSUME OInv, SInv', NEW a \in Actors, NEW p \in Processes, StartScan(a, p)
  PROVE  OInv'
<1> DEFINE y == [Idle EXCEPT !.place = "begin", !.proc = p, !.chosen = Wanted]
<1>1. /\ act' = [act EXCEPT ![a] = y] /\ row' = NewRow /\ started' = TRUE /\ ~started
      /\ UNCHANGED <<files, minio, wiped>>
  BY DEF StartScan
<1>2. /\ act'[a] = y /\ \A b \in Actors : b # a => act'[b] = Idle
      /\ \A b \in Actors : act[b] = Idle
  BY <1>1 DEF OInv, OneTask, SInv, AllActors
<1>3. y.place = "begin" /\ y.phase = "read" /\ y.copy = NoRow
  BY IdleTyped DEF Idle
<1> HIDE DEF y
<1>4. Blank(row') /\ row'.status = "PENDING"
  BY <1>1 DEF NewRow, Blank
<1>5. y.place \in Fresh /\ y.place \in TaskPlaces
  BY <1>3, TaskHas DEF Fresh
<1>6. y.place \notin Publishing /\ y.place # "reenter_extracting" /\ y.place # "configure"
  BY <1>3, <1>5, TaskIsNoHandler
<1>7. Fits(y, row', files, minio, wiped)
  BY <1>3, <1>4, <1>5, <1>6, StageAt DEF Fits, Path, Task, OwnCopy, Publishes, Stale
<1>8. \A b \in Actors : Fits(act'[b], row', files', minio', wiped')
  BY <1>1, <1>2, <1>7, IdleFits
<1>9. OneTask'
  BY <1>1, <1>2, IdleTyped, TaskIsNoHandler DEF OneTask
<1>10. RowSound(row', files', minio', wiped')
  BY <1>4 DEF RowSound, Blank, ExtractedOn, Late
<1>11. QED
  BY <1>8, <1>9, <1>10 DEF OInv

(* A handler arrives that touches nothing a task or a normalize request    *)
(* relies on before it deletes.                                            *)
LEMMA HandlerKeeps ==
  ASSUME OInv, SInv', NEW a \in Actors, NEW p \in Processes, row # NoRow,
         NEW q \in {"cancel", "delete_files", "delete_row", "crash"},
         act' = [act EXCEPT ![a] = Handler(p, q)],
         UNCHANGED <<row, files, minio, started, wiped>>
  PROVE  OInv'
<1> DEFINE y == Handler(p, q)
<1>1. q \in Places
  BY PlainPlaces DEF Plain
<1>2. y.place = q /\ y.phase = "read" /\ y.copy = row
  BY <1>1, HandlerTyped DEF OInv
<1> HIDE DEF y
<1>3. y.place \notin TaskPlaces /\ y.place \notin Publishing /\ y.place # "reenter_extracting"
  BY <1>2, TaskIsNoHandler DEF Publishing, Listing, Reading, Having, Sent
<1>4. Fits(y, row, files, minio, wiped)
  BY <1>2, <1>3, ActorFits, RowLate, AsideFits DEF Fits
<1>5. started
  BY DEF OInv, SInv
<1>6. QED
  BY <1>3, <1>4, <1>5, LocalStep DEF y

LEMMA NormalizeScanKeeps ==
  ASSUME OInv, SInv', NEW a \in Actors, NEW p \in Processes, NormalizeScan(a, p)
  PROVE  OInv'
<1>1. PICK u \in {"upload", "keep"} :
        act' = [act EXCEPT ![a] = [Handler(p, "mark_normalizing") EXCEPT !.plan = u]]
  BY DEF NormalizeScan
<1> DEFINE h == Handler(p, "mark_normalizing")
           y == [h EXCEPT !.plan = u]
<1>2. /\ row # NoRow /\ row.status = "EXTRACTED"
      /\ UNCHANGED <<row, files, minio, started, wiped>>
  BY DEF NormalizeScan, Arrives
<1>3. "mark_normalizing" \in Places
  BY PlainPlaces DEF Plain
<1>4. h \in ActorState /\ h.place = "mark_normalizing" /\ h.phase = "read" /\ h.copy = row /\ h.attached
  BY <1>2, <1>3, HandlerTyped DEF OInv
<1> HIDE DEF h
<1>5. /\ y.place = "mark_normalizing" /\ y.phase = "read" /\ y.copy = row /\ y.attached
  BY <1>4 DEF ActorState
<1> HIDE DEF y
<1>6. y.place \in Listing /\ y.place \in Publishing
  BY <1>5, PublishingHas DEF Listing
<1>7. y.place \notin TaskPlaces /\ y.place # "configure" /\ y.place # "reenter_extracting"
  BY <1>6, TaskIsNoHandler
<1>8. row.extracted
  BY <1>2 DEF OInv, RowSound, ExtractedOn
<1>9. Publishes(y, row, minio, wiped)
  BY <1>6, <1>8, PublishingAt
<1>10. Stale(y, row)
  BY <1>5, RowLate DEF Stale
<1>11. Fits(y, row, files, minio, wiped)
  BY <1>2, <1>5, <1>7, <1>9, <1>10 DEF Fits, Path, Task
<1>12. started
  BY <1>2 DEF OInv, SInv
<1>13. QED
  BY <1>1, <1>2, <1>7, <1>11, <1>12, LocalStep DEF y, h

LEMMA ArrivalKeeps ==
  ASSUME NoResume, OInv, NEW a \in Actors, NEW p \in Processes, Arrival(a, p)
  PROVE  OInv'
<1>1. SInv'
  BY ArrivalHolds DEF OInv
<1>2. CASE StartScan(a, p)
  BY <1>1, <1>2, StartScanKeeps
<1>3. CASE NormalizeScan(a, p)
  BY <1>1, <1>3, NormalizeScanKeeps
<1>4. CASE CancelScan(a, p) \/ RemoveScan(a, p) \/ CleanupOldJobs(a, p) \/ DetectCrashed(a, p)
  <2>1. row # NoRow /\ UNCHANGED <<row, files, minio, started, wiped>>
    BY <1>4 DEF CancelScan, RemoveScan, CleanupOldJobs, DetectCrashed, Arrives, Environment
  <2>2. PICK q \in {"cancel", "delete_files", "delete_row", "crash"} :
          act' = [act EXCEPT ![a] = Handler(p, q)]
    BY <1>4 DEF CancelScan, RemoveScan, CleanupOldJobs, DetectCrashed
  <2>3. QED
    BY <1>1, <2>1, <2>2, HandlerKeeps
<1>5. ~ResumeScan(a, p)
  BY DEF ResumeScan, Arrives, NoResume
<1>6. QED
  BY <1>2, <1>3, <1>4, <1>5 DEF Arrival

-----------------------------------------------------------------------------
(* All steps *)

LEMMA HeartbeatAgesKeeps ==
  ASSUME OInv, HeartbeatAges
  PROVE  OInv'
<1>1. /\ row \in Row /\ row # NoRow /\ row' = [row EXCEPT !.heartbeat = "stale"]
      /\ UNCHANGED <<files, minio, act, started, wiped>>
  BY DEF HeartbeatAges, OInv, SInv, TypeOK, Environment
<1>2. /\ row'.ids = row.ids /\ row'.downloaded = row.downloaded
      /\ row'.extracted = row.extracted /\ row'.counts = row.counts
      /\ row'.normalized = row.normalized /\ row'.status = row.status
  BY <1>1 DEF Row
<1>3. row' # NoRow
  <2>1. row' \in Row
    BY <1>1 DEF Row, Heartbeat
  <2>2. QED
    BY <2>1, PipelineAssumption
<1>4. Agrees(row', row) /\ (row.normalized => row'.normalized)
  BY <1>1, <1>2 DEF Agrees, Row
<1>5. Still(row, row') /\ Forward(row, row')
  BY <1>1, <1>4, StillForward DEF Still
<1>6. \A a \in Actors : Fits(act[a], row', files, minio, wiped)
  BY <1>5, TaskUndisturbed, PublishesUndisturbed, StaleUndisturbed DEF OInv, Fits
<1>7. RowSound(row', files, minio, wiped)
  BY <1>1, <1>2, <1>4 DEF OInv, RowSound, Agrees, Row
<1>8. SInv'
  BY HeartbeatAgesHolds DEF OInv
<1>9. QED
  BY <1>1, <1>6, <1>7, <1>8 DEF OInv, OneTask

LEMMA CrashKeeps ==
  ASSUME OInv, NEW p \in Processes, Crash(p)
  PROVE  OInv'
<1>1. /\ act' = [a \in Actors |-> IF act[a].proc = p THEN Idle ELSE act[a]]
      /\ UNCHANGED <<row, files, minio, started, wiped>>
  BY DEF Crash
<1>2. \A a \in Actors : act'[a] \in {Idle, act[a]}
  BY <1>1
<1>3. \A a \in Actors : Fits(act'[a], row, files, minio, wiped)
  BY <1>2, IdleFits DEF OInv
<1>4. \A a \in Actors : act'[a].place \in TaskPlaces => act[a].place \in TaskPlaces
  BY <1>2, IdleTyped, TaskIsNoHandler
<1>5. OneTask'
  BY <1>1, <1>2, <1>4 DEF OInv, OneTask
<1>6. SInv'
  BY CrashHolds DEF OInv
<1>7. QED
  BY <1>1, <1>3, <1>5, <1>6 DEF OInv

LEMMA InitKeeps == Init => OInv
<1> SUFFICES ASSUME Init PROVE OInv
  OBVIOUS
<1>1. \A a \in Actors : act[a] = Idle
  BY DEF Init
<1>2. OneTask
  BY <1>1, IdleTyped, TaskIsNoHandler DEF OneTask
<1>3. RowSound(row, files, minio, wiped)
  BY DEF Init, RowSound
<1>4. QED
  BY <1>1, <1>2, <1>3, InitHolds, IdleFits DEF OInv

LEMMA NextKeeps == NoResume => (OInv /\ [Next]_vars => OInv')
<1> SUFFICES ASSUME NoResume, OInv, [Next]_vars PROVE OInv'
  OBVIOUS
<1>1. CASE UNCHANGED vars
  <2>1. SInv'
    BY NextHolds DEF OInv
  <2>2. QED
    BY <1>1, <2>1 DEF vars, OInv, OneTask
<1>2. CASE Quiet
  BY <1>1, <1>2 DEF Quiet
<1>3. QED
  BY <1>1, <1>2, StepKeeps, ArrivalKeeps, HeartbeatAgesKeeps, CrashKeeps DEF Next

LEMMA OutcomeInvariance == NoResume => (Spec => []OInv)
<1>1. NoResume => (Init => OInv)
  BY InitKeeps
<1>2. NoResume => (OInv /\ [Next]_vars => OInv')
  BY NextKeeps
<1> SUFFICES ASSUME NoResume PROVE Spec => []OInv
  OBVIOUS
<1>3. Init => OInv
  BY <1>1
<1>4. OInv /\ [Next]_vars => OInv'
  BY <1>2
<1>5. QED
  BY <1>3, <1>4, PTL DEF Spec

-----------------------------------------------------------------------------
(* The results *)

(* A scan nobody resumes: once downloaded_at is stamped, the directory     *)
(* holds, for every recorded Bulk job, the result of that very job, also   *)
(* when the task or a normalize request wrote from a stale copy of the     *)
(* row, was cancelled beside its work, or died with its process.           *)
THEOREM DownloadStays == NoResume => (Spec => []DownloadedMeansOnDisk)
<1>1. OInv => DownloadedMeansOnDisk
  BY DEF OInv, RowSound, DownloadedMeansOnDisk, Have
<1> SUFFICES ASSUME NoResume PROVE Spec => []DownloadedMeansOnDisk
  OBVIOUS
<1>2. Spec => []OInv
  BY OutcomeInvariance
<1>3. QED
  BY <1>1, <1>2, PTL

(* A scan nobody resumes: when it counts as extracted, it has a record     *)
(* count for every object it was asked for.                                *)
THEOREM ExtractionIsWhole == NoResume => (Spec => []ExtractedCoversScan)
<1>1. OInv => ExtractedCoversScan
  BY DEF OInv, RowSound, ExtractedCoversScan
<1> SUFFICES ASSUME NoResume PROVE Spec => []ExtractedCoversScan
  OBVIOUS
<1>2. Spec => []OInv
  BY OutcomeInvariance
<1>3. QED
  BY <1>1, <1>2, PTL

(* A scan nobody resumes: COMPLETED is reached only with every extracted   *)
(* object's tables in the object store and normalized_at on the row,       *)
(* however many normalize requests, cancellations and crash detections     *)
(* overwrite one another.                                                  *)
THEOREM CompletionIsPublished == NoResume => (Spec => []CompletedMeansPublished)
<1>1. OInv => CompletedMeansPublished
  BY DEF OInv, RowSound, CompletedMeansPublished, Late
<1> SUFFICES ASSUME NoResume PROVE Spec => []CompletedMeansPublished
  OBVIOUS
<1>2. Spec => []OInv
  BY OutcomeInvariance
<1>3. QED
  BY <1>1, <1>2, PTL

===============================================================================
