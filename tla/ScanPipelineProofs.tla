-------------------------- MODULE ScanPipelineProofs --------------------------
(***************************************************************************)
(* What the handlers and tasks of a scan keep, for any number of actors,   *)
(* processes, objects, remote jobs, requests, polls and crashes.           *)
(*                                                                         *)
(* The argument is about one actor at a time: a step moves one actor from  *)
(* x to y, and Shape and Cover speak of an actor state alone, so the other *)
(* actors keep them whatever the step does to the row, the files and the   *)
(* object store.                                                           *)
(*                                                                         *)
(* The second half is about how a scan ends: completion time, the two      *)
(* commits of an upload, and who may take a scan that is over further.     *)
(***************************************************************************)
EXTENDS ScanPipeline, JobRowProofs

-----------------------------------------------------------------------------
(* The places of the calls *)

StatusPlaces == {"mark_requested", "mark_processing", "mark_ready", "mark_downloading",
                 "mark_downloaded", "reenter_extracting", "mark_extracting",
                 "mark_extracted", "mark_normalizing", "mark_normalized",
                 "mark_uploading", "mark_uploaded", "mark_completed"}

OtherCalls == {"submit_heartbeat", "poll_heartbeat", "download_heartbeat",
               "normalize_heartbeat", "table_heartbeat", "upload_heartbeat",
               "uploaded_heartbeat", "store_jobs", "store_poll", "store_download",
               "store_extraction", "stamp_normalized", "stamp_uploaded", "fail",
               "cancel", "resume", "crash"}

LEMMA StatusPlacesIs == DOMAIN StatusAt = StatusPlaces
BY DEF StatusAt, StatusPlaces

LEMMA CallPlacesIs == CallPlaces = StatusPlaces \cup OtherCalls
BY StatusPlacesIs DEF CallPlaces, HeartbeatPlaces, OtherCalls, StatusPlaces

(* The statuses the calls pass are on the chain. *)
LEMMA StatusAtChain == \A p \in StatusPlaces : StatusAt[p] \in ChainStatus
<1>1. /\ StatusAt["mark_requested"] = "BATCH_REQUESTED"
      /\ StatusAt["mark_processing"] = "BATCH_PROCESSING"
      /\ StatusAt["mark_ready"] = "BATCH_READY"
      /\ StatusAt["mark_downloading"] = "DOWNLOADING"
      /\ StatusAt["mark_downloaded"] = "DOWNLOADED"
      /\ StatusAt["reenter_extracting"] = "EXTRACTING"
      /\ StatusAt["mark_extracting"] = "EXTRACTING"
      /\ StatusAt["mark_extracted"] = "EXTRACTED"
      /\ StatusAt["mark_normalizing"] = "NORMALIZING"
      /\ StatusAt["mark_normalized"] = "NORMALIZED"
      /\ StatusAt["mark_uploading"] = "UPLOADING_TO_MINIO"
      /\ StatusAt["mark_uploaded"] = "UPLOADED_TO_MINIO"
      /\ StatusAt["mark_completed"] = "COMPLETED"
  BY DEF StatusAt
<1>2. QED
  BY <1>1, ChainMembers DEF StatusPlaces

(* Where a call leads, one by one. *)
LEMMA AfterEach ==
  /\ After["mark_requested"] = "hold_for_submit"
  /\ After["store_jobs"] = "mark_processing"
  /\ After["mark_processing"] = "submit_heartbeat"
  /\ After["submit_heartbeat"] = "poll"
  /\ After["store_poll"] = "poll_heartbeat"
  /\ After["poll_heartbeat"] = "judge_poll"
  /\ After["mark_ready"] = "mark_downloading"
  /\ After["mark_downloading"] = "hold_for_download"
  /\ After["download_heartbeat"] = "next_download"
  /\ After["store_download"] = "mark_downloaded"
  /\ After["mark_downloaded"] = "mark_extracting"
  /\ After["reenter_extracting"] = "mark_extracting"
  /\ After["mark_extracting"] = "read_files"
  /\ After["store_extraction"] = "mark_extracted"
  /\ After["mark_extracted"] = "idle"
  /\ After["mark_normalizing"] = "normalize_heartbeat"
  /\ After["normalize_heartbeat"] = "list_files"
  /\ After["table_heartbeat"] = "make_tables"
  /\ After["mark_normalized"] = "check_normalized"
  /\ After["stamp_normalized"] = "choose_upload"
  /\ After["mark_uploading"] = "upload_heartbeat"
  /\ After["upload_heartbeat"] = "upload"
  /\ After["mark_uploaded"] = "check_uploaded"
  /\ After["stamp_uploaded"] = "uploaded_heartbeat"
  /\ After["uploaded_heartbeat"] = "mark_completed"
  /\ After["mark_completed"] = "idle"
  /\ After["fail"] = "idle"
  /\ After["cancel"] = "idle"
  /\ After["resume"] = "spawn"
  /\ After["crash"] = "idle"
BY DEF After

Fresh == {"begin", "configure", "mark_requested", "hold_for_submit"}

(* Only mark_requested leads to the creation of jobs, only the call of a   *)
(* resume to a new task, and none into the middle of a loop.               *)
LEMMA AfterPlaces ==
  ASSUME NEW p \in CallPlaces
  PROVE  /\ After[p] \in Places
         /\ After[p] \in Fresh => p = "mark_requested"
         /\ After[p] = "spawn" => p = "resume"
         /\ After[p] \notin {"configure", "create_jobs", "store_jobs", "download", "resume"}
<1>1. CASE p \in StatusPlaces
  BY <1>1, AfterEach, CallPlacesIs DEF StatusPlaces, OtherCalls, Places, Awaiting, LocalPlaces, Fresh
<1>2. CASE p \in OtherCalls
  BY <1>2, AfterEach, CallPlacesIs DEF StatusPlaces, OtherCalls, Places, Awaiting, LocalPlaces, Fresh
<1>3. QED
  BY <1>1, <1>2, CallPlacesIs

-----------------------------------------------------------------------------
(* What a call writes *)

LEMMA WrittenIs ==
  ASSUME NEW x, x.place \in CallPlaces
  PROVE  LET c == x.copy IN
         /\ x.place \in StatusPlaces => Written(x) = WithStatus(c, StatusAt[x.place])
         /\ x.place \in HeartbeatPlaces => Written(x) = Beat(c)
         /\ x.place = "store_jobs" => Written(x) = WithBatch(c, x.items)
         /\ x.place = "store_poll" => Written(x) = WithBatch(c, {})
         /\ x.place = "store_download" => Written(x) = Downloaded(c)
         /\ x.place = "store_extraction" => Written(x) = Extracted(c, x.found)
         /\ x.place = "stamp_normalized" => Written(x) = NormalizedNow(c)
         /\ x.place = "stamp_uploaded" => Written(x) = UploadedNow(c)
         /\ x.place \in {"fail", "crash"} => Written(x) = Failed(c)
         /\ x.place = "cancel" => Written(x) = Cancelled(c)
         /\ x.place = "resume" => Written(x) = Reentered(c, ResumeTarget(c))
BY StatusPlacesIs DEF Written, StatusPlaces, HeartbeatPlaces

(* A call writes a row, and sets a checkpoint only where it records it. *)
LEMMA WrittenCheckpoints ==
  ASSUME NEW x \in ActorState, x.place \in CallPlaces, x.copy \in Row
  PROVE  Checkpoints(Written(x),
                     IF x.place = "store_jobs" /\ x.items # {} THEN x.items ELSE x.copy.ids,
                     x.copy.downloaded \/ x.place = "store_download",
                     x.copy.extracted \/ x.place = "store_extraction",
                     IF x.place = "store_extraction" THEN x.found ELSE x.copy.counts,
                     x.copy.normalized \/ x.place = "stamp_normalized")
<1> DEFINE c == x.copy
<1>1. c \in Row /\ x.items \in SUBSET Items /\ x.found \in SUBSET Objects /\ {} \in SUBSET Items
  BY DEF ActorState
<1>2. CASE x.place \in StatusPlaces
  <2>1. Written(x) = WithStatus(c, StatusAt[x.place]) /\ StatusAt[x.place] \in Status
    BY <1>2, WrittenIs, StatusAtChain DEF Status
  <2>2. Same(Written(x), c)
    BY <1>1, <2>1, StatusKeeps
  <2>3. QED
    BY <1>2, <2>2 DEF Same, Checkpoints, StatusPlaces
<1>3. CASE x.place \in HeartbeatPlaces \cup {"stamp_uploaded", "fail", "crash", "cancel", "resume"}
  <2>1. Same(Written(x), c)
    <3>1. /\ Same(Beat(c), c) /\ Same(UploadedNow(c), c)
          /\ Same(Failed(c), c) /\ Same(Cancelled(c), c) /\ Same(Reentered(c, ResumeTarget(c)), c)
      BY <1>1, StatusKeeps, BeatKeeps, UploadedKeeps
    <3>2. QED
      BY <1>3, <3>1, WrittenIs
  <2>2. x.place \notin {"store_jobs", "store_download", "store_extraction", "stamp_normalized"}
    BY <1>3 DEF HeartbeatPlaces
  <2>3. QED
    BY <2>1, <2>2 DEF Same, Checkpoints
<1>4. CASE x.place = "store_jobs"
  <2>1. Written(x) = WithBatch(c, x.items)
    BY <1>4, WrittenIs
  <2>2. QED
    BY <1>1, <1>4, <2>1 DEF Checkpoints, WithBatch, Row
<1>5. CASE x.place = "store_poll"
  <2>1. Written(x) = WithBatch(c, {})
    BY <1>5, WrittenIs
  <2>2. QED
    BY <1>1, <1>5, <2>1 DEF Checkpoints, WithBatch, Row
<1>6. CASE x.place = "store_download"
  <2>1. Written(x) = Downloaded(c)
    BY <1>6, WrittenIs
  <2>2. QED
    BY <1>1, <1>6, <2>1 DEF Checkpoints, Downloaded, Row
<1>7. CASE x.place = "store_extraction"
  <2>1. Written(x) = Extracted(c, x.found)
    BY <1>7, WrittenIs
  <2>2. QED
    BY <1>1, <1>7, <2>1 DEF Checkpoints, Extracted, Row
<1>8. CASE x.place = "stamp_normalized"
  <2>1. Written(x) = NormalizedNow(c)
    BY <1>8, WrittenIs
  <2>2. QED
    BY <1>1, <1>8, <2>1 DEF Checkpoints, NormalizedNow, Row
<1>9. QED
  BY <1>2, <1>3, <1>4, <1>5, <1>6, <1>7, <1>8, CallPlacesIs DEF OtherCalls, HeartbeatPlaces

LEMMA StampsTyped == \A x : Stamps(x) \in SUBSET {"heartbeat", "completed"}
BY DEF Stamps

(* What the row is after the write of a call. *)
LEMMA CommitCheckpoints ==
  ASSUME NEW x \in ActorState, x.place \in CallPlaces, x.copy \in Row, NEW r \in Row
  PROVE  Checkpoints(Merged(r, x.copy, Written(x), Stamps(x)),
                     IF x.place = "store_jobs" /\ x.items # {} /\ x.items # x.copy.ids
                     THEN x.items ELSE r.ids,
                     r.downloaded \/ (x.place = "store_download" /\ ~x.copy.downloaded),
                     r.extracted \/ (x.place = "store_extraction" /\ ~x.copy.extracted),
                     IF x.place = "store_extraction" /\ x.found # x.copy.counts
                     THEN x.found ELSE r.counts,
                     r.normalized \/ (x.place = "stamp_normalized" /\ ~x.copy.normalized))
<1> DEFINE c == x.copy
           ids == IF x.place = "store_jobs" /\ x.items # {} THEN x.items ELSE c.ids
           counts == IF x.place = "store_extraction" THEN x.found ELSE c.counts
           dl == x.place = "store_download"
           ex == x.place = "store_extraction"
           nm == x.place = "stamp_normalized"
<1>1. Checkpoints(Written(x), ids, c.downloaded \/ dl, c.extracted \/ ex, counts,
                  c.normalized \/ nm)
  BY WrittenCheckpoints
<1>2. dl \in BOOLEAN /\ ex \in BOOLEAN /\ nm \in BOOLEAN
  OBVIOUS
<1> HIDE DEF dl, ex, nm, ids, counts
<1>3. Written(x) \in Row
  BY <1>1 DEF Checkpoints
<1> DEFINE d == Written(x)
           m == Merged(r, c, d, Stamps(x))
<1>4. /\ m \in Row
      /\ m.ids = IF d.ids # c.ids THEN d.ids ELSE r.ids
      /\ m.downloaded = IF d.downloaded # c.downloaded THEN d.downloaded ELSE r.downloaded
      /\ m.extracted = IF d.extracted # c.extracted THEN d.extracted ELSE r.extracted
      /\ m.counts = IF d.counts # c.counts THEN d.counts ELSE r.counts
      /\ m.normalized = IF d.normalized # c.normalized THEN d.normalized ELSE r.normalized
  BY <1>3, StampsTyped, MergedColumns
<1>5. c \in Row /\ d \in Row
  BY <1>3
<1>6. /\ d.ids = ids /\ d.counts = counts
      /\ d.downloaded <=> (c.downloaded \/ dl)
      /\ d.extracted <=> (c.extracted \/ ex)
      /\ d.normalized <=> (c.normalized \/ nm)
  BY <1>1 DEF Checkpoints
<1> HIDE DEF c, d, m
<1>7. /\ m.ids = IF ids # c.ids THEN ids ELSE r.ids
      /\ m.counts = IF counts # c.counts THEN counts ELSE r.counts
  BY <1>4, <1>6
<1>8. m.downloaded <=> r.downloaded \/ (dl /\ ~c.downloaded)
  BY <1>2, <1>4, <1>5, <1>6 DEF Row
<1>9. m.extracted <=> r.extracted \/ (ex /\ ~c.extracted)
  BY <1>2, <1>4, <1>5, <1>6 DEF Row
<1>10. m.normalized <=> r.normalized \/ (nm /\ ~c.normalized)
  BY <1>2, <1>4, <1>5, <1>6 DEF Row
<1>11. QED
  BY <1>4, <1>7, <1>8, <1>9, <1>10 DEF Checkpoints, c, d, m, dl, ex, nm, ids, counts

-----------------------------------------------------------------------------
(* Moving an actor *)

LEMMA PlacesAre == CallPlaces \subseteq Places /\ Awaiting \subseteq Places /\ LocalPlaces \subseteq Places
BY DEF Places

LEMMA IdleTyped == Idle \in ActorState /\ Idle.copy = NoRow /\ Idle.phase = "read" /\ Idle.place = "idle"
BY PlacesAre DEF Idle, ActorState, Awaiting

LEMMA MovedFields ==
  ASSUME NEW x \in ActorState, NEW p \in Places, p # "idle"
  PROVE  LET y == Moved(x, p) IN
         /\ y \in ActorState
         /\ y.place = p /\ y.phase = "read"
         /\ y.proc = x.proc /\ y.attached = x.attached /\ y.plan = x.plan
         /\ y.chosen = x.chosen /\ y.items = x.items /\ y.found = x.found /\ y.polls = x.polls
         /\ y.copy \in {x.copy, NoRow}
         /\ x.attached => y.copy = x.copy
<1> DEFINE held == IF x.attached \/ p \in JobInScope THEN x.copy ELSE NoRow
           y == [x EXCEPT !.place = p, !.phase = "read", !.copy = held]
<1>1. Moved(x, p) = y
  BY DEF Moved
<1>2. held \in {x.copy, NoRow} /\ (x.attached => held = x.copy) /\ held \in Row \cup {NoRow}
  BY DEF ActorState
<1> HIDE DEF held
<1>3. y \in ActorState
  BY <1>2 DEF ActorState
<1>4. /\ y.place = p /\ y.phase = "read" /\ y.copy = held
      /\ y.proc = x.proc /\ y.attached = x.attached /\ y.plan = x.plan
      /\ y.chosen = x.chosen /\ y.items = x.items /\ y.found = x.found /\ y.polls = x.polls
  BY DEF ActorState
<1>5. QED
  BY <1>1, <1>2, <1>3, <1>4

LEMMA MovedToIdle == \A x : Moved(x, "idle") = Idle
BY DEF Moved

-----------------------------------------------------------------------------
(* The invariant *)

(* Conditions under which a task has all the objects of the scan to do:    *)
(* the task of a resume takes the supported objects.                       *)
Covered == "resume" \notin Requests \/ Wanted \subseteq Supported

ObjectsOf(items) == {item[1] : item \in items}

SameJob(items) == \A i, k \in items : i[2] = k[2]

(* What the next step of an actor relies on. *)
Shape(x) ==
  /\ x.place \in Fresh \cup {"create_jobs"} => x.chosen # {}
  /\ x.place = "configure" => x.plan \in {"submit", "reenter", "extract"}
  /\ x.place = "download" => x.items # {}
  /\ x.phase # "read" => x.copy # NoRow

(* The submission under way: its jobs so far, and the objects left.        *)
Cover(x) ==
  /\ x.place \in {"resume", "spawn"} => "resume" \in Requests
  /\ x.place \in Fresh => Wanted \subseteq x.chosen /\ x.items = {}
  /\ x.place = "create_jobs" =>
       Wanted \subseteq x.chosen \cup ObjectsOf(x.items) /\ SameJob(x.items)
  /\ x.place = "store_jobs" =>
       Wanted \subseteq ObjectsOf(x.items) /\ SameJob(x.items)

Actor(x) == x \in ActorState /\ Shape(x) /\ (Covered => Cover(x))

AllActors == act \in [Actors -> ActorState] /\ \A a \in Actors : Actor(act[a])

(* The stored identifiers are those of one submission for all objects.     *)
RowCover ==
  Covered /\ row # NoRow /\ row.ids # {} => Wanted \subseteq ObjectsOf(row.ids) /\ SameJob(row.ids)

SInv ==
  /\ TypeOK
  /\ ~started => row = NoRow
  /\ AllActors
  /\ RowCover

LEMMA IdleActor == Actor(Idle)
BY IdleTyped DEF Actor, Shape, Cover, Fresh

(* The places Shape and Cover ask nothing of. *)
Plain == Places \ (Fresh \cup {"configure", "create_jobs", "store_jobs", "download",
                               "resume", "spawn"})

LEMMA PlainPlaces ==
  /\ {"idle", "check_jobs", "sleep", "poll", "begin_check", "judge_poll", "hold_for_download",
      "next_download", "read_files", "delete_files", "delete_row", "list_files",
      "make_tables", "check_normalized", "choose_upload", "upload", "check_uploaded"} \subseteq Plain
  /\ {"store_poll", "store_download", "store_extraction", "stamp_normalized", "stamp_uploaded",
      "uploaded_heartbeat", "download_heartbeat", "table_heartbeat", "fail", "cancel",
      "crash"} \subseteq Plain
  /\ {"mark_ready", "mark_normalizing", "mark_normalized", "mark_uploading",
      "mark_uploaded"} \subseteq Plain
<1>1. Fresh \cup {"configure", "create_jobs", "store_jobs", "download", "resume", "spawn"}
        = {"begin", "configure", "mark_requested", "hold_for_submit", "create_jobs",
           "store_jobs", "download", "resume", "spawn"}
  BY DEF Fresh
<1>2. {"idle", "check_jobs", "sleep", "poll", "begin_check", "judge_poll", "hold_for_download",
       "next_download", "read_files", "delete_files", "delete_row", "list_files",
       "make_tables", "check_normalized", "choose_upload", "upload", "check_uploaded"} \subseteq Plain
  BY <1>1 DEF Plain, Places, Awaiting, LocalPlaces
<1>3. {"store_poll", "store_download", "store_extraction", "stamp_normalized", "stamp_uploaded",
       "uploaded_heartbeat", "download_heartbeat", "table_heartbeat", "fail", "cancel",
       "crash"} \subseteq Plain
  BY <1>1, CallPlacesIs DEF Plain, Places, OtherCalls
<1>4. {"mark_ready", "mark_normalizing", "mark_normalized", "mark_uploading",
       "mark_uploaded"} \subseteq Plain
  BY <1>1, CallPlacesIs DEF Plain, Places, StatusPlaces
<1>5. QED
  BY <1>2, <1>3, <1>4

LEMMA PlainMove ==
  ASSUME NEW x \in ActorState, NEW p \in Plain
  PROVE  Actor(Moved(x, p))
<1>0. p \in Places
  BY DEF Plain
<1>1. CASE p = "idle"
  BY <1>1, IdleActor, MovedToIdle
<1>2. CASE p # "idle"
  <2> DEFINE y == Moved(x, p)
  <2>1. y \in ActorState /\ y.place = p /\ y.phase = "read"
    BY <1>0, <1>2, MovedFields
  <2> HIDE DEF y
  <2>2. QED
    BY <2>1 DEF Actor, Shape, Cover, Plain, y
<1>3. QED
  BY <1>1, <1>2

(* The actor that steps is y afterwards. *)
LEMMA ActorSteps ==
  ASSUME SInv, NEW a \in Actors, NEW y, Actor(y), act' = [act EXCEPT ![a] = y]
  PROVE  AllActors'
<1>1. act' \in [Actors -> ActorState] /\ act'[a] = y /\ \A b \in Actors : b # a => act'[b] = act[b]
  BY DEF SInv, AllActors, Actor
<1>2. \A b \in Actors : Actor(act'[b])
  BY <1>1 DEF SInv, AllActors
<1>3. QED
  BY <1>1, <1>2 DEF AllActors

LEMMA ActorIs ==
  ASSUME SInv, NEW a \in Actors
  PROVE  Actor(act[a]) /\ act[a] \in ActorState
BY DEF SInv, AllActors

LEMMA EndHolds ==
  ASSUME SInv, NEW a \in Actors, End(a)
  PROVE  AllActors'
BY IdleActor, ActorSteps DEF End

LEMMA MoveHolds ==
  ASSUME SInv, NEW a \in Actors, NEW y \in ActorState, NEW p \in Plain,
         act' = [act EXCEPT ![a] = Moved(y, p)]
  PROVE  AllActors'
BY PlainMove, ActorSteps

LEMMA GotoHolds ==
  ASSUME SInv, NEW a \in Actors, NEW p \in Plain, Goto(a, p)
  PROVE  AllActors'
<1>1. act' = [act EXCEPT ![a] = Moved(act[a], p)]
  BY DEF Goto
<1>2. QED
  BY <1>1, ActorIs, MoveHolds

(* A step that leaves the row alone. *)
LEMMA RowStays ==
  ASSUME SInv, AllActors', UNCHANGED <<row, started>>,
         files' \in [Objects -> RemoteJobs \cup {NoRow}], minio' \subseteq Objects,
         unused' \subseteq RemoteJobs, left' \in 0..MaxRequests,
         crashes' \in 0..MaxCrashes, wiped' \in BOOLEAN, beside' \in BOOLEAN
  PROVE  SInv'
BY DEF SInv, TypeOK, AllActors, RowCover, ObjectsOf, SameJob

(* A step that changes nothing but what an actor is doing. *)
LEMMA OnlyActorMoves ==
  ASSUME SInv, AllActors', UNCHANGED <<row, files, minio, Environment>>
  PROVE  SInv'
BY RowStays DEF SInv, TypeOK, Environment

-----------------------------------------------------------------------------
(* Calls *)

(* The end of a call: y is x with another copy of the row. *)
LEMMA CallLeaves ==
  ASSUME NEW x, Actor(x), x.place \in CallPlaces,
         NEW y \in ActorState, y.chosen = x.chosen, y.items = x.items
  PROVE  Actor(Moved(y, After[x.place]))
<1> DEFINE p == After[x.place]
           z == Moved(y, p)
<1>1. /\ p \in Places
      /\ p \in Fresh => x.place = "mark_requested"
      /\ p = "spawn" => x.place = "resume"
      /\ p \notin {"configure", "create_jobs", "store_jobs", "download", "resume"}
  BY AfterPlaces
<1> HIDE DEF p
<1>2. CASE p = "spawn"
  <2>1. z \in ActorState /\ z.place = p /\ z.phase = "read"
    BY <1>2, <1>1, MovedFields
  <2> HIDE DEF z
  <2>2. Actor(z)
    BY <1>1, <1>2, <2>1 DEF Actor, Shape, Cover, Fresh
  <2>3. QED
    BY <2>2 DEF z, p
<1>3. CASE p \in Fresh
  <2>1. /\ z \in ActorState /\ z.place = p /\ z.phase = "read"
        /\ z.chosen = x.chosen /\ z.items = x.items
    BY <1>3, <1>1, MovedFields DEF Fresh
  <2>2. x.place \in Fresh
    BY <1>1, <1>3 DEF Fresh
  <2>3. /\ x.chosen # {}
        /\ Covered => Wanted \subseteq x.chosen /\ x.items = {}
    BY <2>2 DEF Actor, Shape, Cover
  <2> HIDE DEF z
  <2>4. p \notin {"create_jobs", "store_jobs", "download", "resume", "spawn", "configure"}
    BY <1>1, <1>3 DEF Fresh
  <2>5. Actor(z)
    BY <2>1, <2>3, <2>4 DEF Actor, Shape, Cover
  <2>6. QED
    BY <2>5 DEF z, p
<1>4. CASE p \notin Fresh /\ p # "spawn"
  <2>1. p \in Plain
    BY <1>1, <1>4 DEF Plain
  <2>2. QED
    BY <2>1, PlainMove DEF p
<1>5. QED
  BY <1>2, <1>3, <1>4

LEMMA CallReadHolds ==
  ASSUME SInv, NEW a \in Actors, CallRead(a)
  PROVE  SInv'
<1> DEFINE x == act[a]
           c == GetJob(x)
           x1 == [x EXCEPT !.copy = c]
<1>1. Actor(x) /\ x \in ActorState /\ x.place \in CallPlaces
  BY ActorIs DEF CallRead
<1>2. c \in Row \cup {NoRow}
  BY <1>1 DEF GetJob, ActorState, SInv, TypeOK
<1>3. CASE c # NoRow /\ Accepts(x, c)
  <2> DEFINE y == [x EXCEPT !.copy = c, !.phase = "commit"]
  <2>1. act' = [act EXCEPT ![a] = y]
    BY <1>3 DEF CallRead
  <2>2. /\ y \in ActorState /\ y.place = x.place /\ y.copy = c
        /\ y.chosen = x.chosen /\ y.plan = x.plan /\ y.items = x.items
    BY <1>1, <1>2 DEF ActorState
  <2> HIDE DEF y
  <2>3. Actor(y)
    BY <1>1, <1>3, <2>2 DEF Actor, Shape, Cover
  <2>4. QED
    BY <2>1, <2>3, ActorSteps, OnlyActorMoves DEF CallRead
<1>4. CASE ~(c # NoRow /\ Accepts(x, c))
  <2>1. act' = [act EXCEPT ![a] = Moved(x1, After[x.place])]
    BY <1>4 DEF CallRead
  <2>2. /\ x1 \in ActorState /\ x1.chosen = x.chosen /\ x1.items = x.items
    BY <1>1, <1>2 DEF ActorState
  <2> HIDE DEF x1
  <2>3. Actor(Moved(x1, After[x.place]))
    BY <1>1, <2>2, CallLeaves DEF Actor
  <2>4. QED
    BY <2>1, <2>3, ActorSteps, OnlyActorMoves DEF CallRead
<1>5. QED
  BY <1>3, <1>4

LEMMA CallCommitHolds ==
  ASSUME SInv, NEW a \in Actors, CallCommit(a)
  PROVE  SInv'
<1> DEFINE x == act[a]
           d == Written(x)
           m == Merged(row, x.copy, d, Stamps(x))
<1>1. Actor(x) /\ x \in ActorState /\ x.place \in CallPlaces /\ x.phase = "commit"
  BY ActorIs DEF CallCommit
<1>2. x.copy \in Row
  BY <1>1 DEF Actor, Shape, ActorState
<1>3. CASE row = NoRow
  BY <1>3, EndHolds, OnlyActorMoves DEF CallCommit
<1>4. CASE row # NoRow
  <2> DEFINE y == [x EXCEPT !.copy = d, !.phase = "refresh"]
  <2>1. act' = [act EXCEPT ![a] = y] /\ row' = m /\ UNCHANGED <<files, minio, Environment>>
    BY <1>4 DEF CallCommit
  <2>2. d \in Row /\ d # NoRow
    BY <1>1, <1>2, WrittenCheckpoints, PipelineAssumption DEF Checkpoints
  <2>3. row \in Row
    BY <1>4 DEF SInv, TypeOK
  <2>4. m \in Row /\ m # NoRow /\ m.ids \in {x.items, row.ids} /\ (m.ids = row.ids \/ x.place = "store_jobs")
    BY <1>1, <1>2, <2>3, CommitCheckpoints, PipelineAssumption DEF Checkpoints
  <2> HIDE DEF d, m
  <2>5. /\ y \in ActorState /\ y.place = x.place /\ y.copy = d
        /\ y.chosen = x.chosen /\ y.plan = x.plan /\ y.items = x.items
    BY <1>1, <2>2 DEF ActorState
  <2> HIDE DEF y
  <2>6. Actor(y)
    BY <1>1, <2>2, <2>5 DEF Actor, Shape, Cover
  <2>7. AllActors'
    BY <2>1, <2>6, ActorSteps
  <2>8. TypeOK'
    BY <2>1, <2>4, <2>7 DEF SInv, TypeOK, AllActors, Environment
  <2>9. RowCover'
    BY <1>1, <1>4, <2>1, <2>4 DEF SInv, RowCover, Actor, Cover
  <2>10. started' = started /\ started
    BY <1>4, <2>1 DEF SInv, Environment
  <2>11. QED
    BY <2>7, <2>8, <2>9, <2>10 DEF SInv
<1>5. QED
  BY <1>3, <1>4

LEMMA CallRefreshHolds ==
  ASSUME SInv, NEW a \in Actors, CallRefresh(a)
  PROVE  SInv'
<1> DEFINE x == act[a]
           x1 == [x EXCEPT !.copy = row]
<1>1. Actor(x) /\ x \in ActorState /\ x.place \in CallPlaces
  BY ActorIs DEF CallRefresh
<1>2. CASE row = NoRow
  BY <1>2, EndHolds, OnlyActorMoves DEF CallRefresh
<1>3. CASE row # NoRow
  <2>1. act' = [act EXCEPT ![a] = Moved(x1, After[x.place])]
    BY <1>3 DEF CallRefresh
  <2>2. x1 \in ActorState /\ x1.chosen = x.chosen /\ x1.items = x.items
    BY <1>1, <1>3 DEF ActorState, SInv, TypeOK
  <2> HIDE DEF x1
  <2>3. Actor(Moved(x1, After[x.place]))
    BY <1>1, <2>2, CallLeaves DEF Actor
  <2>4. QED
    BY <2>1, <2>3, ActorSteps, OnlyActorMoves DEF CallRefresh
<1>4. QED
  BY <1>2, <1>3

-----------------------------------------------------------------------------
(* The workflow task *)

LEMMA BeginHolds ==
  ASSUME SInv, NEW a \in Actors, Begin(a)
  PROVE  SInv'
<1> DEFINE x == act[a]
<1>1. Actor(x) /\ x \in ActorState /\ x.place = "begin"
  BY ActorIs DEF Begin, At
<1>2. CASE End(a)
  BY <1>2, EndHolds, OnlyActorMoves DEF Begin
<1>3. CASE ~End(a)
  <2> DEFINE plan == IF row.ids = {} THEN "submit"
                     ELSE IF row.downloaded THEN "reenter" ELSE "extract"
             y(t) == [x EXCEPT !.copy = row, !.attached = (t = "attached"), !.plan = plan]
  <2>1. PICK t \in Teardowns : row # NoRow /\ act' = [act EXCEPT ![a] = Moved(y(t), "configure")]
    BY <1>3 DEF Begin
  <2>2. plan \in {"submit", "reenter", "extract"}
    OBVIOUS
  <2> HIDE DEF plan
  <2>3. /\ y(t) \in ActorState /\ y(t).chosen = x.chosen /\ y(t).items = x.items
        /\ y(t).plan = plan
    BY <1>1, <2>1, <2>2 DEF ActorState, SInv, TypeOK
  <2> DEFINE z == Moved(y(t), "configure")
  <2> HIDE DEF y
  <2>4. "configure" \in Places
    BY PlacesAre DEF Awaiting
  <2>5. /\ z \in ActorState /\ z.place = "configure" /\ z.phase = "read"
        /\ z.chosen = x.chosen /\ z.items = x.items /\ z.plan = plan
    BY <2>3, <2>4, MovedFields
  <2> HIDE DEF z
  <2>6. Actor(z)
    BY <1>1, <2>2, <2>5 DEF Actor, Shape, Cover, Fresh
  <2>7. QED
    BY <2>1, <2>6, ActorSteps, OnlyActorMoves DEF Begin, z
<1>4. QED
  BY <1>2, <1>3

LEMMA ConfigureHolds ==
  ASSUME SInv, NEW a \in Actors, Configure(a)
  PROVE  SInv'
<1> DEFINE x == act[a]
           p == PlanStart[x.plan]
<1>1. Actor(x) /\ x \in ActorState /\ x.place = "configure"
  BY ActorIs DEF Configure, At
<1>2. x.plan \in {"submit", "reenter", "extract"}
  BY <1>1 DEF Actor, Shape
<1>3. /\ PlanStart["submit"] = "mark_requested"
      /\ PlanStart["reenter"] = "reenter_extracting"
      /\ PlanStart["extract"] = "mark_extracting"
  BY DEF PlanStart
<1>4. p \in {"mark_requested", "reenter_extracting", "mark_extracting"}
  BY <1>2, <1>3
<1>5. act' = [act EXCEPT ![a] = Moved(x, p)]
  BY DEF Configure, Goto
<1> HIDE DEF p
<1>6. p \in Places /\ p # "idle"
  BY <1>4, CallPlacesIs, PlacesAre DEF StatusPlaces
<1> DEFINE z == Moved(x, p)
<1>7. /\ z \in ActorState /\ z.place = p /\ z.phase = "read"
      /\ z.chosen = x.chosen /\ z.items = x.items
  BY <1>1, <1>6, MovedFields
<1> HIDE DEF z
<1>8. Actor(z)
  BY <1>1, <1>4, <1>7 DEF Actor, Shape, Cover, Fresh
<1>9. QED
  BY <1>5, <1>8, ActorSteps, OnlyActorMoves DEF Configure, z

(* The loop of submit_batch_jobs ends in the call that stores the jobs, in *)
(* another request, or in fail.                                            *)
LEMMA NextCreatePlaces ==
  ASSUME NEW chosen
  PROVE  /\ NextCreate(chosen) \in {"store_jobs", "create_jobs", "fail"}
         /\ NextCreate(chosen) = "store_jobs" => chosen = {}
         /\ NextCreate(chosen) = "create_jobs" => chosen # {}
         /\ NextCreate(chosen) \in Places /\ NextCreate(chosen) # "idle"
<1>1. /\ NextCreate(chosen) \in {"store_jobs", "create_jobs", "fail"}
      /\ NextCreate(chosen) = "store_jobs" => chosen = {}
      /\ NextCreate(chosen) = "create_jobs" => chosen # {}
  BY DEF NextCreate
<1>2. {"store_jobs", "create_jobs", "fail"} \subseteq Places
  BY CallPlacesIs DEF Places, OtherCalls, Awaiting
<1>3. QED
  BY <1>1, <1>2

LEMMA HoldForSubmitHolds ==
  ASSUME SInv, NEW a \in Actors, HoldForSubmit(a)
  PROVE  SInv'
<1> DEFINE x == act[a]
           y == [x EXCEPT !.copy = GetJob(x)]
           p == NextCreate(x.chosen)
           z == Moved(y, p)
<1>1. Actor(x) /\ x \in ActorState /\ x.place = "hold_for_submit"
  BY ActorIs DEF HoldForSubmit, At
<1>2. GetJob(x) \in Row \cup {NoRow}
  BY <1>1 DEF GetJob, ActorState, SInv, TypeOK
<1>3. y \in ActorState /\ y.chosen = x.chosen /\ y.items = x.items
  BY <1>1, <1>2 DEF ActorState
<1>4. p \in {"create_jobs", "fail"} /\ p \in Places /\ p # "idle"
  BY <1>1, NextCreatePlaces DEF Actor, Shape, Fresh
<1> HIDE DEF y, p
<1>5. /\ z \in ActorState /\ z.place = p /\ z.phase = "read"
      /\ z.chosen = x.chosen /\ z.items = x.items
  BY <1>3, <1>4, MovedFields
<1> HIDE DEF z
<1>6. Actor(z)
  BY <1>1, <1>4, <1>5 DEF Actor, Shape, Cover, Fresh, ObjectsOf, SameJob
<1>7. QED
  BY <1>6, ActorSteps, OnlyActorMoves DEF HoldForSubmit, y, p, z

(* A submission with one more job, of the next object. *)
LEMMA OneMoreJob ==
  ASSUME NEW items \in SUBSET Items, NEW o \in Objects, NEW j \in RemoteJobs,
         items = {} \/ j \in {item[2] : item \in items}
  PROVE  LET more == items \cup {<<o, j>>} IN
         /\ more \in SUBSET Items
         /\ ObjectsOf(more) = ObjectsOf(items) \cup {o}
         /\ SameJob(items) => SameJob(more)
<1> DEFINE more == items \cup {<<o, j>>}
<1>1. more \in SUBSET Items
  BY DEF Items
<1>2. ObjectsOf(more) = ObjectsOf(items) \cup {o}
  <2>1. <<o, j>>[1] = o /\ <<o, j>> \in more /\ items \subseteq more
    OBVIOUS
  <2>2. \A i \in more : i \in items \/ i = <<o, j>>
    OBVIOUS
  <2> HIDE DEF more
  <2>3. ObjectsOf(items) \cup {o} \subseteq ObjectsOf(more)
    BY <2>1 DEF ObjectsOf
  <2>4. ObjectsOf(more) \subseteq ObjectsOf(items) \cup {o}
    BY <2>1, <2>2 DEF ObjectsOf
  <2>5. QED
    BY <2>3, <2>4
<1>3. SameJob(items) => SameJob(more)
  BY DEF SameJob
<1>4. QED
  BY <1>1, <1>2, <1>3

LEMMA CreateJobHolds ==
  ASSUME SInv, NEW a \in Actors, CreateJob(a)
  PROVE  SInv'
<1> DEFINE x == act[a]
           o == CHOOSE o \in x.chosen : TRUE
<1>1. Actor(x) /\ x \in ActorState /\ x.place = "create_jobs"
  BY ActorIs DEF CreateJob, At
<1>2. x.items \in SUBSET Items /\ x.chosen \in SUBSET Objects /\ x.chosen # {}
  BY <1>1 DEF Actor, Shape, ActorState
<1>3. o \in x.chosen /\ o \in Objects
  BY <1>2
<1> HIDE DEF o
<1> DEFINE y(j) == [x EXCEPT !.chosen = @ \ {o}, !.items = @ \cup {<<o, j>>}]
           p == NextCreate(x.chosen \ {o})
<1>4. PICK j \in Handed(x) : /\ unused' = unused \ {j}
                             /\ act' = [act EXCEPT ![a] = Moved(y(j), p)]
  BY DEF CreateJob, o
<1>5. j \in RemoteJobs /\ (x.items = {} \/ j \in {item[2] : item \in x.items})
  BY <1>2 DEF Handed, SInv, TypeOK, Items
<1> DEFINE more == x.items \cup {<<o, j>>}
           z == Moved(y(j), p)
<1>6. /\ more \in SUBSET Items /\ more # {}
      /\ ObjectsOf(more) = ObjectsOf(x.items) \cup {o}
      /\ SameJob(x.items) => SameJob(more)
  BY <1>2, <1>3, <1>5, OneMoreJob
<1>7. y(j) \in ActorState /\ y(j).chosen = x.chosen \ {o} /\ y(j).items = more
  BY <1>1, <1>2, <1>6 DEF ActorState
<1>8. /\ p \in {"store_jobs", "create_jobs", "fail"}
      /\ p = "store_jobs" => x.chosen \ {o} = {}
      /\ p = "create_jobs" => x.chosen \ {o} # {}
  BY NextCreatePlaces
<1>9. p \in Places /\ p # "idle"
  BY NextCreatePlaces
<1> HIDE DEF y, p, more
<1>10. /\ z \in ActorState /\ z.place = p /\ z.phase = "read"
       /\ z.chosen = x.chosen \ {o} /\ z.items = more
  BY <1>7, <1>9, MovedFields
<1> HIDE DEF z
<1>11. Shape(z)
  BY <1>3, <1>8, <1>10 DEF Shape, Fresh
<1>12. ASSUME Covered PROVE Cover(z)
  <2>1. Wanted \subseteq x.chosen \cup ObjectsOf(x.items) /\ SameJob(x.items)
    BY <1>1, <1>12 DEF Actor, Cover
  <2>2. Wanted \subseteq (x.chosen \ {o}) \cup ObjectsOf(more)
    BY <1>6, <2>1
  <2>3. p = "store_jobs" => Wanted \subseteq ObjectsOf(more)
    BY <1>8, <2>2
  <2>4. QED
    BY <1>6, <1>8, <1>10, <2>1, <2>2, <2>3 DEF Cover, Fresh
<1>13. AllActors'
  BY <1>4, <1>10, <1>11, <1>12, ActorSteps DEF Actor, z
<1>14. QED
  BY <1>4, <1>13, RowStays DEF CreateJob, SInv, TypeOK

(* The steps of the workflow that only move the task to a plain place. *)
LEMMA PlainWorkflowHolds ==
  ASSUME SInv, NEW a \in Actors,
         Poll(a) \/ BeginCheck(a) \/ CheckJobs(a) \/ JudgePoll(a) \/ Wake(a)
           \/ HoldForDownload(a) \/ ReadFiles(a) \/ CaughtError(a) \/ UncaughtError(a)
  PROVE  SInv'
<1> DEFINE x == act[a]
<1>1. x \in ActorState /\ x.polls \in Nat /\ GetJob(x) \in Row \cup {NoRow}
  BY ActorIs DEF ActorState, GetJob, SInv, TypeOK
<1>2. SUFFICES AllActors' /\ UNCHANGED <<row, files, minio, Environment>>
  BY OnlyActorMoves
<1>3. UNCHANGED <<row, files, minio, Environment>>
  BY DEF Poll, BeginCheck, CheckJobs, JudgePoll, Wake, HoldForDownload, ReadFiles,
         CaughtError, UncaughtError
<1>4. CASE Poll(a)
  <2>1. [x EXCEPT !.polls = @ + 1] \in ActorState
    BY <1>1 DEF ActorState
  <2>2. QED
    BY <1>4, <2>1, MoveHolds, GotoHolds, PlainPlaces DEF Poll
<1>5. CASE BeginCheck(a)
  <2>1. [x EXCEPT !.copy = GetJob(x)] \in ActorState
    BY <1>1 DEF ActorState
  <2>2. QED
    BY <1>5, <2>1, MoveHolds, PlainPlaces DEF BeginCheck
<1>6. CASE CheckJobs(a)
  <2>1. \A v \in {"ready", "failed", "pending"} : [x EXCEPT !.plan = v] \in ActorState
    BY <1>1 DEF ActorState
  <2>2. QED
    BY <1>6, <2>1, MoveHolds, PlainPlaces DEF CheckJobs
<1>7. CASE JudgePoll(a) \/ Wake(a) \/ CaughtError(a)
  BY <1>7, GotoHolds, PlainPlaces DEF JudgePoll, Wake, CaughtError
<1>8. CASE HoldForDownload(a)
  <2>1. CASE GetJob(x) = NoRow
    BY <1>1, <1>8, <2>1, MoveHolds, PlainPlaces DEF HoldForDownload
  <2>2. CASE GetJob(x) # NoRow
    <3>1. GetJob(x) \in Row /\ GetJob(x).ids \in SUBSET Items
      BY <1>1, <2>2 DEF Row
    <3>2. [x EXCEPT !.copy = GetJob(x), !.items = GetJob(x).ids] \in ActorState
      BY <1>1, <3>1 DEF ActorState
    <3>3. QED
      BY <1>8, <2>2, <3>2, MoveHolds, PlainPlaces DEF HoldForDownload
  <2>3. QED
    BY <2>1, <2>2
<1>9. CASE ReadFiles(a)
  <2>1. [x EXCEPT !.found = OnDisk] \in ActorState
    BY <1>1 DEF ActorState, OnDisk
  <2>2. QED
    BY <1>9, <2>1, MoveHolds, PlainPlaces DEF ReadFiles
<1>10. CASE UncaughtError(a)
  BY <1>10, EndHolds DEF UncaughtError
<1>11. QED
  BY <1>3, <1>4, <1>5, <1>6, <1>7, <1>8, <1>9, <1>10

LEMMA NextDownloadHolds ==
  ASSUME SInv, NEW a \in Actors, NextDownload(a)
  PROVE  SInv'
<1> DEFINE x == act[a]
<1>1. x \in ActorState
  BY ActorIs
<1>2. CASE x.items = {}
  BY <1>2, GotoHolds, OnlyActorMoves, PlainPlaces DEF NextDownload
<1>3. CASE x.items # {}
  <2> DEFINE z == Moved(x, "download")
  <2>1. act' = [act EXCEPT ![a] = z]
    BY <1>3 DEF NextDownload, Goto
  <2>2. "download" \in Places
    BY PlacesAre DEF Awaiting
  <2>3. z \in ActorState /\ z.place = "download" /\ z.phase = "read" /\ z.items = x.items
    BY <1>1, <2>2, MovedFields
  <2> HIDE DEF z
  <2>4. Actor(z)
    BY <1>3, <2>3 DEF Actor, Shape, Cover, Fresh
  <2>5. QED
    BY <2>1, <2>4, ActorSteps, OnlyActorMoves DEF NextDownload
<1>4. QED
  BY <1>2, <1>3

LEMMA DownloadHolds ==
  ASSUME SInv, NEW a \in Actors, Download(a)
  PROVE  SInv'
<1> DEFINE x == act[a]
           item == CHOOSE i \in x.items : TRUE
<1>1. Actor(x) /\ x \in ActorState /\ x.items \in SUBSET Items /\ x.items # {}
  BY ActorIs DEF Download, At, Actor, Shape, ActorState
<1>2. item \in x.items
  BY <1>1
<1> HIDE DEF item
<1>3. item[1] \in Objects /\ item[2] \in RemoteJobs
  BY <1>1, <1>2 DEF Items
<1>4. /\ files' = [files EXCEPT ![item[1]] = item[2]]
      /\ act' = [act EXCEPT ![a] = Moved([x EXCEPT !.items = @ \ {item}], "download_heartbeat")]
      /\ UNCHANGED <<row, minio, Environment>>
  BY DEF Download, item
<1>5. [x EXCEPT !.items = @ \ {item}] \in ActorState
  BY <1>1 DEF ActorState
<1>6. AllActors'
  BY <1>4, <1>5, MoveHolds, PlainPlaces
<1>7. files' \in [Objects -> RemoteJobs \cup {NoRow}]
  BY <1>3, <1>4 DEF SInv, TypeOK
<1>8. QED
  BY <1>4, <1>6, <1>7, RowStays DEF Environment, SInv, TypeOK

LEMMA WorkflowHolds ==
  ASSUME SInv, NEW a \in Actors, Workflow(a)
  PROVE  SInv'
BY BeginHolds, ConfigureHolds, HoldForSubmitHolds, CreateJobHolds, PlainWorkflowHolds,
   NextDownloadHolds, DownloadHolds DEF Workflow

-----------------------------------------------------------------------------
(* Requests *)

LEMMA SpawnHolds ==
  ASSUME SInv, NEW a \in Actors, Spawn(a)
  PROVE  SInv'
<1> DEFINE x == act[a]
           y == [Idle EXCEPT !.place = "begin", !.proc = x.proc, !.chosen = Supported]
<1>1. Actor(x) /\ x \in ActorState /\ x.place = "spawn"
  BY ActorIs DEF Spawn, At
<1>2. CASE x.plan = "keep"
  BY <1>2, IdleActor, ActorSteps, OnlyActorMoves DEF Spawn
<1>3. CASE x.plan # "keep"
  <2>1. act' = [act EXCEPT ![a] = y]
    BY <1>3 DEF Spawn
  <2>2. "begin" \in Places /\ x.proc \in Processes \cup {NoRow}
    BY <1>1, PlacesAre DEF Awaiting, ActorState
  <2>3. /\ y \in ActorState /\ y.place = "begin" /\ y.chosen = Supported
        /\ y.items = {} /\ y.phase = "read"
    BY <2>2, IdleTyped, PipelineAssumption DEF ActorState, Idle
  <2>4. Covered => Wanted \subseteq Supported
    BY <1>1 DEF Actor, Cover, Covered
  <2> HIDE DEF y
  <2>5. Actor(y)
    BY <2>3, <2>4, PipelineAssumption DEF Actor, Shape, Cover, Fresh
  <2>6. QED
    BY <2>1, <2>5, ActorSteps, OnlyActorMoves DEF Spawn
<1>4. QED
  BY <1>2, <1>3

LEMMA DeleteHolds ==
  ASSUME SInv, NEW a \in Actors, DeleteFiles(a) \/ DeleteRow(a)
  PROVE  SInv'
<1>1. CASE DeleteFiles(a)
  <2>1. AllActors'
    BY <1>1, GotoHolds, PlainPlaces DEF DeleteFiles
  <2>2. files' \in [Objects -> RemoteJobs \cup {NoRow}] /\ wiped' \in BOOLEAN
    BY <1>1 DEF DeleteFiles
  <2>3. QED
    BY <1>1, <2>1, <2>2, RowStays DEF DeleteFiles, SInv, TypeOK
<1>2. CASE DeleteRow(a)
  <2>1. AllActors'
    BY <1>2, EndHolds DEF DeleteRow
  <2>2. QED
    BY <1>2, <2>1 DEF DeleteRow, SInv, TypeOK, AllActors, RowCover, Environment
<1>3. QED
  BY <1>1, <1>2

LEMMA NormalizeStepHolds ==
  ASSUME SInv, NEW a \in Actors,
         ListFiles(a) \/ MakeTables(a) \/ TablesMade(a) \/ CheckNormalized(a)
           \/ ChooseUpload(a) \/ Upload(a) \/ CheckUploaded(a)
  PROVE  SInv'
<1> DEFINE x == act[a]
<1>1. x \in ActorState /\ x.chosen \in SUBSET Objects /\ x.found \in SUBSET Objects
  BY ActorIs DEF ActorState
<1>2. CASE ListFiles(a)
  <2>1. [x EXCEPT !.chosen = OnDisk] \in ActorState
    BY <1>1 DEF ActorState, OnDisk
  <2>2. QED
    BY <1>2, <2>1, MoveHolds, OnlyActorMoves, PlainPlaces DEF ListFiles
<1>3. CASE MakeTables(a)
  <2>1. \A o \in Objects : [x EXCEPT !.chosen = @ \ {o}, !.found = @ \cup {o}] \in ActorState
    BY <1>1 DEF ActorState
  <2>2. AllActors'
    <3>1. CASE Goto(a, "fail")
      BY <3>1, GotoHolds, PlainPlaces
    <3>2. CASE ~Goto(a, "fail")
      <4>1. PICK o \in x.chosen \cap OnDisk :
              act' = [act EXCEPT ![a] = Moved([x EXCEPT !.chosen = @ \ {o}, !.found = @ \cup {o}],
                                              "table_heartbeat")]
        BY <1>3, <3>2 DEF MakeTables
      <4>2. o \in Objects
        BY <1>1
      <4>3. QED
        BY <4>1, <4>2, <2>1, MoveHolds, PlainPlaces
    <3>3. QED
      BY <3>1, <3>2
  <2>3. QED
    BY <1>3, <2>2, OnlyActorMoves DEF MakeTables
<1>4. CASE TablesMade(a)
  BY <1>4, GotoHolds, OnlyActorMoves, PlainPlaces DEF TablesMade
<1>5. CASE CheckNormalized(a)
  BY <1>5, GotoHolds, OnlyActorMoves, PlainPlaces DEF CheckNormalized
<1>6. CASE ChooseUpload(a)
  BY <1>6, GotoHolds, OnlyActorMoves, PlainPlaces DEF ChooseUpload
<1>7. CASE CheckUploaded(a)
  BY <1>7, GotoHolds, OnlyActorMoves, PlainPlaces DEF CheckUploaded
<1>8. CASE Upload(a)
  <2>1. AllActors'
    BY <1>8, GotoHolds, PlainPlaces DEF Upload
  <2>2. minio' \subseteq Objects
    BY <1>1, <1>8 DEF Upload, SInv, TypeOK
  <2>3. QED
    BY <1>8, <2>1, <2>2, RowStays DEF Upload, SInv, TypeOK, Environment
<1>9. QED
  BY <1>2, <1>3, <1>4, <1>5, <1>6, <1>7, <1>8

LEMMA RequestHolds ==
  ASSUME SInv, NEW a \in Actors, Request(a)
  PROVE  SInv'
BY SpawnHolds, DeleteHolds, NormalizeStepHolds DEF Request

-----------------------------------------------------------------------------
(* Arrivals *)

LEMMA HandlerTyped ==
  ASSUME SInv, NEW p \in Processes, NEW q \in Places, row # NoRow
  PROVE  LET h == Handler(p, q) IN
         /\ h \in ActorState /\ h.place = q /\ h.phase = "read"
         /\ h.copy = row /\ h.proc = p /\ h.items = {} /\ h.attached
         /\ h.chosen = {} /\ h.found = {} /\ h.plan = "none"
<1>1. row \in Row
  BY DEF SInv, TypeOK
<1>2. QED
  BY <1>1, IdleTyped DEF Handler, Idle, ActorState

LEMMA HandlerActor ==
  ASSUME SInv, NEW p \in Processes, NEW q \in Plain, row # NoRow
  PROVE  Actor(Handler(p, q))
<1>1. q \in Places
  BY DEF Plain
<1>2. /\ Handler(p, q) \in ActorState /\ Handler(p, q).place = q
      /\ Handler(p, q).phase = "read"
  BY <1>1, HandlerTyped
<1>3. QED
  BY <1>2 DEF Actor, Shape, Cover, Plain

LEMMA ResumeScanHolds ==
  ASSUME SInv, NEW a \in Actors, NEW p \in Processes, ResumeScan(a, p)
  PROVE  AllActors'
<1> DEFINE q == IF CanReenter(row) THEN "resume" ELSE "spawn"
           plan == IF CanReenter(row)
                   THEN IF row.extracted THEN "keep" ELSE "none"
                   ELSE IF row.status = "EXTRACTED" THEN "keep" ELSE "none"
           y == [Handler(p, q) EXCEPT !.plan = plan]
<1>1. act' = [act EXCEPT ![a] = y] /\ row # NoRow /\ "resume" \in Requests
  BY DEF ResumeScan, Arrives
<1>2. q \in {"resume", "spawn"} /\ plan \in {"keep", "none"}
  OBVIOUS
<1>3. q \in Places
  BY <1>2, CallPlacesIs DEF Places, OtherCalls, LocalPlaces
<1> HIDE DEF q, plan
<1>4. Handler(p, q) \in ActorState /\ Handler(p, q).place = q /\ Handler(p, q).phase = "read"
  BY <1>1, <1>3, HandlerTyped
<1>5. y \in ActorState /\ y.place = q /\ y.phase = "read"
  BY <1>2, <1>4 DEF ActorState
<1> HIDE DEF y
<1>6. Actor(y)
  BY <1>1, <1>2, <1>5 DEF Actor, Shape, Cover, Fresh
<1>7. QED
  BY <1>1, <1>6, ActorSteps

LEMMA NormalizeScanHolds ==
  ASSUME SInv, NEW a \in Actors, NEW p \in Processes, NormalizeScan(a, p)
  PROVE  AllActors'
<1>1. PICK u \in {"upload", "keep"} :
        act' = [act EXCEPT ![a] = [Handler(p, "mark_normalizing") EXCEPT !.plan = u]]
  BY DEF NormalizeScan
<1> DEFINE h == Handler(p, "mark_normalizing")
           y == [h EXCEPT !.plan = u]
<1>2. "mark_normalizing" \in Plain /\ row # NoRow
  BY PlainPlaces DEF NormalizeScan, Arrives
<1>3. h \in ActorState /\ h.place = "mark_normalizing" /\ h.phase = "read"
  BY <1>2, HandlerTyped DEF Plain
<1> HIDE DEF h
<1>4. y \in ActorState /\ y.place = "mark_normalizing" /\ y.phase = "read"
  BY <1>3 DEF ActorState
<1> HIDE DEF y
<1>5. Actor(y)
  BY <1>4 DEF Actor, Shape, Cover, Fresh
<1>6. QED
  BY <1>1, <1>5, ActorSteps DEF y, h

LEMMA StartScanHolds ==
  ASSUME SInv, NEW a \in Actors, NEW p \in Processes, StartScan(a, p)
  PROVE  SInv'
<1> DEFINE y == [Idle EXCEPT !.place = "begin", !.proc = p, !.chosen = Wanted]
<1>1. act' = [act EXCEPT ![a] = y] /\ row' = NewRow /\ started' = TRUE
      /\ UNCHANGED <<files, minio, unused, left, crashes, wiped, beside>>
  BY DEF StartScan
<1>2. "begin" \in Places
  BY PlacesAre DEF Awaiting
<1>3. /\ y \in ActorState /\ y.place = "begin" /\ y.chosen = Wanted
      /\ y.items = {} /\ y.phase = "read"
  BY <1>2, IdleTyped, PipelineAssumption DEF ActorState, Idle
<1> HIDE DEF y
<1>4. Actor(y)
  BY <1>3, PipelineAssumption DEF Actor, Shape, Cover, Fresh
<1>5. AllActors'
  BY <1>1, <1>4, ActorSteps
<1>6. NewRow \in Row /\ NewRow.ids = {}
  BY NewRowInOrder DEF NewRow
<1>7. TypeOK'
  BY <1>1, <1>5, <1>6 DEF SInv, TypeOK, AllActors
<1>8. RowCover'
  BY <1>1, <1>6 DEF RowCover
<1>9. QED
  BY <1>1, <1>5, <1>7, <1>8 DEF SInv

LEMMA ArrivalHolds ==
  ASSUME SInv, NEW a \in Actors, NEW p \in Processes, Arrival(a, p)
  PROVE  SInv'
<1>1. CASE StartScan(a, p)
  BY <1>1, StartScanHolds
<1>2. CASE ~StartScan(a, p)
  <2>1. row # NoRow /\ UNCHANGED <<row, files, minio, started, unused, crashes, wiped>>
        /\ left' \in {left, left - 1} /\ (left' = left \/ left > 0)
    BY <1>2 DEF Arrival, CancelScan, ResumeScan, RemoveScan, CleanupOldJobs, DetectCrashed,
                NormalizeScan, Arrives, Environment
  <2>2. left' \in 0..MaxRequests /\ beside' \in BOOLEAN
    <3>1. left' \in 0..MaxRequests
      BY <2>1, PipelineAssumption DEF SInv, TypeOK
    <3>2. beside' = beside \/ NormalizeScan(a, p)
      BY <1>2 DEF Arrival, CancelScan, ResumeScan, RemoveScan, CleanupOldJobs, DetectCrashed,
                  Environment
    <3>3. QED
      BY <3>1, <3>2 DEF NormalizeScan, SInv, TypeOK
  <2>3. \A q \in {"cancel", "delete_files", "delete_row", "crash"} :
          act' = [act EXCEPT ![a] = Handler(p, q)] => AllActors'
    BY <2>1, HandlerActor, ActorSteps, PlainPlaces
  <2>4. AllActors'
    BY <1>2, <2>3, ResumeScanHolds, NormalizeScanHolds
       DEF Arrival, CancelScan, RemoveScan, CleanupOldJobs, DetectCrashed
  <2>5. QED
    BY <2>1, <2>2, <2>4, RowStays DEF SInv, TypeOK
<1>3. QED
  BY <1>1, <1>2

-----------------------------------------------------------------------------
(* All steps *)

LEMMA HeartbeatAgesHolds ==
  ASSUME SInv, HeartbeatAges
  PROVE  SInv'
<1>1. /\ row \in Row /\ row # NoRow /\ row' = [row EXCEPT !.heartbeat = "stale"]
      /\ UNCHANGED <<files, minio, act, Environment>>
  BY DEF HeartbeatAges, SInv, TypeOK
<1>2. row' \in Row /\ row'.ids = row.ids
  BY <1>1 DEF Row, Heartbeat
<1>3. AllActors'
  BY <1>1 DEF SInv, AllActors
<1>4. QED
  BY <1>1, <1>2, <1>3 DEF SInv, TypeOK, RowCover, AllActors, Environment

LEMMA CrashHolds ==
  ASSUME SInv, NEW p \in Processes, Crash(p)
  PROVE  SInv'
<1>1. /\ act' = [a \in Actors |-> IF act[a].proc = p THEN Idle ELSE act[a]]
      /\ crashes' = crashes + 1 /\ crashes < MaxCrashes
      /\ UNCHANGED <<row, files, minio, started, unused, left, wiped, beside>>
  BY DEF Crash
<1>2. AllActors'
  <2>1. \A a \in Actors : Actor(act'[a])
    BY <1>1, IdleActor DEF SInv, AllActors
  <2>2. QED
    BY <1>1, <2>1, IdleTyped DEF SInv, AllActors
<1>3. crashes' \in 0..MaxCrashes
  BY <1>1, PipelineAssumption DEF SInv, TypeOK
<1>4. QED
  BY <1>1, <1>2, <1>3, RowStays DEF SInv, TypeOK

LEMMA InitHolds == Init => SInv
<1> SUFFICES ASSUME Init PROVE SInv
  OBVIOUS
<1>1. AllActors
  BY IdleActor, IdleTyped DEF Init, AllActors
<1>2. 0 \in 0..MaxCrashes /\ MaxRequests \in 0..MaxRequests
  BY PipelineAssumption
<1>3. TypeOK
  BY <1>1, <1>2 DEF Init, TypeOK, AllActors
<1>4. QED
  BY <1>1, <1>3 DEF Init, SInv, RowCover

LEMMA StepHolds ==
  ASSUME SInv, NEW a \in Actors, Step(a)
  PROVE  SInv'
BY CallReadHolds, CallCommitHolds, CallRefreshHolds, WorkflowHolds, RequestHolds DEF Step

LEMMA NextHolds == SInv /\ [Next]_vars => SInv'
<1> SUFFICES ASSUME SInv, [Next]_vars PROVE SInv'
  OBVIOUS
<1>1. CASE UNCHANGED vars
  BY <1>1 DEF vars, SInv, TypeOK, AllActors, RowCover
<1>2. CASE Quiet
  BY <1>1, <1>2 DEF Quiet
<1>3. QED
  BY <1>1, <1>2, StepHolds, ArrivalHolds, HeartbeatAgesHolds, CrashHolds DEF Next

LEMMA Invariance == Spec => []SInv
BY InitHolds, NextHolds, PTL DEF Spec

-----------------------------------------------------------------------------
(* The results *)

(* Every reachable state is of the declared type: no interleaving takes an *)
(* actor to a place its data does not fit, or makes a row of a stale copy  *)
(* that is not a row.                                                      *)
THEOREM PipelineTypeCorrect == Spec => []TypeOK
BY Invariance, PTL DEF SInv

(* Unless a resume may spawn a task for fewer objects than the scan was    *)
(* asked for, the stored identifiers are those of one whole submission.    *)
THEOREM IdsCorrect == Covered => (Spec => []IdsCoverScan)
<1> SUFFICES ASSUME Covered PROVE Spec => []IdsCoverScan
  OBVIOUS
<1>1. SInv => IdsCoverScan
  <2> SUFFICES ASSUME SInv, row # NoRow, row.ids # {}
               PROVE  \E j \in RemoteJobs : \A o \in Wanted : <<o, j>> \in row.ids
    BY DEF IdsCoverScan
  <2>1. row.ids \subseteq Items /\ Wanted \subseteq ObjectsOf(row.ids) /\ SameJob(row.ids)
    BY DEF SInv, RowCover, TypeOK, Row
  <2>2. PICK k \in row.ids : TRUE
    OBVIOUS
  <2>3. k[2] \in RemoteJobs
    BY <2>1 DEF Items
  <2>4. ASSUME NEW o \in Wanted PROVE <<o, k[2]>> \in row.ids
    <3>1. PICK i \in row.ids : o = i[1]
      BY <2>1 DEF ObjectsOf
    <3>2. i[2] = k[2] /\ i = <<i[1], i[2]>>
      BY <2>1 DEF SameJob, Items
    <3>3. QED
      BY <3>1, <3>2
  <2>5. QED
    BY <2>3, <2>4
<1>2. QED
  BY <1>1, Invariance, PTL

(* While there is a row only the commits of calls and the passing of time  *)
(* write to it.                                                            *)
LEMMA OnlyCommitsWrite ==
  ASSUME NEW a \in Actors, Step(a), ~CallCommit(a), row' # NoRow
  PROVE  row' = row
BY DEF Step, CallRead, CallRefresh, Workflow, Begin, Configure, HoldForSubmit, CreateJob,
       Poll, BeginCheck, CheckJobs, JudgePoll, Wake, HoldForDownload, NextDownload,
       Download, ReadFiles, CaughtError, UncaughtError, Request, Spawn, DeleteFiles,
       DeleteRow, ListFiles, MakeTables, TablesMade, CheckNormalized, ChooseUpload,
       Upload, CheckUploaded

LEMMA ArrivalsWriteNothing ==
  ASSUME SInv, NEW a \in Actors, NEW p \in Processes, Arrival(a, p), row # NoRow
  PROVE  row' = row
BY DEF Arrival, StartScan, CancelScan, ResumeScan, RemoveScan, CleanupOldJobs,
       DetectCrashed, NormalizeScan, SInv

(* A write takes no checkpoint back, whatever the copy it was decided on:  *)
(* an UPDATE sets a checkpoint or does not touch its column.               *)
LEMMA WriteKeepsCheckpoints ==
  ASSUME SInv, NEW a \in Actors, CallCommit(a), row # NoRow
  PROVE  /\ row.ids # {} => row'.ids # {}
         /\ row.downloaded => row'.downloaded
         /\ row.extracted => row'.extracted
         /\ row.normalized => row'.normalized
<1> DEFINE x == act[a]
<1>1. x \in ActorState /\ x.place \in CallPlaces /\ x.copy \in Row /\ row \in Row
  BY ActorIs DEF CallCommit, Actor, Shape, ActorState, SInv, TypeOK
<1>2. row' = Merged(row, x.copy, Written(x), Stamps(x))
  BY DEF CallCommit
<1>3. QED
  BY <1>1, <1>2, CommitCheckpoints DEF Checkpoints

(* No handler's write takes back a checkpoint another handler recorded.    *)
THEOREM CheckpointsStay == Spec => CheckpointsKept
<1> DEFINE Kept == row # NoRow /\ row' # NoRow =>
                     /\ row.ids # {} => row'.ids # {}
                     /\ row.downloaded => row'.downloaded
                     /\ row.extracted => row'.extracted
                     /\ row.normalized => row'.normalized
<1>1. SInv /\ [Next]_vars => [Kept]_vars
  <2> SUFFICES ASSUME SInv, Next, row # NoRow, row' # NoRow PROVE Kept
    BY DEF vars
  <2>1. CASE row' = row
    BY <2>1
  <2>2. ASSUME NEW a \in Actors, CallCommit(a) PROVE Kept
    BY <2>2, WriteKeepsCheckpoints
  <2>3. CASE HeartbeatAges
    BY <2>3 DEF HeartbeatAges, SInv, TypeOK, Row
  <2>4. ASSUME NEW a \in Actors, Step(a), ~CallCommit(a) PROVE row' = row
    BY <2>4, OnlyCommitsWrite
  <2>5. ASSUME NEW a \in Actors, NEW p \in Processes, Arrival(a, p) PROVE row' = row
    BY <2>5, ArrivalsWriteNothing
  <2>6. QED
    BY <2>1, <2>2, <2>3, <2>4, <2>5 DEF Next, Crash, Quiet, vars
<1>2. QED
  BY <1>1, Invariance, PTL DEF Spec, CheckpointsKept

-----------------------------------------------------------------------------
(* How a scan ends.  Any number of processes may be at work, with any      *)
(* outcome of the session teardown, so that what an actor holds is only    *)
(* loosely tied to the row: a call writes a status on a copy that allowed  *)
(* it (Steady), a status it writes comes with its completion time, and of  *)
(* a request that is alone at normalizing a scan it is known where between *)
(* the two commits of complete_minio_upload it stands (Uploading).         *)

Sealed == {"UPLOADED_TO_MINIO", "COMPLETED"}

Steady(x) ==
  /\ x.phase = "commit" => Accepts(x, x.copy)
  /\ x.place = "crash" /\ x.phase # "refresh" => x.copy # NoRow /\ x.copy.status \in InProgress
  /\ x.place \in NormalizePlaces => x.attached /\ x.copy # NoRow

(* Between the two commits. *)
Between(x) ==
  \/ x.place = "mark_uploaded" /\ x.phase = "refresh"
  \/ x.place = "check_uploaded"
  \/ x.place = "stamp_uploaded" /\ x.phase # "refresh"

(* Past the second, or past the decision to leave it out. *)
PastStamp(x) ==
  \/ x.place = "stamp_uploaded" /\ x.phase = "refresh"
  \/ x.place \in {"uploaded_heartbeat", "mark_completed"}

(* What a request that is alone at normalizing knows of row r.             *)
Uploading(x, r) ==
  x.place \in NormalizePlaces /\ r # NoRow =>
    /\ x.copy.uploaded => r.uploaded
    /\ ~Between(x) /\ ~PastStamp(x) => r.status \notin Sealed /\ x.copy.status \notin Sealed
    /\ Between(x) =>
         /\ r.status # "COMPLETED" /\ x.copy.status # "COMPLETED"
         /\ r.status = "UPLOADED_TO_MINIO" => x.copy.status = "UPLOADED_TO_MINIO"
    /\ PastStamp(x) =>
         /\ r.status = "UPLOADED_TO_MINIO" => r.uploaded
         /\ x.copy.status \in Sealed => r.uploaded

EndInv ==
  /\ OverHasTime
  /\ \A a \in Actors : Steady(act[a])
  /\ ~started => \A a \in Actors : act[a] = Idle
  /\ CompletedMeansStamped
  /\ ~beside => \A a, b \in Actors :
                  act[a].place \in NormalizePlaces /\ act[b].place \in NormalizePlaces => a = b
  /\ ~beside => \A a \in Actors : Uploading(act[a], row)

(* An actor state that asks for nothing. *)
Apart(y) == y.phase = "read" /\ y.place \notin NormalizePlaces \cup {"crash"}

LEMMA ApartSteady ==
  ASSUME NEW y, Apart(y)
  PROVE  Steady(y) /\ \A r : Uploading(y, r)
BY DEF Apart, Steady, Uploading

LEMMA IdleApart == Apart(Idle)
BY DEF Apart, Idle, NormalizePlaces

LEMMA MovedApart ==
  ASSUME NEW y \in ActorState, NEW p \in Places, p \notin NormalizePlaces \cup {"crash"}
  PROVE  Apart(Moved(y, p))
<1>1. CASE p = "idle"
  BY <1>1, MovedToIdle, IdleApart
<1>2. CASE p # "idle"
  BY <1>2, MovedFields DEF Apart
<1>3. QED
  BY <1>1, <1>2

(* What the others rely on when the row goes from r to s. *)
Going(r, s) ==
  s # NoRow => /\ r # NoRow
               /\ r.uploaded => s.uploaded
               /\ s.status \in Sealed => s.status = r.status

(* One actor steps, and is y afterwards. *)
LEMMA EndStep1 ==
  ASSUME SInv, EndInv, NEW a \in Actors, NEW y, act' = [act EXCEPT ![a] = y],
         Steady(y), started', OverHasTime', CompletedMeansStamped', beside => beside',
         ~beside' => Uploading(y, row'),
         ~beside' /\ y.place \in NormalizePlaces =>
           \A b \in Actors \ {a} : act[b].place \notin NormalizePlaces,
         ~beside' => Going(row, row')
                       \/ \A b \in Actors \ {a} : act[b].place \notin NormalizePlaces
  PROVE  EndInv'
<1>1. act'[a] = y /\ \A b \in Actors \ {a} : act'[b] = act[b]
  BY DEF SInv, AllActors
<1>2. \A b \in Actors : Steady(act'[b])
  BY <1>1 DEF EndInv
<1>3. ASSUME ~beside', NEW b \in Actors, NEW c \in Actors,
             act'[b].place \in NormalizePlaces, act'[c].place \in NormalizePlaces
      PROVE  b = c
  BY <1>1, <1>3 DEF EndInv
<1>4. ASSUME ~beside', NEW b \in Actors \ {a} PROVE Uploading(act[b], row')
  <2>1. Uploading(act[b], row)
    BY <1>4 DEF EndInv
  <2>2. CASE Going(row, row')
    BY <2>1, <2>2 DEF Going, Uploading, Between, PastStamp, Sealed
  <2>3. CASE act[b].place \notin NormalizePlaces
    BY <2>3 DEF Uploading
  <2>4. QED
    BY <1>4, <2>2, <2>3
<1>5. ~beside' => \A b \in Actors : Uploading(act'[b], row')
  BY <1>1, <1>4
<1>6. QED
  BY <1>2, <1>3, <1>5 DEF EndInv, Steady, Uploading, Between, PastStamp, Accepts

-----------------------------------------------------------------------------
(* What an accepted call writes *)

(* The status and the times in row d that a call at place p, accepted on   *)
(* copy c, writes; over says whether it stamps completed_at.               *)
Ending(d, c, p, over) ==
  /\ d \in Row
  /\ p # "stamp_uploaded" => d.uploaded = c.uploaded
  /\ p = "stamp_uploaded" => d.uploaded
  /\ d.status # c.status /\ p # "resume" => c.status \notin Terminal
  /\ over => d.completed
  /\ ~over /\ d.status = c.status => d.completed = c.completed
  /\ ~over /\ d.status # c.status => d.status \notin Terminal
  /\ d.status \in Sealed /\ d.status # c.status => p \in {"mark_uploaded", "mark_completed"}
  /\ p = "mark_uploaded" => d.status = "UPLOADED_TO_MINIO"
  /\ p = "mark_completed" => d.status = "COMPLETED" /\ c.status \in Sealed

LEMMA BeforeCompleted ==
  ASSUME NEW st, Successor(st, "COMPLETED")
  PROVE  st = "UPLOADED_TO_MINIO"
BY DEF Successor, MainChain

(* The statuses at the end of the chain and where they are passed. *)
LEMMA SealedPlaces ==
  \A p \in StatusPlaces :
    /\ StatusAt[p] = "COMPLETED" <=> p = "mark_completed"
    /\ StatusAt[p] = "UPLOADED_TO_MINIO" <=> p = "mark_uploaded"
BY DEF StatusAt, StatusPlaces

LEMMA StatusEnding ==
  ASSUME NEW c \in Row, NEW p \in StatusPlaces, IsValidTransition(c.status, StatusAt[p])
  PROVE  Ending(WithStatus(c, StatusAt[p]), c, p, p = "mark_completed")
<1> DEFINE st == StatusAt[p]
           d == WithStatus(c, st)
<1>1. st \in ChainStatus /\ st \in Status
  BY StatusAtChain DEF Status
<1>2. c.status = st \/ (Successor(c.status, st) /\ c.status \in ChainStatus /\ c.status # "COMPLETED")
  BY <1>1, ChainMoves
<1>3. (st = "COMPLETED" <=> p = "mark_completed") /\ (st = "UPLOADED_TO_MINIO" <=> p = "mark_uploaded")
  BY SealedPlaces
<1>4. p \notin {"stamp_uploaded", "resume"}
  BY DEF StatusPlaces
<1>5. st \in Terminal <=> st = "COMPLETED"
  BY <1>1, ChainMembers DEF Terminal
<1>6. st = "COMPLETED" => c.status \in Sealed
  BY <1>2, BeforeCompleted DEF Sealed
<1>7. c.status # st => c.status \notin Terminal
  BY <1>2, ChainMembers DEF Terminal
<1> HIDE DEF st
<1>8. d \in Row /\ d.status = st /\ d.uploaded = c.uploaded
  BY <1>1 DEF WithStatus, Row
<1>9. (st \in Terminal => d.completed) /\ (st \notin Terminal => d.completed = c.completed)
  BY DEF WithStatus, Row
<1> HIDE DEF d
<1>10. st \in Sealed => p \in {"mark_uploaded", "mark_completed"}
  BY <1>3 DEF Sealed
<1>11. QED
  BY <1>3, <1>4, <1>5, <1>6, <1>7, <1>8, <1>9, <1>10 DEF Ending, d, st

(* A write that leaves status and completion time alone. *)
LEMMA RecordEnding ==
  ASSUME NEW c \in Row, NEW d \in Row, d.status = c.status, d.completed = c.completed,
         NEW p, p \notin StatusPlaces,
         IF p = "stamp_uploaded" THEN d.uploaded ELSE d.uploaded = c.uploaded
  PROVE  Ending(d, c, p, FALSE)
BY DEF Ending, StatusPlaces

LEMMA WrittenEnding ==
  ASSUME NEW x \in ActorState, x.place \in CallPlaces, x.copy \in Row, Steady(x),
         x.phase = "commit"
  PROVE  Ending(Written(x), x.copy, x.place, "completed" \in Stamps(x))
<1> DEFINE c == x.copy
<1>1. /\ c \in Row /\ x.items \in SUBSET Items /\ x.found \in SUBSET Objects
      /\ {} \in SUBSET Items /\ Accepts(x, c)
  BY DEF ActorState, Steady
<1>2. CASE x.place \in StatusPlaces
  <2>1. Written(x) = WithStatus(c, StatusAt[x.place]) /\ IsValidTransition(c.status, StatusAt[x.place])
    BY <1>1, <1>2, WrittenIs, StatusPlacesIs DEF Accepts
  <2>2. ("completed" \in Stamps(x)) <=> x.place = "mark_completed"
    BY <1>2 DEF Stamps, HeartbeatPlaces, StatusPlaces
  <2>3. Ending(WithStatus(c, StatusAt[x.place]), c, x.place, x.place = "mark_completed")
    BY <1>1, <1>2, <2>1, StatusEnding
  <2>4. QED
    BY <2>1, <2>2, <2>3 DEF Ending
<1>3. CASE x.place \in HeartbeatPlaces \cup {"store_jobs", "store_poll", "store_download",
                        "store_extraction", "stamp_normalized", "stamp_uploaded"}
  <2> DEFINE d == Written(x)
  <2>1. "completed" \notin Stamps(x) /\ x.place \notin StatusPlaces
    BY <1>3 DEF Stamps, HeartbeatPlaces, StatusPlaces
  <2>2. IF x.place = "stamp_uploaded" THEN d = UploadedNow(c)
        ELSE d \in {Beat(c), WithBatch(c, x.items), WithBatch(c, {}), Downloaded(c),
                    Extracted(c, x.found), NormalizedNow(c)}
    BY <1>3, WrittenIs
  <2>3. \A w \in {Beat(c), WithBatch(c, x.items), WithBatch(c, {}), Downloaded(c),
                  Extracted(c, x.found), NormalizedNow(c)} :
          w \in Row /\ w.status = c.status /\ w.completed = c.completed /\ w.uploaded = c.uploaded
    BY <1>1 DEF Beat, WithBatch, Downloaded, Extracted, NormalizedNow, Row, Heartbeat
  <2>4. LET w == UploadedNow(c) IN
          w \in Row /\ w.status = c.status /\ w.completed = c.completed /\ w.uploaded
    BY <1>1 DEF UploadedNow, Row
  <2> HIDE DEF d
  <2>5. /\ d \in Row /\ d.status = c.status /\ d.completed = c.completed
        /\ IF x.place = "stamp_uploaded" THEN d.uploaded ELSE d.uploaded = c.uploaded
    BY <2>2, <2>3, <2>4
  <2>6. Ending(d, c, x.place, FALSE)
    BY <1>1, <2>1, <2>5, RecordEnding
  <2>7. QED
    BY <2>1, <2>6 DEF Ending, d
<1>4. CASE x.place \in {"fail", "crash", "cancel"}
  <2> DEFINE d == Written(x)
  <2>1. "completed" \in Stamps(x)
    BY <1>4 DEF Stamps, HeartbeatPlaces
  <2>2. d \in {Failed(c), Cancelled(c)}
    BY <1>4, WrittenIs
  <2>3. c.status \notin Terminal
    <3>1. x.place \in {"fail", "cancel"} => CanStop(c)
      BY <1>1, StatusPlacesIs DEF Accepts, StatusPlaces
    <3>2. x.place = "crash" => c.status \in InProgress
      BY DEF Steady
    <3>3. QED
      BY <1>4, <3>1, <3>2 DEF CanStop, InProgress, Terminal
  <2>4. d \in Row /\ d.status \in SideStatus /\ d.completed /\ d.uploaded = c.uploaded
    BY <1>1, <2>2 DEF Failed, Cancelled, Row, Status, SideStatus
  <2> HIDE DEF d
  <2>5. QED
    BY <1>4, <2>1, <2>3, <2>4 DEF Ending, Sealed, SideStatus, d
<1>5. CASE x.place = "resume"
  <2> DEFINE st == ResumeTarget(c)
             d == Reentered(c, st)
  <2>1. st \in Status \ Terminal /\ st \notin Sealed
    BY <1>1, ResumeTargetActive DEF ResumeTarget, Sealed
  <2>2. CanReenter(c)
    BY <1>1, <1>5, StatusPlacesIs DEF Accepts, StatusPlaces
  <2>3. Written(x) = d
    BY <1>5, WrittenIs
  <2> HIDE DEF st
  <2>4. d \in Row /\ d.status = st /\ d.uploaded = c.uploaded
    BY <1>1, <2>1 DEF Reentered, Row
  <2> HIDE DEF d
  <2>5. "completed" \notin Stamps(x) /\ d.status # c.status
    BY <1>5, <2>1, <2>2, <2>4 DEF Stamps, HeartbeatPlaces, CanReenter, SideStatus, Terminal
  <2>6. QED
    BY <1>5, <2>1, <2>3, <2>4, <2>5 DEF Ending
<1>6. QED
  BY <1>2, <1>3, <1>4, <1>5, CallPlacesIs DEF OtherCalls, HeartbeatPlaces

(* What the row is after the write of a call. *)
LEMMA CommitEnding ==
  ASSUME SInv, EndInv, NEW a \in Actors, CallCommit(a), row # NoRow
  PROVE  LET x == act[a]
             d == Written(x) IN
         /\ x.copy \in Row /\ row \in Row /\ row' \in Row
         /\ Ending(d, x.copy, x.place, "completed" \in Stamps(x))
         /\ row'.status = IF d.status # x.copy.status THEN d.status ELSE row.status
         /\ row'.completed = IF "completed" \in Stamps(x) \/ d.completed # x.copy.completed
                             THEN d.completed ELSE row.completed
         /\ row'.uploaded = IF d.uploaded # x.copy.uploaded THEN d.uploaded ELSE row.uploaded
<1> DEFINE x == act[a]
           d == Written(x)
<1>1. /\ Actor(x) /\ x \in ActorState /\ Steady(x) /\ x.place \in CallPlaces /\ x.phase = "commit"
      /\ row' = Merged(row, x.copy, d, Stamps(x))
  BY ActorIs DEF CallCommit, EndInv
<1>2. x.copy \in Row /\ row \in Row
  BY <1>1 DEF Actor, Shape, ActorState, SInv, TypeOK
<1>3. Ending(d, x.copy, x.place, "completed" \in Stamps(x))
  BY <1>1, <1>2, WrittenEnding
<1>4. d \in Row
  BY <1>3 DEF Ending
<1> HIDE DEF d
<1>5. /\ row' \in Row
      /\ row'.status = IF d.status # x.copy.status THEN d.status ELSE row.status
  BY <1>1, <1>2, <1>4, StampsTyped, MergedColumns
<1>6. /\ row'.completed = IF "completed" \in Stamps(x) \/ d.completed # x.copy.completed
                          THEN d.completed ELSE row.completed
      /\ row'.uploaded = IF d.uploaded # x.copy.uploaded THEN d.uploaded ELSE row.uploaded
  BY <1>1, <1>2, <1>4, StampsTyped, MergedTimes
<1>7. QED
  BY <1>2, <1>3, <1>5, <1>6 DEF d

-----------------------------------------------------------------------------
(* Steps that leave the row alone *)

(* An actor that steps had started, since before that all are idle.        *)
LEMMA StepStarted ==
  ASSUME EndInv, NEW a \in Actors, act[a].place # "idle"
  PROVE  started
BY IdleTyped DEF EndInv

(* An actor goes to a place that asks for nothing. *)
LEMMA ApartStep ==
  ASSUME SInv, EndInv, NEW a \in Actors, act[a].place # "idle",
         NEW y, act' = [act EXCEPT ![a] = y], Apart(y), UNCHANGED <<row, started, beside>>
  PROVE  EndInv'
<1>1. Steady(y) /\ Uploading(y, row') /\ y.place \notin NormalizePlaces
  BY ApartSteady DEF Apart
<1>2. Going(row, row') /\ OverHasTime' /\ CompletedMeansStamped' /\ started'
  BY StepStarted DEF Going, EndInv, OverHasTime, CompletedMeansStamped
<1>3. QED
  BY <1>1, <1>2, EndStep1

(* The workflow never goes to a place of the others. *)
LEMMA WorkflowEnds ==
  ASSUME SInv, EndInv, NEW a \in Actors, Workflow(a)
  PROVE  EndInv'
<1> DEFINE x == act[a]
           Went == \E y \in ActorState, p \in Places \ (NormalizePlaces \cup {"crash"}) :
                     act' = [act EXCEPT ![a] = Moved(y, p)]
<1>1. /\ Actor(x) /\ x \in ActorState /\ x.polls \in Nat /\ x.items \in SUBSET Items
      /\ x.chosen \in SUBSET Objects /\ GetJob(x) \in Row \cup {NoRow}
      /\ row \in Row \cup {NoRow}
  BY ActorIs DEF ActorState, GetJob, SInv, TypeOK
<1>2. x.place # "idle" /\ UNCHANGED <<row, started, beside>>
  BY DEF Workflow, Begin, Configure, HoldForSubmit, CreateJob, Poll, BeginCheck, CheckJobs,
         JudgePoll, Wake, HoldForDownload, NextDownload, Download, ReadFiles, CaughtError,
         UncaughtError, At, Environment, Catching, Raising
<1>3. \A p \in {"configure", "mark_requested", "reenter_extracting", "mark_extracting",
                "store_jobs", "create_jobs", "begin_check", "check_jobs", "store_poll",
                "mark_ready", "sleep", "poll", "next_download", "store_download", "download",
                "download_heartbeat", "store_extraction", "fail"} :
        p \in Places \ (NormalizePlaces \cup {"crash"})
  BY PlacesAre, CallPlacesIs DEF Awaiting, LocalPlaces, OtherCalls, StatusPlaces, NormalizePlaces
<1>4. CASE Went
  BY <1>2, <1>4, MovedApart, ApartStep
<1>5. CASE End(a)
  BY <1>2, <1>5, IdleApart, ApartStep DEF End
<1>6. ASSUME NEW y \in ActorState,
             NEW p \in {"configure", "mark_requested", "reenter_extracting", "mark_extracting",
                "store_jobs", "create_jobs", "begin_check", "check_jobs", "store_poll",
                "mark_ready", "sleep", "poll", "next_download", "store_download", "download",
                "download_heartbeat", "store_extraction", "fail"},
             act' = [act EXCEPT ![a] = Moved(y, p)]
      PROVE  EndInv'
  BY <1>3, <1>4, <1>6
<1> HIDE DEF Went
<1>7. CASE Begin(a)
  <2> DEFINE plan == IF row.ids = {} THEN "submit"
                     ELSE IF row.downloaded THEN "reenter" ELSE "extract"
             y(t) == [x EXCEPT !.copy = row, !.attached = (t = "attached"), !.plan = plan]
  <2>1. CASE ~End(a)
    <3>1. PICK t \in Teardowns : act' = [act EXCEPT ![a] = Moved(y(t), "configure")]
      BY <1>7, <2>1 DEF Begin
    <3>2. y(t) \in ActorState
      BY <1>1 DEF ActorState
    <3> HIDE DEF y
    <3>3. QED
      BY <1>6, <3>1, <3>2
  <2>2. QED
    BY <1>5, <2>1
<1>8. CASE Configure(a)
  <2>1. x.plan \in {"submit", "reenter", "extract"}
    BY <1>1, <1>8 DEF Configure, At, Actor, Shape
  <2>2. PlanStart[x.plan] \in {"mark_requested", "reenter_extracting", "mark_extracting"}
    BY <2>1 DEF PlanStart
  <2>3. QED
    BY <1>1, <1>6, <1>8, <2>2 DEF Configure, Goto
<1>9. CASE HoldForSubmit(a)
  <2> DEFINE y == [x EXCEPT !.copy = GetJob(x)]
  <2>1. y \in ActorState
    BY <1>1 DEF ActorState
  <2>2. act' = [act EXCEPT ![a] = Moved(y, NextCreate(x.chosen))]
    BY <1>9 DEF HoldForSubmit
  <2> HIDE DEF y
  <2>3. QED
    BY <1>6, <2>1, <2>2, NextCreatePlaces
<1>10. CASE CreateJob(a)
  <2> DEFINE o == CHOOSE o \in x.chosen : TRUE
             y(j) == [x EXCEPT !.chosen = @ \ {o}, !.items = @ \cup {<<o, j>>}]
  <2>1. x.chosen # {}
    BY <1>1, <1>10 DEF CreateJob, At, Actor, Shape
  <2>2. o \in Objects
    BY <1>1, <2>1
  <2>3. PICK j \in Handed(x) : act' = [act EXCEPT ![a] = Moved(y(j), NextCreate(x.chosen \ {o}))]
    BY <1>10 DEF CreateJob
  <2>4. j \in RemoteJobs
    BY <1>1 DEF Handed, SInv, TypeOK, Items
  <2> HIDE DEF o
  <2>5. x.chosen \ {o} \in SUBSET Objects /\ x.items \cup {<<o, j>>} \in SUBSET Items
    BY <1>1, <2>2, <2>4 DEF Items
  <2>6. y(j) \in ActorState
    BY <1>1, <2>5 DEF ActorState
  <2> HIDE DEF y
  <2>7. QED
    BY <1>6, <2>3, <2>6, NextCreatePlaces
<1>11. CASE Poll(a)
  <2>1. [x EXCEPT !.polls = @ + 1] \in ActorState
    BY <1>1 DEF ActorState
  <2>2. QED
    BY <1>1, <1>6, <1>11, <2>1 DEF Poll, Goto
<1>12. CASE BeginCheck(a)
  <2> DEFINE y == [x EXCEPT !.copy = GetJob(x)]
  <2>1. y \in ActorState
    BY <1>1 DEF ActorState
  <2>2. \E p \in {"fail", "check_jobs"} : act' = [act EXCEPT ![a] = Moved(y, p)]
    BY <1>12 DEF BeginCheck
  <2> HIDE DEF y
  <2>3. QED
    BY <1>6, <2>1, <2>2
<1>13. CASE CheckJobs(a)
  <2>1. \A v \in {"ready", "failed", "pending"} : [x EXCEPT !.plan = v] \in ActorState
    BY <1>1 DEF ActorState
  <2>2. QED
    BY <1>6, <1>13, <2>1 DEF CheckJobs
<1>14. CASE JudgePoll(a) \/ Wake(a) \/ CaughtError(a) \/ NextDownload(a)
  <2>1. \E p \in {"mark_ready", "fail", "sleep", "poll", "store_download", "download"} : Goto(a, p)
    BY <1>14 DEF JudgePoll, Wake, CaughtError, NextDownload
  <2>2. QED
    BY <1>1, <1>6, <2>1 DEF Goto
<1>15. CASE HoldForDownload(a)
  <2> DEFINE c == GetJob(x)
             y == [x EXCEPT !.copy = c, !.items = c.ids]
  <2>1. CASE c = NoRow
    BY <1>1, <1>6, <1>15, <2>1 DEF HoldForDownload
  <2>2. CASE c # NoRow
    <3>1. c \in Row /\ c.ids \in SUBSET Items
      BY <1>1, <2>2 DEF Row
    <3>2. act' = [act EXCEPT ![a] = Moved(y, "next_download")]
      BY <1>15, <2>2 DEF HoldForDownload
    <3> HIDE DEF c
    <3>3. y \in ActorState
      BY <1>1, <3>1 DEF ActorState
    <3> HIDE DEF y
    <3>4. QED
      BY <1>6, <3>2, <3>3
  <2>3. QED
    BY <2>1, <2>2
<1>16. CASE Download(a)
  <2> DEFINE item == CHOOSE i \in x.items : TRUE
             y == [x EXCEPT !.items = @ \ {item}]
  <2>1. act' = [act EXCEPT ![a] = Moved(y, "download_heartbeat")]
    BY <1>16 DEF Download
  <2>2. y \in ActorState
    BY <1>1 DEF ActorState
  <2> HIDE DEF y
  <2>3. QED
    BY <1>6, <2>1, <2>2
<1>17. CASE ReadFiles(a)
  <2>1. [x EXCEPT !.found = OnDisk] \in ActorState
    BY <1>1 DEF ActorState, OnDisk
  <2>2. QED
    BY <1>6, <1>17, <2>1 DEF ReadFiles
<1>18. CASE UncaughtError(a)
  BY <1>5, <1>18 DEF UncaughtError
<1>19. QED
  BY <1>7, <1>8, <1>9, <1>10, <1>11, <1>12, <1>13, <1>14, <1>15, <1>16, <1>17, <1>18 DEF Workflow

LEMMA SpawnEnds ==
  ASSUME SInv, EndInv, NEW a \in Actors, Spawn(a)
  PROVE  EndInv'
<1>1. act[a].place # "idle" /\ UNCHANGED <<row, started, beside>>
  BY DEF Spawn, At, Environment
<1> DEFINE y == [Idle EXCEPT !.place = "begin", !.proc = act[a].proc, !.chosen = Supported]
<1>2. act' = [act EXCEPT ![a] = Idle] \/ act' = [act EXCEPT ![a] = y]
  BY DEF Spawn
<1>3. Apart(y)
  BY DEF Apart, Idle, NormalizePlaces
<1> HIDE DEF y
<1>4. QED
  BY <1>1, <1>2, <1>3, IdleApart, ApartStep

LEMMA DeleteEnds ==
  ASSUME SInv, EndInv, NEW a \in Actors, DeleteFiles(a) \/ DeleteRow(a)
  PROVE  EndInv'
<1>1. CASE DeleteFiles(a)
  <2>1. /\ act' = [act EXCEPT ![a] = Moved(act[a], "delete_row")]
        /\ act[a].place # "idle" /\ UNCHANGED <<row, started, beside>>
    BY <1>1 DEF DeleteFiles, Goto, At
  <2>2. "delete_row" \in Places /\ "delete_row" \notin NormalizePlaces
    BY PlacesAre DEF LocalPlaces, NormalizePlaces
  <2>3. QED
    BY <2>1, <2>2, ActorIs, MovedApart, ApartStep
<1>2. CASE DeleteRow(a)
  <2>1. /\ act' = [act EXCEPT ![a] = Idle] /\ row' = NoRow /\ act[a].place # "idle"
        /\ UNCHANGED <<started, beside>>
    BY <1>2 DEF DeleteRow, End, At, Environment
  <2>2. Going(row, row') /\ OverHasTime' /\ CompletedMeansStamped' /\ started'
    BY <2>1, StepStarted DEF Going, OverHasTime, CompletedMeansStamped
  <2>3. Steady(Idle) /\ Uploading(Idle, row') /\ Idle.place \notin NormalizePlaces
    BY IdleApart, ApartSteady DEF Apart
  <2>4. QED
    BY <2>1, <2>2, <2>3, EndStep1
<1>3. QED
  BY <1>1, <1>2

(* A normalize request moves on, to y, and leaves the row alone. *)
LEMMA NormalizeMove ==
  ASSUME SInv, EndInv, NEW a \in Actors, act[a].place \in NormalizePlaces,
         NEW y, act' = [act EXCEPT ![a] = y], Steady(y),
         ~beside => Uploading(y, row), UNCHANGED <<row, started, beside>>
  PROVE  EndInv'
<1>1. act[a].place # "idle"
  BY DEF NormalizePlaces
<1>2. Going(row, row') /\ OverHasTime' /\ CompletedMeansStamped' /\ started'
  BY <1>1, StepStarted DEF Going, EndInv, OverHasTime, CompletedMeansStamped
<1>3. ~beside => \A b \in Actors \ {a} : act[b].place \notin NormalizePlaces
  BY DEF EndInv
<1>4. QED
  BY <1>2, <1>3, EndStep1

(* The steps of a normalize request between its calls. *)
LEMMA NormalizingEnds ==
  ASSUME SInv, EndInv, NEW a \in Actors,
         ListFiles(a) \/ MakeTables(a) \/ TablesMade(a) \/ CheckNormalized(a)
           \/ ChooseUpload(a) \/ Upload(a) \/ CheckUploaded(a)
  PROVE  EndInv'
<1> DEFINE x == act[a]
           Later == {"make_tables", "table_heartbeat", "mark_normalized", "stamp_normalized",
                     "choose_upload", "mark_uploading", "mark_uploaded"}
<1>1. /\ x \in ActorState /\ x.chosen \in SUBSET Objects /\ x.found \in SUBSET Objects
      /\ Steady(x) /\ (~beside => Uploading(x, row))
      /\ UNCHANGED <<row, started, beside>>
  BY ActorIs DEF ActorState, EndInv, ListFiles, MakeTables, TablesMade, CheckNormalized,
                 ChooseUpload, Upload, CheckUploaded, Environment
<1>2. x.place \in {"list_files", "make_tables", "check_normalized", "choose_upload", "upload",
                   "check_uploaded"}
  BY DEF ListFiles, MakeTables, TablesMade, CheckNormalized, ChooseUpload, Upload,
         CheckUploaded, At
<1>3. x.place \in NormalizePlaces /\ x.place # "idle" /\ x.attached /\ x.copy # NoRow
  BY <1>1, <1>2 DEF NormalizePlaces, Steady
<1>4. /\ Later \cup {"stamp_uploaded", "uploaded_heartbeat", "fail"} \subseteq Places
      /\ Later \cup {"stamp_uploaded", "uploaded_heartbeat"} \subseteq NormalizePlaces
      /\ "fail" \notin NormalizePlaces \cup {"crash"}
  BY PlacesAre, CallPlacesIs DEF LocalPlaces, OtherCalls, StatusPlaces, NormalizePlaces
<1>5. ASSUME NEW y \in ActorState, y.copy = x.copy, y.attached = x.attached,
             NEW p \in Later \cup {"stamp_uploaded", "uploaded_heartbeat"},
             act' = [act EXCEPT ![a] = Moved(y, p)],
             p \in Later => x.place # "check_uploaded",
             p \notin Later => x.place = "check_uploaded",
             p = "uploaded_heartbeat" => x.copy.status # "UPLOADED_TO_MINIO"
      PROVE  EndInv'
  <2> DEFINE z == Moved(y, p)
  <2>1. p \in Places /\ p # "idle" /\ p # "crash" /\ p \in NormalizePlaces
    BY <1>4, <1>5
  <2>2. z.place = p /\ z.phase = "read" /\ z.copy = x.copy /\ z.attached
    BY <1>3, <1>5, <2>1, MovedFields
  <2> HIDE DEF z
  <2>3. Steady(z)
    BY <1>3, <2>1, <2>2 DEF Steady
  <2>4. ASSUME Uploading(x, row) PROVE Uploading(z, row)
    <3>1. CASE p \in Later
      <4>1. ~Between(x) /\ ~PastStamp(x) /\ ~Between(z) /\ ~PastStamp(z)
        BY <1>2, <1>5, <2>2, <3>1 DEF Between, PastStamp
      <4>2. QED
        BY <1>3, <2>2, <2>4, <4>1 DEF Uploading
    <3>2. CASE p = "stamp_uploaded"
      <4>1. Between(x) /\ Between(z) /\ ~PastStamp(z)
        BY <1>5, <2>2, <3>2 DEF Between, PastStamp
      <4>2. QED
        BY <1>3, <2>2, <2>4, <4>1 DEF Uploading
    <3>3. CASE p = "uploaded_heartbeat"
      <4>1. Between(x) /\ ~Between(z)
        BY <1>5, <2>2, <3>3 DEF Between
      <4>2. QED
        BY <1>3, <1>5, <2>2, <2>4, <3>3, <4>1 DEF Uploading, Sealed
    <3>4. QED
      BY <3>1, <3>2, <3>3
  <2>5. QED
    BY <1>1, <1>3, <1>5, <2>3, <2>4, NormalizeMove DEF z
<1>6. CASE Goto(a, "fail")
  BY <1>1, <1>3, <1>4, <1>6, MovedApart, ApartStep DEF Goto
<1>7. CASE ListFiles(a)
  <2> DEFINE y == [x EXCEPT !.chosen = OnDisk]
  <2>1. y \in ActorState /\ y.copy = x.copy /\ y.attached = x.attached
    BY <1>1 DEF ActorState, OnDisk
  <2>2. act' = [act EXCEPT ![a] = Moved(y, "make_tables")] /\ x.place = "list_files"
    BY <1>7 DEF ListFiles, At
  <2> HIDE DEF y
  <2>3. QED
    BY <1>5, <2>1, <2>2
<1>8. CASE MakeTables(a) /\ ~Goto(a, "fail")
  <2> DEFINE y(o) == [x EXCEPT !.chosen = @ \ {o}, !.found = @ \cup {o}]
  <2>1. PICK o \in x.chosen \cap OnDisk :
          act' = [act EXCEPT ![a] = Moved(y(o), "table_heartbeat")]
    BY <1>8 DEF MakeTables
  <2>2. x.place = "make_tables"
    BY <1>8 DEF MakeTables, At
  <2>3. y(o) \in ActorState /\ y(o).copy = x.copy /\ y(o).attached = x.attached
    BY <1>1 DEF ActorState
  <2> HIDE DEF y
  <2>4. QED
    BY <1>5, <2>1, <2>2, <2>3
<1>9. CASE TablesMade(a)
  BY <1>1, <1>5, <1>9 DEF TablesMade, Goto, At
<1>10. CASE CheckNormalized(a)
  <2>1. \E p \in {"stamp_normalized", "choose_upload"} : act' = [act EXCEPT ![a] = Moved(x, p)]
    BY <1>10 DEF CheckNormalized, Goto
  <2>2. x.place # "check_uploaded"
    BY <1>10 DEF CheckNormalized, At
  <2>3. QED
    BY <1>1, <1>5, <2>1, <2>2
<1>11. CASE ChooseUpload(a)
  <2>1. \/ act' = [act EXCEPT ![a] = Moved(x, "mark_uploading")]
        \/ act' = [act EXCEPT ![a] = Moved(x, "idle")]
    BY <1>11 DEF ChooseUpload, Goto
  <2>2. CASE act' = [act EXCEPT ![a] = Moved(x, "idle")]
    BY <1>1, <1>3, <2>2, MovedToIdle, IdleApart, ApartStep
  <2>3. x.place # "check_uploaded"
    BY <1>11 DEF ChooseUpload, At
  <2>4. QED
    BY <1>1, <1>5, <2>1, <2>2, <2>3
<1>12. CASE Upload(a) /\ ~Goto(a, "fail")
  BY <1>1, <1>5, <1>12 DEF Upload, Goto, At
<1>13. CASE CheckUploaded(a)
  <2>1. \E p \in {"stamp_uploaded", "uploaded_heartbeat"} :
          /\ act' = [act EXCEPT ![a] = Moved(x, p)]
          /\ p = "uploaded_heartbeat" => x.copy.status # "UPLOADED_TO_MINIO"
    BY <1>13 DEF CheckUploaded, Goto
  <2>2. x.place = "check_uploaded"
    BY <1>13 DEF CheckUploaded, At
  <2>3. QED
    BY <1>1, <1>5, <2>1, <2>2
<1>14. QED
  BY <1>6, <1>7, <1>8, <1>9, <1>10, <1>11, <1>12, <1>13

-----------------------------------------------------------------------------
(* Calls *)

LEMMA RequestEnds ==
  ASSUME SInv, EndInv, NEW a \in Actors, Request(a)
  PROVE  EndInv'
BY SpawnEnds, DeleteEnds, NormalizingEnds DEF Request

(* Where a call that returns has a request at normalizing go on.           *)
LEMMA AfterEnds ==
  ASSUME NEW p \in CallPlaces
  PROVE  /\ After[p] \in Places /\ After[p] # "crash"
         /\ After[p] \in NormalizePlaces => p \in NormalizePlaces
         /\ After[p] = "check_uploaded" <=> p = "mark_uploaded"
         /\ After[p] = "uploaded_heartbeat" <=> p = "stamp_uploaded"
         /\ After[p] = "mark_completed" <=> p = "uploaded_heartbeat"
         /\ After[p] # "stamp_uploaded" /\ After[p] # "mark_uploaded"
         /\ p = "mark_completed" => After[p] = "idle"
<1>1. CASE p \in StatusPlaces
  BY <1>1, AfterEach, AfterPlaces DEF StatusPlaces, NormalizePlaces
<1>2. CASE p \in OtherCalls
  BY <1>2, AfterEach, AfterPlaces DEF OtherCalls, NormalizePlaces
<1>3. QED
  BY <1>1, <1>2, CallPlacesIs

(* A call returns with copy c; z is how its actor goes on.                 *)
LEMMA ReturnEnds ==
  ASSUME SInv, EndInv, NEW a \in Actors, act[a].place \in CallPlaces,
         NEW c \in Row \cup {NoRow}, act[a].place \in NormalizePlaces => c # NoRow,
         act' = [act EXCEPT ![a] = Moved([act[a] EXCEPT !.copy = c], After[act[a].place])],
         UNCHANGED <<row, started, beside>>,
         \A z : /\ ~beside /\ act[a].place \in NormalizePlaces /\ row # NoRow
                /\ z.place = After[act[a].place] /\ z.place \in NormalizePlaces
                /\ z.phase = "read" /\ z.copy = c
                => Uploading(z, row)
  PROVE  EndInv'
<1> DEFINE x == act[a]
           y == [x EXCEPT !.copy = c]
           p == After[x.place]
           z == Moved(y, p)
<1>1. /\ x \in ActorState /\ Steady(x) /\ x.place # "idle"
  BY ActorIs, CallPlacesIs DEF EndInv, StatusPlaces, OtherCalls
<1>2. /\ p \in Places /\ p # "crash"
      /\ p \in NormalizePlaces => x.place \in NormalizePlaces
  BY AfterEnds
<1>3. y \in ActorState /\ y.copy = c /\ y.attached = x.attached
  BY <1>1 DEF ActorState
<1>4. act' = [act EXCEPT ![a] = z]
  OBVIOUS
<1>5. CASE p \notin NormalizePlaces
  <2>1. Apart(z)
    BY <1>2, <1>3, <1>5, MovedApart
  <2> HIDE DEF z
  <2>2. QED
    BY <1>1, <1>4, <2>1, ApartStep
<1>6. CASE p \in NormalizePlaces
  <2>1. p # "idle" /\ x.place \in NormalizePlaces
    BY <1>2, <1>6 DEF NormalizePlaces
  <2>2. x.attached /\ c # NoRow
    BY <1>1, <2>1 DEF Steady
  <2> HIDE DEF y, p
  <2>3. z.place = p /\ z.phase = "read" /\ z.attached /\ z.copy = c
    BY <1>2, <1>3, <2>1, <2>2, MovedFields
  <2> HIDE DEF z
  <2>4. Steady(z)
    BY <1>2, <2>2, <2>3 DEF Steady
  <2>5. ~beside => Uploading(z, row)
    <3>1. CASE row = NoRow
      BY <3>1 DEF Uploading
    <3>2. CASE row # NoRow
      BY <1>6, <2>1, <2>3, <3>2 DEF p
    <3>3. QED
      BY <3>1, <3>2
  <2>6. QED
    BY <1>4, <2>1, <2>4, <2>5, NormalizeMove
<1>7. QED
  BY <1>5, <1>6

LEMMA CallReadEnds ==
  ASSUME SInv, EndInv, NEW a \in Actors, CallRead(a)
  PROVE  EndInv'
<1> DEFINE x == act[a]
           c == GetJob(x)
<1>1. /\ x \in ActorState /\ Steady(x) /\ (~beside => Uploading(x, row))
      /\ x.place \in CallPlaces /\ x.phase = "read" /\ UNCHANGED <<row, started, beside>>
  BY ActorIs DEF CallRead, EndInv, Environment
<1>2. x.place # "idle"
  BY <1>1, CallPlacesIs DEF StatusPlaces, OtherCalls
<1>3. c \in Row \cup {NoRow} /\ (x.copy # NoRow => c = x.copy)
  BY <1>1 DEF GetJob, ActorState, SInv, TypeOK
<1>4. x.place \in NormalizePlaces => x.attached /\ c # NoRow /\ c = x.copy
  BY <1>1, <1>3 DEF Steady
<1>5. CASE c # NoRow /\ Accepts(x, c)
  <2> DEFINE y == [x EXCEPT !.copy = c, !.phase = "commit"]
  <2>1. act' = [act EXCEPT ![a] = y]
    BY <1>5 DEF CallRead
  <2>2. /\ y \in ActorState /\ y.place = x.place /\ y.copy = c /\ y.phase = "commit"
        /\ y.attached = x.attached
    BY <1>1, <1>3 DEF ActorState
  <2> HIDE DEF y, c
  <2>3. x.place = "crash" => c.status \in InProgress
    BY <1>1, <1>3 DEF Steady
  <2>4. Steady(y)
    BY <1>4, <1>5, <2>2, <2>3 DEF Steady, Accepts
  <2>5. ASSUME Uploading(x, row), x.place \in NormalizePlaces PROVE Uploading(y, row)
    BY <1>1, <1>4, <2>2, <2>5 DEF Uploading, Between, PastStamp
  <2>6. CASE x.place \in NormalizePlaces
    BY <1>1, <2>1, <2>4, <2>5, <2>6, NormalizeMove
  <2>7. CASE x.place \notin NormalizePlaces
    <3>1. Uploading(y, row') /\ y.place \notin NormalizePlaces
      BY <2>2, <2>7 DEF Uploading
    <3>2. Going(row, row') /\ OverHasTime' /\ CompletedMeansStamped' /\ started'
      BY <1>1, <1>2, StepStarted DEF Going, EndInv, OverHasTime, CompletedMeansStamped
    <3>3. QED
      BY <1>1, <2>1, <2>4, <3>1, <3>2, EndStep1
  <2>8. QED
    BY <2>6, <2>7
<1>6. CASE ~(c # NoRow /\ Accepts(x, c))
  <2>1. act' = [act EXCEPT ![a] = Moved([x EXCEPT !.copy = c], After[x.place])]
    BY <1>6 DEF CallRead
  <2> HIDE DEF c
  <2>2. ASSUME x.place \in NormalizePlaces
        PROVE  x.place \notin {"stamp_uploaded", "uploaded_heartbeat"}
    BY <1>4, <1>6, <2>2, StatusPlacesIs DEF Accepts, StatusPlaces
  <2>3. ASSUME NEW z, ~beside, x.place \in NormalizePlaces, row # NoRow,
               z.place = After[x.place], z.place \in NormalizePlaces, z.phase = "read",
               z.copy = c
        PROVE  Uploading(z, row)
    <3>1. /\ z.place = "check_uploaded" <=> x.place = "mark_uploaded"
          /\ z.place \notin {"stamp_uploaded", "uploaded_heartbeat", "mark_completed"}
      BY <1>1, <2>2, <2>3, AfterEnds
    <3>2. x.place \notin {"check_uploaded", "mark_completed"}
      BY <1>1, <2>3, AfterEnds, CallPlacesIs DEF StatusPlaces, OtherCalls, NormalizePlaces
    <3>3. ~Between(x) /\ ~PastStamp(x) /\ ~PastStamp(z)
      BY <1>1, <2>2, <2>3, <3>1, <3>2 DEF Between, PastStamp
    <3>4. Uploading(x, row) /\ x.copy = c
      BY <1>1, <1>4, <2>3
    <3>5. QED
      BY <2>3, <3>3, <3>4 DEF Uploading, Sealed
  <2>4. QED
    BY <1>1, <1>3, <1>4, <2>1, <2>3, ReturnEnds
<1>7. QED
  BY <1>5, <1>6

LEMMA EndEnds ==
  ASSUME SInv, EndInv, NEW a \in Actors, act[a].place \in CallPlaces, End(a),
         UNCHANGED <<row, started, beside>>
  PROVE  EndInv'
<1>1. act[a].place # "idle"
  BY CallPlacesIs DEF StatusPlaces, OtherCalls
<1>2. QED
  BY <1>1, IdleApart, ApartStep DEF End

LEMMA CallRefreshEnds ==
  ASSUME SInv, EndInv, NEW a \in Actors, CallRefresh(a)
  PROVE  EndInv'
<1> DEFINE x == act[a]
<1>1. /\ x \in ActorState /\ Steady(x) /\ (~beside => Uploading(x, row))
      /\ CompletedMeansStamped /\ row \in Row \cup {NoRow}
      /\ x.place \in CallPlaces /\ x.phase = "refresh" /\ UNCHANGED <<row, started, beside>>
  BY ActorIs DEF CallRefresh, EndInv, Environment, SInv, TypeOK
<1>2. CASE row = NoRow
  BY <1>1, <1>2, EndEnds DEF CallRefresh
<1>3. CASE row # NoRow
  <2>1. act' = [act EXCEPT ![a] = Moved([x EXCEPT !.copy = row], After[x.place])]
    BY <1>3 DEF CallRefresh
  <2>2. ASSUME NEW z, ~beside, x.place \in NormalizePlaces,
               z.place = After[x.place], z.place \in NormalizePlaces, z.phase = "read",
               z.copy = row
        PROVE  Uploading(z, row)
    <3>1. /\ z.place = "check_uploaded" <=> x.place = "mark_uploaded"
          /\ z.place = "uploaded_heartbeat" <=> x.place = "stamp_uploaded"
          /\ z.place = "mark_completed" <=> x.place = "uploaded_heartbeat"
          /\ z.place # "stamp_uploaded"
          /\ x.place # "mark_completed" /\ x.place # "check_uploaded"
      BY <1>1, <2>2, AfterEnds, CallPlacesIs DEF StatusPlaces, OtherCalls, NormalizePlaces
    <3>2. (Between(z) <=> Between(x)) /\ (PastStamp(z) <=> PastStamp(x))
      BY <1>1, <2>2, <3>1 DEF Between, PastStamp
    <3>3. Uploading(x, row) /\ (row.status = "COMPLETED" => row.uploaded)
      BY <1>1, <1>3, <2>2 DEF CompletedMeansStamped
    <3>4. QED
      BY <1>3, <2>2, <3>2, <3>3 DEF Uploading, Sealed
  <2>3. QED
    BY <1>1, <1>3, <2>1, <2>2, ReturnEnds
<1>4. QED
  BY <1>2, <1>3

LEMMA CallCommitEnds ==
  ASSUME SInv, EndInv, NEW a \in Actors, CallCommit(a)
  PROVE  EndInv'
<1> DEFINE x == act[a]
           c == x.copy
           d == Written(x)
           over == "completed" \in Stamps(x)
           y == [x EXCEPT !.copy = d, !.phase = "refresh"]
<1>1. /\ x \in ActorState /\ Steady(x) /\ (~beside => Uploading(x, row))
      /\ OverHasTime /\ CompletedMeansStamped
      /\ x.place \in CallPlaces /\ x.phase = "commit" /\ UNCHANGED <<started, beside>>
  BY ActorIs DEF CallCommit, EndInv, Environment
<1>2. CASE row = NoRow
  BY <1>1, <1>2, EndEnds DEF CallCommit
<1>3. CASE row # NoRow
  <2>1. /\ c \in Row /\ row \in Row /\ row' \in Row
        /\ Ending(d, c, x.place, over)
        /\ row'.status = IF d.status # c.status THEN d.status ELSE row.status
        /\ row'.completed = IF over \/ d.completed # c.completed THEN d.completed ELSE row.completed
        /\ row'.uploaded = IF d.uploaded # c.uploaded THEN d.uploaded ELSE row.uploaded
    BY <1>3, CommitEnding
  <2>2. act' = [act EXCEPT ![a] = y]
    BY <1>3 DEF CallCommit
  <2>3. d \in Row /\ d # NoRow /\ row' # NoRow
    BY <2>1, PipelineAssumption DEF Ending
  <2>4. started'
    BY <1>1, StepStarted, CallPlacesIs DEF StatusPlaces, OtherCalls
  <2> HIDE DEF d, over
  <2>5. /\ y.place = x.place /\ y.phase = "refresh" /\ y.copy = d /\ y.attached = x.attached
    BY <1>1, <2>3 DEF ActorState
  <2> HIDE DEF y
  <2>6. Steady(y)
    BY <1>1, <2>3, <2>5 DEF Steady
  <2>7. OverHasTime'
    <3>1. CASE over
      BY <2>1, <3>1 DEF Ending, OverHasTime
    <3>2. CASE ~over
      BY <1>1, <1>3, <2>1, <3>2 DEF Ending, OverHasTime
    <3>3. QED
      BY <3>1, <3>2
  <2>8. row.uploaded => row'.uploaded
    BY <2>1 DEF Ending
  <2>9. ASSUME ~beside, x.place = "mark_completed" PROVE c.status \in Sealed => row.uploaded
    BY <1>1, <1>3, <2>9 DEF Uploading, PastStamp, NormalizePlaces
  <2>10. CompletedMeansStamped'
    <3>1. CASE beside
      BY <1>1, <3>1 DEF CompletedMeansStamped
    <3>2. CASE row'.status = row.status
      BY <1>1, <1>3, <2>8, <3>2 DEF CompletedMeansStamped
    <3>3. CASE ~beside /\ row'.status # row.status /\ row'.status = "COMPLETED"
      <4>1. d.status = "COMPLETED" /\ d.status # c.status
        BY <2>1, <3>3
      <4>2. x.place = "mark_completed" /\ c.status \in Sealed
        BY <2>1, <4>1 DEF Ending, Sealed
      <4>3. QED
        BY <2>8, <2>9, <3>3, <4>2 DEF CompletedMeansStamped
    <3>4. QED
      BY <3>1, <3>2, <3>3 DEF CompletedMeansStamped
  <2>11. CASE x.place \in NormalizePlaces
    <3>1. ASSUME ~beside PROVE Uploading(y, row')
      <4>1. Uploading(x, row) /\ (c.uploaded => row.uploaded)
        BY <1>1, <1>3, <2>11, <3>1 DEF Uploading
      <4>2. d.uploaded => row'.uploaded
        BY <2>1, <4>1
      <4>3. CASE x.place \notin {"mark_uploaded", "check_uploaded", "stamp_uploaded",
                                 "uploaded_heartbeat", "mark_completed"}
        <5>1. ~Between(x) /\ ~PastStamp(x) /\ ~Between(y) /\ ~PastStamp(y)
          BY <2>5, <4>3 DEF Between, PastStamp
        <5>2. row.status \notin Sealed /\ c.status \notin Sealed
          BY <1>3, <2>11, <4>1, <5>1 DEF Uploading
        <5>3. d.status \notin Sealed /\ row'.status \notin Sealed
          BY <2>1, <4>3, <5>2 DEF Ending
        <5>4. QED
          BY <2>5, <4>2, <5>1, <5>3 DEF Uploading
      <4>4. CASE x.place = "mark_uploaded"
        <5>1. ~Between(x) /\ ~PastStamp(x) /\ Between(y) /\ ~PastStamp(y)
          BY <1>1, <2>5, <4>4 DEF Between, PastStamp
        <5>2. c.status \notin Sealed
          BY <1>3, <2>11, <4>1, <5>1 DEF Uploading
        <5>3. d.status = "UPLOADED_TO_MINIO" /\ row'.status = d.status
          BY <2>1, <4>4, <5>2 DEF Ending, Sealed
        <5>4. QED
          BY <2>5, <4>2, <5>1, <5>3 DEF Uploading
      <4>5. CASE x.place = "stamp_uploaded"
        <5>1. PastStamp(y) /\ ~Between(y)
          BY <2>5, <4>5 DEF PastStamp, Between
        <5>2. row'.uploaded
          BY <2>1, <4>1, <4>5 DEF Ending
        <5>3. QED
          BY <2>5, <4>2, <5>1, <5>2 DEF Uploading
      <4>6. CASE x.place = "uploaded_heartbeat"
        <5>1. PastStamp(x) /\ PastStamp(y) /\ ~Between(y)
          BY <2>5, <4>6 DEF PastStamp, Between
        <5>2. /\ row.status = "UPLOADED_TO_MINIO" => row.uploaded
              /\ c.status \in Sealed => row.uploaded
          BY <1>3, <2>11, <4>1, <5>1 DEF Uploading
        <5>3. d.status \in Sealed => d.status = c.status
          BY <2>1, <4>6 DEF Ending
        <5>4. /\ row'.status = "UPLOADED_TO_MINIO" => row'.uploaded
              /\ d.status \in Sealed => row'.uploaded
          BY <2>1, <2>8, <5>2, <5>3 DEF Sealed
        <5>5. QED
          BY <2>5, <4>2, <5>1, <5>4 DEF Uploading
      <4>7. CASE x.place = "mark_completed"
        <5>1. PastStamp(y) /\ ~Between(y)
          BY <2>5, <4>7 DEF PastStamp, Between
        <5>2. row'.uploaded
          BY <2>1, <2>8, <2>9, <3>1, <4>7 DEF Ending
        <5>3. QED
          BY <2>5, <4>2, <5>1, <5>2 DEF Uploading
      <4>8. x.place # "check_uploaded"
        BY <1>1, CallPlacesIs DEF StatusPlaces, OtherCalls
      <4>9. QED
        BY <4>3, <4>4, <4>5, <4>6, <4>7, <4>8
    <3>2. ~beside => \A b \in Actors \ {a} : act[b].place \notin NormalizePlaces
      BY <2>11 DEF EndInv
    <3>3. QED
      BY <1>1, <2>2, <2>4, <2>6, <2>7, <2>10, <3>1, <3>2, EndStep1
  <2>12. CASE x.place \notin NormalizePlaces
    <3>1. Going(row, row')
      BY <1>3, <2>1, <2>8, <2>12 DEF Going, Ending, NormalizePlaces
    <3>2. Uploading(y, row') /\ y.place \notin NormalizePlaces
      BY <2>5, <2>12 DEF Uploading
    <3>3. QED
      BY <1>1, <2>2, <2>4, <2>6, <2>7, <2>10, <3>1, <3>2, EndStep1
  <2>13. QED
    BY <2>11, <2>12
<1>4. QED
  BY <1>2, <1>3

-----------------------------------------------------------------------------
(* Arrivals, crashes, and all steps *)

LEMMA StartScanEnds ==
  ASSUME SInv, EndInv, NEW a \in Actors, NEW p \in Processes, StartScan(a, p)
  PROVE  EndInv'
<1> DEFINE y == [Idle EXCEPT !.place = "begin", !.proc = p, !.chosen = Wanted]
<1>1. act' = [act EXCEPT ![a] = y] /\ row' = NewRow /\ started' = TRUE /\ UNCHANGED beside
  BY DEF StartScan
<1>2. Apart(y) /\ y.place \notin NormalizePlaces
  BY DEF Apart, Idle, NormalizePlaces
<1> HIDE DEF y
<1>3. \A b \in Actors : act[b].place \notin NormalizePlaces
  BY IdleApart DEF StartScan, EndInv, Apart
<1>4. OverHasTime' /\ CompletedMeansStamped'
  BY <1>1 DEF OverHasTime, CompletedMeansStamped, NewRow, Terminal
<1>5. Steady(y) /\ Uploading(y, row')
  BY <1>2, ApartSteady
<1>6. QED
  BY <1>1, <1>2, <1>3, <1>4, <1>5, EndStep1

(* A request arrives, as actor state y, while there is a row.              *)
LEMMA ArrivesEnds ==
  ASSUME SInv, EndInv, NEW a \in Actors, NEW y, act' = [act EXCEPT ![a] = y],
         row # NoRow, UNCHANGED <<row, started>>, beside => beside',
         Steady(y), Uploading(y, row),
         ~beside' /\ y.place \in NormalizePlaces =>
           \A b \in Actors \ {a} : act[b].place \notin NormalizePlaces
  PROVE  EndInv'
<1>1. started'
  BY DEF SInv
<1>2. Going(row, row') /\ OverHasTime' /\ CompletedMeansStamped'
  BY DEF Going, EndInv, OverHasTime, CompletedMeansStamped
<1>3. QED
  BY <1>1, <1>2, EndStep1

LEMMA ArrivalEnds ==
  ASSUME SInv, EndInv, NEW a \in Actors, NEW p \in Processes, Arrival(a, p)
  PROVE  EndInv'
<1>1. CASE StartScan(a, p)
  BY <1>1, StartScanEnds
<1>2. CASE ~StartScan(a, p)
  <2>1. row # NoRow /\ UNCHANGED <<row, started>> /\ (beside => beside')
    <3>1. row # NoRow /\ UNCHANGED <<row, started>>
      BY <1>2 DEF Arrival, CancelScan, ResumeScan, RemoveScan, CleanupOldJobs, DetectCrashed,
                  NormalizeScan, Arrives, Environment
    <3>2. CASE NormalizeScan(a, p)
      BY <3>1, <3>2 DEF NormalizeScan
    <3>3. CASE ~NormalizeScan(a, p)
      <4>1. beside' = beside
        BY <1>2, <3>3 DEF Arrival, CancelScan, ResumeScan, RemoveScan, CleanupOldJobs,
                          DetectCrashed, Environment
      <4>2. QED
        BY <3>1, <4>1
    <3>4. QED
      BY <3>2, <3>3
  <2>2. ASSUME NEW y, act' = [act EXCEPT ![a] = y], Apart(y) PROVE EndInv'
    <3>1. Steady(y) /\ Uploading(y, row) /\ y.place \notin NormalizePlaces
      BY <2>2, ApartSteady DEF Apart
    <3>2. QED
      BY <2>1, <2>2, <3>1, ArrivesEnds
  <2>3. \A q \in {"cancel", "delete_files", "delete_row", "resume", "spawn"} :
          Apart(Handler(p, q)) /\ \A s : Apart([Handler(p, q) EXCEPT !.plan = s])
    BY DEF Apart, Handler, Idle, NormalizePlaces
  <2>4. CASE CancelScan(a, p) \/ RemoveScan(a, p) \/ CleanupOldJobs(a, p)
    BY <2>2, <2>3, <2>4 DEF CancelScan, RemoveScan, CleanupOldJobs
  <2>5. CASE ResumeScan(a, p)
    BY <2>2, <2>3, <2>5 DEF ResumeScan
  <2>6. CASE DetectCrashed(a, p)
    <3> DEFINE y == Handler(p, "crash")
    <3>1. act' = [act EXCEPT ![a] = y] /\ row.status \in InProgress
      BY <2>6 DEF DetectCrashed, LooksCrashed
    <3>2. y.place = "crash" /\ y.phase = "read" /\ y.copy = row
      BY DEF Handler, Idle
    <3> HIDE DEF y
    <3>3. Steady(y) /\ Uploading(y, row) /\ y.place \notin NormalizePlaces
      BY <2>1, <3>1, <3>2 DEF Steady, Uploading, NormalizePlaces
    <3>4. QED
      BY <2>1, <3>1, <3>3, ArrivesEnds
  <2>7. CASE NormalizeScan(a, p)
    <3> DEFINE y(t) == [Handler(p, "mark_normalizing") EXCEPT !.plan = t]
    <3>1. PICK t \in {"upload", "keep"} : act' = [act EXCEPT ![a] = y(t)]
      BY <2>7 DEF NormalizeScan
    <3>2. row.status = "EXTRACTED"
          /\ beside' = (beside \/ \E b \in Actors \ {a} : act[b].place \in NormalizePlaces)
      BY <2>7 DEF NormalizeScan
    <3>3. y(t).place = "mark_normalizing" /\ y(t).phase = "read" /\ y(t).copy = row /\ y(t).attached
      BY DEF Handler, Idle
    <3> HIDE DEF y
    <3>4. Steady(y(t))
      BY <2>1, <3>3 DEF Steady
    <3>5. Uploading(y(t), row)
      BY <3>2, <3>3 DEF Uploading, Between, PastStamp, Sealed
    <3>6. QED
      BY <2>1, <3>1, <3>2, <3>4, <3>5, ArrivesEnds
  <2>8. QED
    BY <1>2, <2>4, <2>5, <2>6, <2>7 DEF Arrival
<1>3. QED
  BY <1>1, <1>2

LEMMA HeartbeatAgesEnds ==
  ASSUME SInv, EndInv, HeartbeatAges
  PROVE  EndInv'
<1>1. /\ row \in Row /\ row # NoRow /\ row' = [row EXCEPT !.heartbeat = "stale"]
      /\ UNCHANGED <<act, started, beside>>
  BY DEF HeartbeatAges, SInv, TypeOK, Environment
<1>2. row' # NoRow /\ row'.status = row.status /\ row'.completed = row.completed
      /\ row'.uploaded = row.uploaded
  <2>1. row' \in Row
    BY <1>1 DEF Row, Heartbeat
  <2>2. QED
    BY <1>1, <2>1, PipelineAssumption DEF Row
<1>3. \A b \in Actors : Uploading(act[b], row) => Uploading(act[b], row')
  BY <1>1, <1>2 DEF Uploading
<1>4. \A b \in Actors : Steady(act[b])'
  BY <1>1 DEF EndInv, Steady, Accepts
<1>5. ~beside' => \A b \in Actors : Uploading(act[b], row)'
  BY <1>1, <1>3 DEF EndInv, Uploading, Between, PastStamp
<1>6. OverHasTime' /\ CompletedMeansStamped'
  BY <1>1, <1>2 DEF EndInv, OverHasTime, CompletedMeansStamped
<1>7. QED
  BY <1>1, <1>4, <1>5, <1>6 DEF EndInv

LEMMA CrashEnds ==
  ASSUME SInv, EndInv, NEW p \in Processes, Crash(p)
  PROVE  EndInv'
<1>1. /\ act' = [a \in Actors |-> IF act[a].proc = p THEN Idle ELSE act[a]]
      /\ UNCHANGED <<row, started, beside>>
  BY DEF Crash
<1>2. \A b \in Actors : act'[b] \in {Idle, act[b]}
  BY <1>1
<1>3. Steady(Idle) /\ Uploading(Idle, row) /\ Idle.place \notin NormalizePlaces
  BY IdleApart, ApartSteady DEF Apart
<1>4. \A b \in Actors : Steady(act'[b])
  BY <1>2, <1>3 DEF EndInv
<1>5. ~beside => \A b \in Actors : Uploading(act'[b], row)
  BY <1>2, <1>3 DEF EndInv
<1>6. ~beside => \A b, c \in Actors :
        act'[b].place \in NormalizePlaces /\ act'[c].place \in NormalizePlaces => b = c
  BY <1>2, <1>3 DEF EndInv
<1>7. ~started => \A b \in Actors : act'[b] = Idle
  BY <1>2 DEF EndInv
<1>8. OverHasTime' /\ CompletedMeansStamped'
  BY <1>1 DEF EndInv, OverHasTime, CompletedMeansStamped
<1>9. QED
  BY <1>1, <1>4, <1>5, <1>6, <1>7, <1>8
     DEF EndInv, Steady, Accepts, Uploading, Between, PastStamp

LEMMA InitEnds == Init => EndInv
<1> SUFFICES ASSUME Init PROVE EndInv
  OBVIOUS
<1>1. row = NoRow /\ \A a \in Actors : act[a] = Idle
  BY DEF Init
<1>2. Steady(Idle) /\ Uploading(Idle, row) /\ Idle.place \notin NormalizePlaces
  BY IdleApart, ApartSteady DEF Apart
<1>3. QED
  BY <1>1, <1>2 DEF EndInv, OverHasTime, CompletedMeansStamped

LEMMA NextEnds == SInv /\ EndInv /\ [Next]_vars => EndInv'
<1> SUFFICES ASSUME SInv, EndInv, [Next]_vars PROVE EndInv'
  OBVIOUS
<1>1. CASE UNCHANGED vars
  BY <1>1 DEF vars, EndInv, OverHasTime, CompletedMeansStamped, Steady, Accepts, Uploading,
              Between, PastStamp
<1>2. CASE Quiet
  BY <1>1, <1>2 DEF Quiet
<1>3. ASSUME NEW a \in Actors, Step(a) PROVE EndInv'
  BY <1>3, CallReadEnds, CallCommitEnds, CallRefreshEnds, WorkflowEnds, RequestEnds DEF Step
<1>4. QED
  BY <1>1, <1>2, <1>3, ArrivalEnds, HeartbeatAgesEnds, CrashEnds DEF Next

LEMMA EndInvariance == Spec => []EndInv
BY InitHolds, NextHolds, InitEnds, NextEnds, PTL DEF Spec

-----------------------------------------------------------------------------
(* The results about how a scan ends *)

(* Whatever the processes, the teardowns, the requests and the crashes, a  *)
(* row at a terminal status has completed_at: fail_job, cancel_job and the *)
(* crash detection assign a new time with every status they write, and a   *)
(* status change that clears the time leaves the terminal ones.            *)
THEOREM OverTimeCorrect == Spec => []OverHasTime
BY EndInvariance, PTL DEF EndInv

(* Likewise, a COMPLETED scan has minio_uploaded_at unless two normalize   *)
(* requests were at work on it at once.                                    *)
THEOREM StampIsKept == Spec => []CompletedMeansStamped
BY EndInvariance, PTL DEF EndInv

(* Likewise, a scan that is over changes its status only by the write of a *)
(* resume, or by one decided on a copy in which the scan was not over.     *)
THEOREM OverStays == Spec => OverStaysOver
<1> DEFINE Kept == row # NoRow /\ row' # NoRow /\ row.status \in Terminal
                     /\ row'.status # row.status =>
                     \/ ResumeWrites
                     \/ \E a \in Actors : act[a].phase = "commit" /\ act'[a].phase = "refresh"
                                           /\ act[a].copy.status \notin Terminal
<1>1. SInv /\ EndInv /\ [Next]_vars => [Kept]_vars
  <2> SUFFICES ASSUME SInv, EndInv, Next, row # NoRow, row' # NoRow,
                      row.status \in Terminal, row'.status # row.status
               PROVE  \/ ResumeWrites
                      \/ \E a \in Actors : act[a].phase = "commit" /\ act'[a].phase = "refresh"
                                            /\ act[a].copy.status \notin Terminal
    BY DEF vars
  <2>1. ~UNCHANGED row
    OBVIOUS
  <2>2. ~HeartbeatAges
    BY DEF HeartbeatAges, SInv, TypeOK, Row
  <2>3. \A a \in Actors : Step(a) => CallCommit(a)
    BY <2>1, OnlyCommitsWrite
  <2>4. \A a \in Actors, p \in Processes : ~Arrival(a, p)
    BY <2>1, ArrivalsWriteNothing
  <2>5. PICK a \in Actors : CallCommit(a)
    BY <2>1, <2>2, <2>3, <2>4 DEF Next, Crash, Quiet, vars
  <2> DEFINE x == act[a]
             d == Written(x)
  <2>6. /\ x.copy \in Row /\ Ending(d, x.copy, x.place, "completed" \in Stamps(x))
        /\ row'.status = IF d.status # x.copy.status THEN d.status ELSE row.status
    BY <2>5, CommitEnding
  <2>7. x \in ActorState /\ x.phase = "commit" /\ act'[a].phase = "refresh"
    <3>1. x \in ActorState /\ act \in [Actors -> ActorState]
      BY ActorIs DEF SInv, AllActors
    <3>2. x.phase = "commit" /\ act' = [act EXCEPT ![a].copy = d, ![a].phase = "refresh"]
      BY <2>5 DEF CallCommit
    <3> HIDE DEF d
    <3>3. QED
      BY <3>1, <3>2 DEF ActorState
  <2> HIDE DEF d
  <2>8. d.status # x.copy.status
    BY <2>6
  <2>9. x.place = "resume" \/ x.copy.status \notin Terminal
    BY <2>6, <2>8 DEF Ending
  <2>10. QED
    BY <2>7, <2>9 DEF ResumeWrites, At
<1>2. QED
  BY <1>1, Invariance, EndInvariance, PTL DEF Spec, OverStaysOver

=============================================================================
