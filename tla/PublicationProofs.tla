-------------------------- MODULE PublicationProofs --------------------------
(***************************************************************************)
(* What the object store holds, for every set of scans, organizations and  *)
(* worker processes, whatever the CSV files have in them.                  *)
(*                                                                         *)
(* The argument: a file of normalized/ only ever holds rows of its scan    *)
(* (Owned), so what is uploaded from it belongs to the organization of the *)
(* key (Filed).  And a request that uploads has every table of the scan    *)
(* before it, in its hands, among its paths, or in the store (Covered):    *)
(* when it has no file, no table and no path left, all are in the store,   *)
(* where nothing is ever deleted.                                          *)
(*                                                                         *)
(* In the second half, what stands there of a scan that had no two         *)
(* requests at once: the rows its files make, and nothing of an earlier    *)
(* attempt or of another scan (PublicationIsWhole, LaterReplacesAll).      *)
(***************************************************************************)
EXTENDS Publication, SequenceTheorems, TLAPS

Objects == DOMAIN Registry

Modes == {"upload", "save", "stats", "one", "none"}

(* All files have been read; and, of these, all tables have been uploaded. *)
Finishing == {"mark_uploaded", "beat_uploaded", "mark_completed"}

Publishing == {"mark_uploading", "beat_uploading", "upload"} \cup Finishing

FilesRead == {"mark_normalized"} \cup Publishing

Places == {"idle", "mark_normalizing", "next_file", "open", "write"} \cup FilesRead

Request == [place : Places, scan : Scans \cup {NoTable}, mode : Modes,
            seen : Status \cup {"none"}, files : SUBSET Objects,
            object : Objects \cup {NoTable},
            tables : Seq(AllTables), paths : Seq(AllTables)]

Object == {NoObject} \cup [by : Scans, rows : {Torn} \cup SUBSET Row]

Shape ==
  /\ status \in [Scans -> Reached]
  /\ disk \in [Scans -> [AllTables -> {NoTable, Torn} \cup SUBSET Row]]
  /\ bucket \in [Orgs \X AllTables -> Object]
  /\ worker \in [Workers -> Request]
  /\ left \in 0..MaxRequests
  /\ shared \subseteq Scans

In(t, q) == \E i \in 1..Len(q) : q[i] = t

(* What a file of scan s may hold, and an object of an organization.       *)
OfScan(s) == {Torn} \cup SUBSET {r \in Row : r.scan = s}

OfOrg(org) == {Torn} \cup SUBSET {r \in Row : OrgOf[r.scan] = org}

Owned(d) == \A s \in Scans, t \in AllTables : d[s][t] = NoTable \/ d[s][t] \in OfScan(s)

Filed(b) == \A k \in Orgs \X AllTables : b[k] = NoObject \/ b[k].rows \in OfOrg(k[1])

Placed(x) ==
  /\ x.place = "idle" => x = Idle
  /\ x.place # "idle" => /\ x.scan \in Scans /\ x.mode # "none" /\ x.seen \in Status
                         /\ x.files \subseteq FilesOf(x.scan)
  /\ x.place \in {"open", "write"} => x.object \in FilesOf(x.scan) /\ x.tables # <<>>
  /\ x.place \in {"mark_normalizing", "next_file"} \cup FilesRead =>
       x.mode # "one" /\ (x.mode # "stats" => x.tables = <<>>)
  /\ x.place \in FilesRead => x.files = {}
  /\ x.place \in Publishing => x.mode = "upload"
  /\ x.place = "upload" => x.paths # <<>>
  /\ x.place \in Finishing => x.paths = <<>>

Rendered(x, d) == \A t \in AllTables : In(t, x.paths) => d[x.scan][t] \in OfScan(x.scan)

Covered(x, b) ==
  x.mode = "upload" =>
    \A o \in FilesOf(x.scan) : \A t \in TablesOf(o) :
      \/ o \in x.files
      \/ In(t, x.tables)
      \/ In(t, x.paths)
      \/ b[Key(x.scan, t)] # NoObject

Running == \A w \in Workers : /\ Placed(worker[w])
                              /\ Rendered(worker[w], disk)
                              /\ Covered(worker[w], bucket)

PInv == Shape /\ Owned(disk) /\ Filed(bucket) /\ Running /\ CompletedIsPublished

-----------------------------------------------------------------------------
(* Sequences *)

LEMMA InEmpty == \A t : ~In(t, <<>>)
BY DEF In

LEMMA InHeadTail ==
  ASSUME NEW S, NEW q \in Seq(S), q # <<>>
  PROVE  /\ Head(q) \in S /\ Tail(q) \in Seq(S)
         /\ In(Head(q), q)
         /\ \A t : In(t, q) <=> t = Head(q) \/ In(t, Tail(q))
<1>1. /\ Head(q) \in S /\ Tail(q) \in Seq(S)
      /\ Len(q) \in Nat \ {0} /\ Len(Tail(q)) = Len(q) - 1
      /\ Head(q) = q[1]
      /\ \A i \in 1..Len(Tail(q)) : Tail(q)[i] = q[i + 1]
  BY HeadTailProperties
<1>2. ASSUME NEW t, In(t, q) PROVE t = Head(q) \/ In(t, Tail(q))
  <2>1. PICK i \in 1..Len(q) : q[i] = t
    BY <1>2 DEF In
  <2>2. CASE i = 1
    BY <1>1, <2>1, <2>2
  <2>3. CASE i # 1
    <3>1. i - 1 \in 1..Len(Tail(q)) /\ Tail(q)[i - 1] = q[(i - 1) + 1]
      BY <1>1, <2>1, <2>3
    <3>2. (i - 1) + 1 = i
      BY <2>1
    <3>3. QED
      BY <2>1, <3>1, <3>2 DEF In
  <2>4. QED
    BY <2>2, <2>3
<1>3. ASSUME NEW t, t = Head(q) \/ In(t, Tail(q)) PROVE In(t, q)
  <2>1. CASE t = Head(q)
    BY <1>1, <2>1 DEF In
  <2>2. CASE In(t, Tail(q))
    <3>1. PICK i \in 1..Len(Tail(q)) : Tail(q)[i] = t
      BY <2>2 DEF In
    <3>2. i + 1 \in 1..Len(q) /\ q[i + 1] = t
      BY <1>1, <3>1
    <3>3. QED
      BY <3>2 DEF In
  <2>3. QED
    BY <1>3, <2>1, <2>2
<1>4. QED
  BY <1>1, <1>2, <1>3

LEMMA InAppend ==
  ASSUME NEW S, NEW q \in Seq(S), NEW e \in S
  PROVE  /\ Append(q, e) \in Seq(S) /\ Append(q, e) # <<>>
         /\ \A t : In(t, Append(q, e)) <=> In(t, q) \/ t = e
<1>1. /\ Append(q, e) \in Seq(S) /\ Len(q) \in Nat
      /\ Len(Append(q, e)) = Len(q) + 1
      /\ \A i \in 1..Len(q) : Append(q, e)[i] = q[i]
      /\ Append(q, e)[Len(q) + 1] = e
  BY AppendProperties
<1>2. Append(q, e) # <<>>
  BY <1>1
<1>3. ASSUME NEW t, In(t, Append(q, e)) PROVE In(t, q) \/ t = e
  BY <1>1, <1>3 DEF In
<1>4. ASSUME NEW t, In(t, q) \/ t = e PROVE In(t, Append(q, e))
  BY <1>1, <1>4 DEF In
<1>5. QED
  BY <1>1, <1>2, <1>3, <1>4

-----------------------------------------------------------------------------
(* Tables and rows *)

(* And at most three. *)
LEMMA ShortTables ==
  \A o \in Objects : \E a, b, c : Registry[o] \in {<<a>>, <<a, b>>, <<a, b, c>>}
BY DEF Registry, Objects

(* Every normalizer makes at least one table. *)
LEMMA RegistryIsTables ==
  \A o \in Objects : Registry[o] \in Seq(AllTables) /\ Registry[o] # <<>>
<1> SUFFICES ASSUME NEW o \in Objects
             PROVE  Registry[o] \in Seq(AllTables) /\ Registry[o] # <<>>
  OBVIOUS
<1>1. PICK a, b, c : Registry[o] \in {<<a>>, <<a, b>>, <<a, b, c>>}
  BY ShortTables
<1>2. Registry[o] \in Seq({a, b, c}) /\ Registry[o] # <<>>
  <2>1. /\ <<a>> \in Seq({a, b, c}) /\ <<a, b>> \in Seq({a, b, c})
        /\ <<a, b, c>> \in Seq({a, b, c})
        /\ <<a>> # <<>> /\ <<a, b>> # <<>> /\ <<a, b, c>> # <<>>
    OBVIOUS
  <2>2. Registry[o] = <<a>> \/ Registry[o] = <<a, b>> \/ Registry[o] = <<a, b, c>>
    BY <1>1, Zenon
  <2>3. QED
    BY <2>1, <2>2, Zenon
<1>3. \A i \in 1..Len(Registry[o]) : Registry[o][i] \in AllTables
  BY DEF AllTables, TablesOf, Objects
<1>4. QED
  BY <1>2, <1>3

LEMMA InRegistry == \A o \in Objects : \A t : t \in TablesOf(o) <=> In(t, Registry[o])
BY DEF TablesOf, In

LEMMA TablesExist == \A o \in Objects : TablesOf(o) \subseteq AllTables
BY DEF AllTables, Objects

LEMMA FilesAreObjects == \A s \in Scans : FilesOf(s) \subseteq Objects
BY PublicationAssumption DEF FilesOf, Objects

LEMMA RowsOfScan ==
  ASSUME NEW s \in Scans, NEW o \in FilesOf(s), NEW t
  PROVE  Rows(s, o, t) \in OfScan(s) /\ Rows(s, o, t) \in SUBSET Row
<1>1. o \in Objects /\ Csv[s][o] \subseteq SUBSET Features
  BY PublicationAssumption DEF FilesOf, Objects
<1>2. ASSUME NEW r \in Rows(s, o, t) PROVE r \in Row /\ r.scan = s
  BY <1>1, <1>2 DEF Rows, Row, Objects
<1>3. QED
  BY <1>2 DEF OfScan

LEMMA KeyIsKey ==
  ASSUME NEW s \in Scans, NEW t \in AllTables
  PROVE  Key(s, t) \in Orgs \X AllTables /\ Key(s, t)[1] = OrgOf[s]
BY PublicationAssumption DEF Key

(* The rows of a scan are rows of its organization. *)
LEMMA ScanToOrg ==
  ASSUME NEW s \in Scans, NEW R \in OfScan(s)
  PROVE  R \in OfOrg(OrgOf[s]) /\ R \in {Torn} \cup SUBSET Row
BY DEF OfScan, OfOrg

LEMMA IdleIsRequest ==
  Idle \in Request /\ Placed(Idle) /\ (\A d : Rendered(Idle, d)) /\ (\A b : Covered(Idle, b))
<1>1. <<>> \in Seq(AllTables)
  OBVIOUS
<1>2. Idle \in Request
  BY <1>1 DEF Idle, Request, Places, Modes
<1>3. Placed(Idle)
  BY DEF Idle, Placed, FilesRead, Publishing, Finishing
<1>4. (\A d : Rendered(Idle, d)) /\ (\A b : Covered(Idle, b))
  BY InEmpty DEF Idle, Rendered, Covered
<1>5. QED
  BY <1>2, <1>3, <1>4

LEMMA ReachedIsStatus == Reached \subseteq Status
<1>1. ASSUME NEW i \in 1..13 PROVE MainChain[i] \in ChainStatus
  BY DEF ChainStatus
<1>2. /\ MainChain[8] = "EXTRACTED" /\ MainChain[9] = "NORMALIZING"
      /\ MainChain[10] = "NORMALIZED" /\ MainChain[11] = "UPLOADING_TO_MINIO"
      /\ MainChain[12] = "UPLOADED_TO_MINIO" /\ MainChain[13] = "COMPLETED"
  BY DEF MainChain
<1>3. QED
  BY <1>1, <1>2 DEF Reached, Status, SideStatus

-----------------------------------------------------------------------------
(* What a step of one request leaves of the others *)

(* A file with rows of its scan still has such. *)
Kept == \A s \in Scans, t \in AllTables : disk[s][t] \in OfScan(s) => disk'[s][t] \in OfScan(s)

(* Nothing is deleted from the store. *)
Grown == \A k \in Orgs \X AllTables : bucket[k] # NoObject => bucket'[k] # NoObject

LEMMA RenderedKept ==
  ASSUME Kept, NEW x \in Request, Placed(x), Rendered(x, disk)
  PROVE  Rendered(x, disk')
<1>1. CASE x.place = "idle"
  BY <1>1, IdleIsRequest DEF Placed
<1>2. CASE x.place # "idle"
  BY <1>2 DEF Placed, Rendered, Kept
<1>3. QED
  BY <1>1, <1>2

LEMMA CoveredGrown ==
  ASSUME Grown, NEW x \in Request, Placed(x), Covered(x, bucket)
  PROVE  Covered(x, bucket')
<1>1. CASE x.place = "idle"
  BY <1>1, IdleIsRequest DEF Placed
<1>2. CASE x.place # "idle"
  <2>1. x.scan \in Scans
    BY <1>2 DEF Placed
  <2>2. ASSUME NEW o \in FilesOf(x.scan), NEW t \in TablesOf(o)
        PROVE  Key(x.scan, t) \in Orgs \X AllTables
    BY <2>1, <2>2, FilesAreObjects, TablesExist, KeyIsKey
  <2>3. QED
    BY <2>2 DEF Covered, Grown
<1>3. QED
  BY <1>1, <1>2

LEMMA Moves ==
  ASSUME PInv, NEW w \in Workers, NEW y \in Request,
         worker' = [worker EXCEPT ![w] = y],
         Placed(y), Rendered(y, disk'), Covered(y, bucket'), Kept, Grown
  PROVE  worker' \in [Workers -> Request] /\ Running'
<1>1. worker \in [Workers -> Request] /\ Running
  BY DEF PInv, Shape
<1>2. ASSUME NEW v \in Workers
      PROVE  Placed(worker'[v]) /\ Rendered(worker'[v], disk') /\ Covered(worker'[v], bucket')
  <2>1. CASE v = w
    BY <1>1, <2>1
  <2>2. CASE v # w
    <3>1. worker'[v] = worker[v] /\ worker[v] \in Request
      BY <1>1, <2>2
    <3>2. Placed(worker[v]) /\ Rendered(worker[v], disk) /\ Covered(worker[v], bucket)
      BY <1>1 DEF Running
    <3>3. Rendered(worker[v], disk') /\ Covered(worker[v], bucket')
      BY <3>1, <3>2, RenderedKept, CoveredGrown
    <3>4. QED
      BY <3>1, <3>2, <3>3
  <2>3. QED
    BY <2>1, <2>2
<1>3. QED
  BY <1>1, <1>2 DEF Running

LEMMA StillPublished ==
  ASSUME CompletedIsPublished, Grown,
         \A s \in Scans : status'[s] = "COMPLETED" =>
           status[s] = "COMPLETED" \/ \A t \in Tables(s) : bucket'[Key(s, t)] # NoObject
  PROVE  CompletedIsPublished'
<1>1. ASSUME NEW s \in Scans, NEW t \in Tables(s) PROVE Key(s, t) \in Orgs \X AllTables
  <2>1. PICK o \in FilesOf(s) : t \in TablesOf(o)
    BY DEF Tables, FilesOf
  <2>2. QED
    BY <2>1, FilesAreObjects, TablesExist, KeyIsKey
<1>2. QED
  BY <1>1 DEF CompletedIsPublished, Stored, Grown

(* A step that writes neither files nor objects. *)
LEMMA NothingStored == UNCHANGED <<disk, bucket>> => Kept /\ Grown
BY DEF Kept, Grown

-----------------------------------------------------------------------------
(* The steps *)

LEMMA InitHolds == Init => PInv
<1> SUFFICES ASSUME Init PROVE PInv
  OBVIOUS
<1>1. Shape
  <2>1. status \in [Scans -> Reached]
    BY DEF Init, Reached
  <2>2. disk \in [Scans -> [AllTables -> {NoTable, Torn} \cup SUBSET Row]]
    BY DEF Init
  <2>3. bucket \in [Orgs \X AllTables -> Object]
    BY DEF Init, Object
  <2>4. worker \in [Workers -> Request]
    BY IdleIsRequest DEF Init
  <2>5. left \in 0..MaxRequests /\ shared \subseteq Scans
    BY PublicationAssumption DEF Init
  <2>6. QED
    BY <2>1, <2>2, <2>3, <2>4, <2>5 DEF Shape
<1>2. Owned(disk) /\ Filed(bucket)
  BY DEF Init, Owned, Filed
<1>3. Running
  BY IdleIsRequest DEF Init, Running
<1>4. CompletedIsPublished
  BY DEF Init, CompletedIsPublished
<1>5. QED
  BY <1>1, <1>2, <1>3, <1>4 DEF PInv

LEMMA ArriveHolds ==
  ASSUME PInv, NEW w \in Workers, NEW s \in Scans, NEW x \in Request, Arrive(w, s, x),
         Placed(x), x.paths = <<>>, Covered(x, bucket)
  PROVE  PInv'
<1>1. Kept /\ Grown
  BY NothingStored DEF Arrive
<1>2. Rendered(x, disk')
  BY InEmpty DEF Rendered
<1>3. worker' \in [Workers -> Request] /\ Running'
  BY <1>1, <1>2, Moves DEF Arrive
<1>4. left' \in 0..MaxRequests
  BY PublicationAssumption DEF Arrive, PInv, Shape
<1>5. shared' \subseteq Scans
  <2>1. ASSUME NEW v \in Workers, Meets(worker[v], s, x.mode) PROVE worker[v].scan \in Scans
    <3>1. Placed(worker[v]) /\ worker[v] # Idle
      BY <2>1 DEF PInv, Running, Meets
    <3>2. QED
      BY <3>1 DEF Placed
  <2>2. QED
    BY <2>1 DEF Arrive, PInv, Shape
<1>6. CompletedIsPublished'
  BY <1>1, StillPublished DEF PInv, Arrive
<1>7. QED
  BY <1>3, <1>4, <1>5, <1>6 DEF PInv, Shape, Arrive, Owned, Filed

LEMMA NormalizeScanHolds ==
  ASSUME PInv, NEW w \in Workers, NEW s \in Scans, NormalizeScan(w, s)
  PROVE  PInv'
<1>1. PICK mode \in {"upload", "save", "stats"} :
        Arrive(w, s, [Idle EXCEPT !.place = "mark_normalizing", !.scan = s,
                                  !.mode = mode, !.seen = status[s],
                                  !.files = FilesOf(s)])
  BY DEF NormalizeScan
<1> DEFINE x == [Idle EXCEPT !.place = "mark_normalizing", !.scan = s,
                             !.mode = mode, !.seen = status[s], !.files = FilesOf(s)]
<1>2. /\ x.place = "mark_normalizing" /\ x.scan = s /\ x.mode = mode
      /\ x.seen = status[s] /\ x.files = FilesOf(s)
      /\ x.tables = <<>> /\ x.paths = <<>>
  BY DEF Idle
<1>3. status[s] \in Status
  BY ReachedIsStatus DEF PInv, Shape
<1>4. x \in Request
  BY <1>3, IdleIsRequest, FilesAreObjects DEF Request, Places, Modes
<1>5. Placed(x)
  BY <1>2, <1>3 DEF Placed, FilesRead, Publishing, Finishing
<1>6. Covered(x, bucket)
  BY <1>2 DEF Covered
<1>7. QED
  BY <1>1, <1>2, <1>4, <1>5, <1>6, ArriveHolds

LEMMA NormalizeSingleObjectHolds ==
  ASSUME PInv, NEW w \in Workers, NEW s \in Scans, NormalizeSingleObject(w, s)
  PROVE  PInv'
<1>1. PICK o \in DOMAIN Csv[s] :
        Arrive(w, s, [Idle EXCEPT !.place = "open", !.scan = s, !.mode = "one",
                                  !.seen = status[s], !.object = o,
                                  !.tables = Registry[o]])
  BY DEF NormalizeSingleObject
<1> DEFINE x == [Idle EXCEPT !.place = "open", !.scan = s, !.mode = "one",
                             !.seen = status[s], !.object = o, !.tables = Registry[o]]
<1>2. /\ x.place = "open" /\ x.scan = s /\ x.mode = "one" /\ x.seen = status[s]
      /\ x.files = {} /\ x.object = o /\ x.tables = Registry[o] /\ x.paths = <<>>
  BY DEF Idle
<1>3. o \in FilesOf(s) /\ o \in Objects
  BY FilesAreObjects DEF FilesOf
<1>4. Registry[o] \in Seq(AllTables) /\ Registry[o] # <<>>
  BY <1>3, RegistryIsTables
<1>5. status[s] \in Status
  BY ReachedIsStatus DEF PInv, Shape
<1>6. x \in Request
  BY <1>3, <1>4, <1>5, IdleIsRequest DEF Request, Places, Modes
<1>7. Placed(x)
  BY <1>2, <1>3, <1>4, <1>5 DEF Placed, FilesRead, Publishing, Finishing
<1>8. Covered(x, bucket)
  BY <1>2 DEF Covered
<1>9. QED
  BY <1>1, <1>2, <1>6, <1>7, <1>8, ArriveHolds

(* What is known of the request that takes a step. *)
LEMMA AtWorker ==
  ASSUME PInv, NEW w \in Workers
  PROVE  /\ worker[w] \in Request /\ Placed(worker[w])
         /\ Rendered(worker[w], disk) /\ Covered(worker[w], bucket)
         /\ worker[w].place # "idle" =>
              /\ worker[w].scan \in Scans /\ worker[w].files \subseteq FilesOf(worker[w].scan)
              /\ worker[w].seen \in Status /\ worker[w].mode # "none"
BY DEF PInv, Shape, Running, Placed

(* A step of a request that stores nothing. *)
LEMMA RequestStep ==
  ASSUME PInv, NEW w \in Workers, NEW y \in Request,
         worker' = [worker EXCEPT ![w] = y], UNCHANGED <<disk, bucket, left, shared>>,
         Placed(y), Rendered(y, disk), Covered(y, bucket),
         status' \in [Scans -> Reached],
         \A s \in Scans : status'[s] = "COMPLETED" =>
           status[s] = "COMPLETED" \/ \A t \in Tables(s) : bucket'[Key(s, t)] # NoObject
  PROVE  PInv'
<1>1. Kept /\ Grown
  BY NothingStored
<1>2. Rendered(y, disk') /\ Covered(y, bucket')
  OBVIOUS
<1>3. worker' \in [Workers -> Request] /\ Running'
  BY <1>1, <1>2, Moves
<1>4. CompletedIsPublished'
  BY <1>1, StillPublished DEF PInv
<1>5. QED
  BY <1>3, <1>4 DEF PInv, Shape, Owned, Filed

LEMMA SetStatusHolds ==
  ASSUME PInv, NEW w \in Workers, SetStatus(w)
  PROVE  PInv'
<1> DEFINE x == worker[w]
           target == Mark[x.place]
           accepted == IsValidTransition(x.seen, target)
           next == CASE x.place = "mark_normalizing" -> "next_file"
                     [] x.place = "mark_normalized" ->
                          IF x.mode = "upload" THEN "mark_uploading" ELSE "idle"
                     [] x.place = "mark_uploading" -> "beat_uploading"
                     [] x.place = "mark_uploaded" -> "beat_uploaded"
                     [] x.place = "mark_completed" -> "idle"
           seen == IF accepted THEN target ELSE x.seen
           moved == [x EXCEPT !.place = next, !.seen = seen]
           y == IF next = "idle" THEN Idle ELSE moved
<1>1. /\ x \in Request /\ Placed(x) /\ Rendered(x, disk) /\ Covered(x, bucket)
      /\ x.place # "idle" => /\ x.scan \in Scans /\ x.files \subseteq FilesOf(x.scan)
                             /\ x.seen \in Status /\ x.mode # "none"
  BY AtWorker
<1>2. x.place \in {"mark_normalizing", "mark_normalized", "mark_uploading", "mark_uploaded",
                   "mark_completed"}
  BY DEF SetStatus, Mark
<1>3. target \in Reached /\ target \in Status /\ (target = "COMPLETED" => x.place = "mark_completed")
  BY <1>2, ReachedIsStatus DEF Mark, Reached
<1>4. worker' = [worker EXCEPT ![w] = y] /\ UNCHANGED <<disk, bucket, left, shared>>
  BY DEF SetStatus
<1>5. y \in Request /\ Placed(y) /\ Rendered(y, disk) /\ Covered(y, bucket)
  <2>1. CASE next = "idle"
    BY <2>1, IdleIsRequest
  <2>2. CASE next # "idle"
    <3>1. /\ x.place = "mark_normalizing" => next = "next_file"
          /\ x.place = "mark_normalized" => next = "mark_uploading" /\ x.mode = "upload"
          /\ x.place = "mark_uploading" => next = "beat_uploading"
          /\ x.place = "mark_uploaded" => next = "beat_uploaded"
          /\ x.place # "mark_completed"
      BY <1>2, <2>2
    <3>2. /\ moved.place = next /\ moved.seen = seen /\ moved.scan = x.scan
          /\ moved.mode = x.mode /\ moved.files = x.files /\ moved.tables = x.tables
          /\ moved.paths = x.paths
      BY <1>1 DEF Request
    <3>3. seen \in Status
      BY <1>1, <1>2, <1>3
    <3>4. moved \in Request
      <4>1. next \in Places
        BY <1>2, <3>1 DEF Places, FilesRead, Publishing, Finishing
      <4>2. QED
        BY <1>1, <3>3, <4>1 DEF Request
    <3>5. Placed(moved)
      BY <1>1, <1>2, <3>1, <3>2, <3>3 DEF Placed, FilesRead, Publishing, Finishing
    <3>6. Rendered(moved, disk) /\ Covered(moved, bucket)
      BY <1>1, <3>2 DEF Rendered, Covered
    <3>7. QED
      BY <2>2, <3>4, <3>5, <3>6
  <2>3. QED
    BY <2>1, <2>2
<1>6. status' \in [Scans -> Reached]
  BY <1>1, <1>2, <1>3 DEF SetStatus, PInv, Shape
<1>7. ASSUME NEW s \in Scans, status'[s] = "COMPLETED"
      PROVE  status[s] = "COMPLETED" \/ \A t \in Tables(s) : bucket'[Key(s, t)] # NoObject
  <2>1. CASE status'[s] = status[s]
    BY <1>7, <2>1
  <2>2. CASE status'[s] # status[s]
    <3>1. s = x.scan /\ x.place = "mark_completed"
      BY <1>2, <1>3, <1>7, <2>2 DEF SetStatus, PInv, Shape
    <3>2. x.mode = "upload" /\ x.files = {} /\ x.tables = <<>> /\ x.paths = <<>>
      BY <1>1, <3>1 DEF Placed, FilesRead, Publishing, Finishing
    <3>3. \A o \in FilesOf(s) : \A t \in TablesOf(o) : bucket[Key(s, t)] # NoObject
      BY <1>1, <3>1, <3>2, InEmpty DEF Covered
    <3>4. QED
      BY <1>4, <3>3 DEF Tables, FilesOf
  <2>3. QED
    BY <2>1, <2>2
<1>8. QED
  BY <1>4, <1>5, <1>6, <1>7, RequestStep

LEMMA HeartbeatHolds ==
  ASSUME PInv, NEW w \in Workers, Heartbeat(w)
  PROVE  PInv'
<1> DEFINE x == worker[w]
           place == IF x.place = "beat_uploaded" THEN "mark_completed" ELSE Uploading(x.paths)
           y == [x EXCEPT !.seen = status[x.scan], !.place = place]
<1>1. x \in Request /\ Placed(x) /\ Rendered(x, disk) /\ Covered(x, bucket)
  BY AtWorker
<1>2. x.place \in {"beat_uploading", "beat_uploaded"}
  BY DEF Heartbeat, Beats
<1>3. worker' = [worker EXCEPT ![w] = y] /\ UNCHANGED <<status, disk, bucket, left, shared>>
  BY DEF Heartbeat, PInv, Shape
<1>4. /\ y.seen = status[x.scan] /\ y.place = place /\ y.scan = x.scan /\ y.mode = x.mode
      /\ y.files = x.files /\ y.tables = x.tables /\ y.paths = x.paths
  BY <1>1 DEF Request
<1>5. x.scan \in Scans /\ status[x.scan] \in Status
  BY <1>2, AtWorker, ReachedIsStatus DEF PInv, Shape
<1>6. /\ x.place = "beat_uploaded" => place = "mark_completed" /\ x.paths = <<>>
      /\ place \in {"mark_completed", "mark_uploaded"} => x.paths = <<>>
      /\ place = "upload" => x.paths # <<>>
      /\ place \in {"mark_completed", "mark_uploaded", "upload"}
  BY <1>1, <1>2 DEF Uploading, Placed, Finishing
<1>7. y \in Request
  <2>1. place \in Places
    BY <1>6 DEF Places, FilesRead, Publishing, Finishing
  <2>2. QED
    BY <1>1, <1>5, <2>1 DEF Request
<1>8. Placed(y)
  BY <1>1, <1>2, <1>4, <1>5, <1>6 DEF Placed, FilesRead, Publishing, Finishing
<1>9. Rendered(y, disk) /\ Covered(y, bucket)
  BY <1>1, <1>4 DEF Rendered, Covered
<1>10. status' \in [Scans -> Reached]
  BY <1>3 DEF PInv, Shape
<1>11. QED
  BY <1>3, <1>7, <1>8, <1>9, <1>10, RequestStep

(* A request that ends. *)
LEMMA IdleHolds ==
  ASSUME PInv, NEW w \in Workers, worker' = [worker EXCEPT ![w] = Idle],
         UNCHANGED <<disk, bucket, left, shared>>, status' \in [Scans -> Reached],
         \A s \in Scans : status'[s] = "COMPLETED" => status[s] = "COMPLETED"
  PROVE  PInv'
BY IdleIsRequest, RequestStep

LEMMA FailHolds ==
  ASSUME PInv, NEW w \in Workers, Fail(w)
  PROVE  PInv'
<1>1. status \in [Scans -> Reached] /\ "FAILED" \in Reached
  BY DEF PInv, Shape, Reached
<1>2. status' \in [Scans -> Reached]
  BY <1>1 DEF Fail
<1>3. \A s \in Scans : status'[s] = "COMPLETED" => status[s] = "COMPLETED"
  BY <1>1 DEF Fail
<1>4. QED
  BY <1>2, <1>3, IdleHolds DEF Fail

LEMMA CrashHolds ==
  ASSUME PInv, NEW w \in Workers, Crash(w)
  PROVE  PInv'
BY IdleHolds DEF Crash, PInv, Shape

(* A status that is written by a request of another kind. *)
LEMMA StatusHolds ==
  ASSUME PInv, NEW s \in Scans, NEW st \in Reached \ {"COMPLETED"},
         status' = [status EXCEPT ![s] = st], left' \in 0..MaxRequests,
         UNCHANGED <<disk, bucket, worker, shared>>
  PROVE  PInv'
<1>1. status' \in [Scans -> Reached]
  BY DEF PInv, Shape
<1>2. \A v \in Scans : status'[v] = "COMPLETED" => status[v] = "COMPLETED"
  BY DEF PInv, Shape
<1>3. CompletedIsPublished'
  BY <1>2, NothingStored, StillPublished DEF PInv
<1>4. QED
  BY <1>1, <1>3 DEF PInv, Shape, Owned, Filed, Running, Rendered, Covered

LEMMA ScanStepHolds ==
  ASSUME PInv, NEW s \in Scans, DetectCrashed(s) \/ CancelScan(s) \/ ResumeScan(s)
  PROVE  PInv'
<1>1. {"FAILED", "CANCELLED", "EXTRACTED"} \subseteq Reached \ {"COMPLETED"}
  BY DEF Reached
<1>2. left \in 0..MaxRequests
  BY DEF PInv, Shape
<1>3. CASE DetectCrashed(s)
  BY <1>1, <1>2, <1>3, StatusHolds DEF DetectCrashed
<1>4. CASE CancelScan(s)
  <2>1. left' \in 0..MaxRequests
    BY <1>2, <1>4, PublicationAssumption DEF CancelScan
  <2>2. QED
    BY <1>1, <1>4, <2>1, StatusHolds DEF CancelScan
<1>5. CASE ResumeScan(s)
  BY <1>1, <1>2, <1>5, StatusHolds DEF ResumeScan
<1>6. QED
  BY <1>3, <1>4, <1>5

LEMMA NextFileHolds ==
  ASSUME PInv, NEW w \in Workers, NextFile(w)
  PROVE  PInv'
<1> DEFINE x == worker[w]
<1>1. /\ x \in Request /\ Placed(x) /\ Rendered(x, disk) /\ Covered(x, bucket)
      /\ x.place = "next_file" /\ x.scan \in Scans /\ x.files \subseteq FilesOf(x.scan)
  BY AtWorker DEF NextFile, At
<1>2. status' \in [Scans -> Reached] /\ UNCHANGED <<status, disk, bucket, left, shared>>
  BY DEF NextFile, PInv, Shape
<1>3. CASE x.files = {} /\ worker' = [worker EXCEPT ![w].place = "mark_normalized"]
  <2> DEFINE y == [x EXCEPT !.place = "mark_normalized"]
  <2>1. worker' = [worker EXCEPT ![w] = y]
    BY <1>3
  <2>2. /\ y.place = "mark_normalized" /\ y.scan = x.scan /\ y.mode = x.mode /\ y.seen = x.seen
        /\ y.files = x.files /\ y.tables = x.tables /\ y.paths = x.paths
    BY <1>1 DEF Request
  <2>3. y \in Request
    BY <1>1 DEF Request, Places, FilesRead
  <2>4. Placed(y)
    BY <1>1, <1>3, <2>2 DEF Placed, FilesRead, Publishing, Finishing
  <2>5. Rendered(y, disk) /\ Covered(y, bucket)
    BY <1>1, <2>2 DEF Rendered, Covered
  <2>6. QED
    BY <1>2, <2>1, <2>3, <2>4, <2>5, RequestStep
<1>4. ASSUME NEW o \in x.files,
             worker' = [worker EXCEPT ![w] =
               [x EXCEPT !.seen = status[x.scan], !.files = @ \ {o}, !.object = o,
                         !.tables = Registry[o],
                         !.place = IF x.mode = "stats" THEN "next_file" ELSE "open"]]
      PROVE  PInv'
  <2> DEFINE place == IF x.mode = "stats" THEN "next_file" ELSE "open"
             y == [x EXCEPT !.seen = status[x.scan], !.files = @ \ {o}, !.object = o,
                            !.tables = Registry[o], !.place = place]
  <2>1. worker' = [worker EXCEPT ![w] = y]
    BY <1>4
  <2>2. o \in FilesOf(x.scan) /\ o \in Objects /\ status[x.scan] \in Status
    BY <1>1, FilesAreObjects, ReachedIsStatus DEF PInv, Shape
  <2>3. Registry[o] \in Seq(AllTables) /\ Registry[o] # <<>>
    BY <2>2, RegistryIsTables
  <2>4. /\ y.place = place /\ y.scan = x.scan /\ y.mode = x.mode /\ y.seen = status[x.scan]
        /\ y.files = x.files \ {o} /\ y.object = o /\ y.tables = Registry[o]
        /\ y.paths = x.paths
    BY <1>1 DEF Request
  <2>5. y \in Request
    <3>1. place \in Places
      BY DEF Places
    <3>2. QED
      BY <1>1, <2>2, <2>3, <3>1 DEF Request
  <2>6. Placed(y)
    BY <1>1, <2>2, <2>3, <2>4 DEF Placed, FilesRead, Publishing, Finishing
  <2>7. Rendered(y, disk)
    BY <1>1, <2>4 DEF Rendered
  <2>8. Covered(y, bucket)
    <3> SUFFICES ASSUME y.mode = "upload", NEW q \in FilesOf(x.scan), NEW t \in TablesOf(q)
                 PROVE  \/ q \in y.files \/ In(t, y.tables) \/ In(t, y.paths)
                        \/ bucket[Key(x.scan, t)] # NoObject
      BY <2>4 DEF Covered
    <3>1. x.tables = <<>>
      BY <1>1, <2>4 DEF Placed
    <3>2. \/ q \in x.files \/ In(t, x.paths) \/ bucket[Key(x.scan, t)] # NoObject
      BY <1>1, <2>4, <3>1, InEmpty DEF Covered
    <3>3. CASE q = o
      BY <2>2, <2>4, <3>3, InRegistry
    <3>4. CASE q # o
      BY <2>4, <3>2, <3>4
    <3>5. QED
      BY <3>3, <3>4
  <2>9. QED
    BY <1>2, <2>1, <2>5, <2>6, <2>7, <2>8, RequestStep
<1>5. QED
  BY <1>3, <1>4 DEF NextFile

(* A step that writes a file of its scan. *)
LEMMA DiskStep ==
  ASSUME PInv, NEW w \in Workers, NEW y \in Request,
         NEW s \in Scans, NEW t \in AllTables, NEW v \in OfScan(s),
         disk' = [disk EXCEPT ![s][t] = v], UNCHANGED <<status, bucket, left, shared>>,
         worker' = [worker EXCEPT ![w] = y],
         Placed(y), Rendered(y, disk'), Covered(y, bucket)
  PROVE  PInv'
<1>1. disk \in [Scans -> [AllTables -> {NoTable, Torn} \cup SUBSET Row]]
  BY DEF PInv, Shape
<1>2. /\ disk'[s][t] = v
      /\ \A s2 \in Scans, t2 \in AllTables : <<s2, t2>> # <<s, t>> => disk'[s2][t2] = disk[s2][t2]
  BY <1>1
<1>3. disk' \in [Scans -> [AllTables -> {NoTable, Torn} \cup SUBSET Row]]
  <2>1. v \in {NoTable, Torn} \cup SUBSET Row
    BY ScanToOrg
  <2>2. [disk[s] EXCEPT ![t] = v] \in [AllTables -> {NoTable, Torn} \cup SUBSET Row]
    BY <1>1, <2>1
  <2>3. QED
    BY <1>1, <2>2
<1>4. Kept /\ Owned(disk')
  BY <1>2 DEF Kept, Owned, PInv
<1>5. Grown /\ Covered(y, bucket')
  BY DEF Grown
<1>6. worker' \in [Workers -> Request] /\ Running'
  BY <1>4, <1>5, Moves
<1>7. CompletedIsPublished'
  BY <1>5, StillPublished DEF PInv
<1>8. QED
  BY <1>3, <1>4, <1>6, <1>7 DEF PInv, Shape, Filed

LEMMA OpenTableHolds ==
  ASSUME PInv, NEW w \in Workers, OpenTable(w)
  PROVE  PInv'
<1> DEFINE x == worker[w]
           y == [x EXCEPT !.place = "write"]
           t == Head(x.tables)
<1>1. /\ x \in Request /\ Placed(x) /\ Rendered(x, disk) /\ Covered(x, bucket)
      /\ x.place = "open" /\ x.scan \in Scans
  BY AtWorker DEF OpenTable, At
<1>2. t \in AllTables
  BY <1>1, InHeadTail DEF Placed, Request
<1>3. Torn \in OfScan(x.scan)
  BY DEF OfScan
<1>4. disk' = [disk EXCEPT ![x.scan][t] = Torn] /\ UNCHANGED <<status, bucket, left, shared>>
  BY DEF OpenTable
<1>5. worker' = [worker EXCEPT ![w] = y]
  BY DEF OpenTable
<1>6. /\ y.place = "write" /\ y.scan = x.scan /\ y.mode = x.mode /\ y.seen = x.seen
      /\ y.files = x.files /\ y.object = x.object /\ y.tables = x.tables /\ y.paths = x.paths
  BY <1>1 DEF Request
<1>7. y \in Request
  BY <1>1 DEF Request, Places
<1>8. Placed(y)
  BY <1>1, <1>6 DEF Placed, FilesRead, Publishing, Finishing
<1>9. Rendered(y, disk')
  <2>1. disk \in [Scans -> [AllTables -> {NoTable, Torn} \cup SUBSET Row]]
    BY DEF PInv, Shape
  <2>2. \A u \in AllTables : disk'[x.scan][u] = disk[x.scan][u] \/ disk'[x.scan][u] = Torn
    BY <1>1, <1>2, <1>4, <2>1
  <2>3. QED
    BY <1>1, <1>3, <1>6, <2>2 DEF Rendered
<1>10. Covered(y, bucket)
  BY <1>1, <1>6 DEF Covered
<1>11. QED
  BY <1>1, <1>2, <1>3, <1>4, <1>5, <1>7, <1>8, <1>9, <1>10, DiskStep

LEMMA WriteTableHolds ==
  ASSUME PInv, NEW w \in Workers, WriteTable(w)
  PROVE  PInv'
<1> DEFINE x == worker[w]
           t == Head(x.tables)
           known == \E i \in 1..Len(x.paths) : x.paths[i] = t
           paths == IF known THEN x.paths ELSE Append(x.paths, t)
           z == [x EXCEPT !.tables = Tail(@), !.paths = paths]
           y == Saved(x)
           rows == Rows(x.scan, x.object, t)
<1>1. /\ x \in Request /\ Placed(x) /\ Rendered(x, disk) /\ Covered(x, bucket)
      /\ x.place = "write" /\ x.scan \in Scans
  BY AtWorker DEF WriteTable, At
<1>2. x.object \in FilesOf(x.scan) /\ x.tables # <<>> /\ x.tables \in Seq(AllTables)
      /\ x.paths \in Seq(AllTables)
  BY <1>1 DEF Placed, Request
<1>3. /\ t \in AllTables /\ Tail(x.tables) \in Seq(AllTables)
      /\ \A u : In(u, x.tables) <=> u = t \/ In(u, Tail(x.tables))
  BY <1>2, InHeadTail
<1>4. paths \in Seq(AllTables) /\ \A u : In(u, paths) <=> In(u, x.paths) \/ u = t
  <2>1. known <=> In(t, x.paths)
    BY DEF In
  <2>2. CASE known
    BY <1>2, <2>1, <2>2
  <2>3. CASE ~known
    BY <1>2, <1>3, <2>3, InAppend
  <2>4. QED
    BY <2>2, <2>3
<1>5. rows \in OfScan(x.scan)
  BY <1>1, <1>2, RowsOfScan
<1>6. disk' = [disk EXCEPT ![x.scan][t] = rows] /\ UNCHANGED <<status, bucket, left, shared>>
  BY DEF WriteTable
<1>7. worker' = [worker EXCEPT ![w] = y]
  BY DEF WriteTable
<1>8. \/ y = Idle
      \/ y = [z EXCEPT !.place = "open"] /\ z.tables # <<>>
      \/ y = [z EXCEPT !.place = "next_file"] /\ z.tables = <<>> /\ x.mode # "one"
  BY DEF Saved
<1>9. /\ z \in Request /\ z.scan = x.scan /\ z.mode = x.mode /\ z.seen = x.seen
      /\ z.files = x.files /\ z.object = x.object /\ z.tables = Tail(x.tables)
      /\ z.paths = paths
  BY <1>1, <1>3, <1>4 DEF Request
<1>10. Rendered(z, disk')
  <2>1. disk \in [Scans -> [AllTables -> {NoTable, Torn} \cup SUBSET Row]]
    BY DEF PInv, Shape
  <2>2. \A u \in AllTables : disk'[x.scan][u] = IF u = t THEN rows ELSE disk[x.scan][u]
    BY <1>1, <1>3, <1>6, <2>1
  <2>3. QED
    BY <1>1, <1>4, <1>5, <1>9, <2>2 DEF Rendered
<1>11. Covered(z, bucket)
  BY <1>1, <1>3, <1>4, <1>9 DEF Covered
<1>12. y \in Request /\ Placed(y) /\ Rendered(y, disk') /\ Covered(y, bucket)
  <2>1. CASE y = Idle
    BY <2>1, IdleIsRequest
  <2>2. ASSUME NEW place \in {"open", "next_file"}, y = [z EXCEPT !.place = place],
               place = "open" => z.tables # <<>>,
               place = "next_file" => z.tables = <<>> /\ x.mode # "one"
        PROVE  y \in Request /\ Placed(y) /\ Rendered(y, disk') /\ Covered(y, bucket)
    <3>1. /\ y.place = place /\ y.scan = z.scan /\ y.mode = z.mode /\ y.seen = z.seen
          /\ y.files = z.files /\ y.object = z.object /\ y.tables = z.tables
          /\ y.paths = z.paths
      BY <1>9, <2>2 DEF Request
    <3>2. y \in Request
      BY <1>9, <2>2 DEF Request, Places
    <3>3. Placed(y)
      BY <1>1, <1>2, <1>9, <2>2, <3>1 DEF Placed, FilesRead, Publishing, Finishing
    <3>4. Rendered(y, disk') /\ Covered(y, bucket)
      BY <1>10, <1>11, <3>1 DEF Rendered, Covered
    <3>5. QED
      BY <3>2, <3>3, <3>4
  <2>3. QED
    BY <1>8, <2>1, <2>2
<1>13. QED
  BY <1>1, <1>3, <1>5, <1>6, <1>7, <1>12, DiskStep

LEMMA UploadTableHolds ==
  ASSUME PInv, NEW w \in Workers, UploadTable(w)
  PROVE  PInv'
<1> DEFINE x == worker[w]
           t == Head(x.paths)
           place == Uploading(Tail(x.paths))
           y == [x EXCEPT !.paths = Tail(x.paths), !.place = place]
           object == [by |-> x.scan, rows |-> disk[x.scan][t]]
<1>1. /\ x \in Request /\ Placed(x) /\ Rendered(x, disk) /\ Covered(x, bucket)
      /\ x.place = "upload" /\ x.scan \in Scans
  BY AtWorker DEF UploadTable, At
<1>2. x.paths # <<>> /\ x.paths \in Seq(AllTables) /\ x.mode = "upload" /\ x.files = {}
      /\ x.tables = <<>>
  BY <1>1 DEF Placed, Request, FilesRead, Publishing
<1>3. /\ t \in AllTables /\ Tail(x.paths) \in Seq(AllTables) /\ In(t, x.paths)
      /\ \A u : In(u, x.paths) <=> u = t \/ In(u, Tail(x.paths))
  BY <1>2, InHeadTail
<1>4. Key(x.scan, t) \in Orgs \X AllTables /\ Key(x.scan, t)[1] = OrgOf[x.scan]
  BY <1>1, <1>3, KeyIsKey
<1>5. object.rows \in OfOrg(OrgOf[x.scan]) /\ object \in Object /\ object # NoObject
  <2>1. disk[x.scan][t] \in OfScan(x.scan)
    BY <1>1, <1>3 DEF Rendered
  <2>2. disk[x.scan][t] \in OfOrg(OrgOf[x.scan]) /\ disk[x.scan][t] \in {Torn} \cup SUBSET Row
    BY <1>1, <2>1, ScanToOrg
  <2>3. object.by = x.scan /\ NoObject.by = NoTable
    BY DEF NoObject
  <2>4. QED
    BY <1>1, <2>2, <2>3, PublicationAssumption DEF Object
<1>6. bucket' = [bucket EXCEPT ![Key(x.scan, t)] = object]
      /\ UNCHANGED <<status, disk, left, shared>>
  BY DEF UploadTable
<1>7. worker' = [worker EXCEPT ![w] = y]
  BY DEF UploadTable
<1>8. bucket \in [Orgs \X AllTables -> Object]
  BY DEF PInv, Shape
<1>9. /\ bucket'[Key(x.scan, t)] = object
      /\ \A k \in Orgs \X AllTables : k # Key(x.scan, t) => bucket'[k] = bucket[k]
  BY <1>4, <1>6, <1>8
<1>10. bucket' \in [Orgs \X AllTables -> Object]
  BY <1>4, <1>5, <1>6, <1>8
<1>11. Filed(bucket')
  BY <1>4, <1>5, <1>9 DEF Filed, PInv
<1>12. Grown
  BY <1>5, <1>9 DEF Grown
<1>13. Kept
  BY <1>6 DEF Kept
<1>14. /\ y.place = place /\ y.scan = x.scan /\ y.mode = x.mode /\ y.seen = x.seen
       /\ y.files = x.files /\ y.object = x.object /\ y.tables = x.tables
       /\ y.paths = Tail(x.paths)
  BY <1>1 DEF Request
<1>15. \/ place = "upload" /\ Tail(x.paths) # <<>>
       \/ place = "mark_uploaded" /\ Tail(x.paths) = <<>>
  BY DEF Uploading
<1>16. y \in Request
  <2>1. place \in Places
    BY <1>15 DEF Places, FilesRead, Publishing, Finishing
  <2>2. QED
    BY <1>1, <1>3, <2>1 DEF Request
<1>17. Placed(y)
  BY <1>1, <1>2, <1>14, <1>15 DEF Placed, FilesRead, Publishing, Finishing
<1>18. Rendered(y, disk')
  BY <1>1, <1>3, <1>6, <1>14 DEF Rendered
<1>19. Covered(y, bucket')
  <2> SUFFICES ASSUME NEW o \in FilesOf(x.scan), NEW u \in TablesOf(o)
               PROVE  In(u, Tail(x.paths)) \/ bucket'[Key(x.scan, u)] # NoObject
    BY <1>14 DEF Covered
  <2>1. In(u, x.paths) \/ bucket[Key(x.scan, u)] # NoObject
    BY <1>1, <1>2, InEmpty DEF Covered
  <2>2. Key(x.scan, u) \in Orgs \X AllTables
    BY <1>1, FilesAreObjects, TablesExist, KeyIsKey
  <2>3. CASE u = t
    BY <1>5, <1>9, <2>3
  <2>4. CASE u # t
    BY <1>3, <1>12, <2>1, <2>2, <2>4 DEF Grown
  <2>5. QED
    BY <2>3, <2>4
<1>20. worker' \in [Workers -> Request] /\ Running'
  BY <1>7, <1>12, <1>13, <1>16, <1>17, <1>18, <1>19, Moves
<1>21. CompletedIsPublished'
  BY <1>6, <1>12, StillPublished DEF PInv
<1>22. QED
  BY <1>6, <1>10, <1>11, <1>20, <1>21 DEF PInv, Shape, Owned

LEMMA NextHolds == PInv /\ [Next]_vars => PInv'
<1> SUFFICES ASSUME PInv, [Next]_vars PROVE PInv'
  OBVIOUS
<1>1. CASE UNCHANGED vars
  BY <1>1 DEF vars, PInv, Shape, Owned, Filed, Running, Rendered, Covered,
              CompletedIsPublished, Stored
<1>2. ASSUME NEW w \in Workers, NEW s \in Scans,
             NormalizeScan(w, s) \/ NormalizeSingleObject(w, s)
      PROVE  PInv'
  BY <1>2, NormalizeScanHolds, NormalizeSingleObjectHolds
<1>3. ASSUME NEW w \in Workers, SetStatus(w) PROVE PInv'
  BY <1>3, SetStatusHolds
<1>4. ASSUME NEW w \in Workers, Heartbeat(w) PROVE PInv'
  BY <1>4, HeartbeatHolds
<1>5. ASSUME NEW w \in Workers, NextFile(w) PROVE PInv'
  BY <1>5, NextFileHolds
<1>6. ASSUME NEW w \in Workers, OpenTable(w) PROVE PInv'
  BY <1>6, OpenTableHolds
<1>7. ASSUME NEW w \in Workers, WriteTable(w) PROVE PInv'
  BY <1>7, WriteTableHolds
<1>8. ASSUME NEW w \in Workers, UploadTable(w) PROVE PInv'
  BY <1>8, UploadTableHolds
<1>9. ASSUME NEW w \in Workers, Fail(w) PROVE PInv'
  BY <1>9, FailHolds
<1>10. ASSUME NEW w \in Workers, Crash(w) PROVE PInv'
  BY <1>10, CrashHolds
<1>11. ASSUME NEW s \in Scans, DetectCrashed(s) \/ CancelScan(s) \/ ResumeScan(s) PROVE PInv'
  BY <1>11, ScanStepHolds
<1>12. CASE Quiet
  BY <1>1, <1>12 DEF Quiet
<1>13. QED
  BY <1>1, <1>2, <1>3, <1>4, <1>5, <1>6, <1>7, <1>8, <1>9, <1>10, <1>11, <1>12 DEF Next

LEMMA Invariance == Spec => []PInv
BY InitHolds, NextHolds, PTL DEF Spec

-----------------------------------------------------------------------------
(* The results *)

(* The state has its shape: every file and object is of a known scan or    *)
(* organization, and every request at a place of the code.                 *)
THEOREM PublicationTypeCorrect == Spec => []TypeOK
<1>1. PInv => TypeOK
  <2> SUFFICES ASSUME PInv PROVE TypeOK
    OBVIOUS
  <2>1. ASSUME NEW w \in Workers PROVE WorkerOK(worker[w])
    <3>1. worker[w] \in Request /\ Placed(worker[w])
      BY AtWorker
    <3>2. CASE worker[w].place = "idle"
      BY <3>1, <3>2 DEF Placed, WorkerOK
    <3>3. CASE worker[w].place # "idle"
      <4>1. worker[w].place \in DOMAIN Mark \cup Beats \cup {"next_file", "open", "write", "upload"}
        BY <3>1, <3>3 DEF Request, Places, FilesRead, Publishing, Finishing, Mark, Beats
      <4>2. worker[w].mode \in {"upload", "save", "stats", "one"}
        BY <3>1, <3>3 DEF Request, Modes, Placed
      <4>3. \A i \in 1..Len(worker[w].paths) : worker[w].paths[i] \in AllTables
        BY <3>1 DEF Request
      <4>4. QED
        BY <3>1, <3>3, <4>1, <4>2, <4>3 DEF Placed, WorkerOK
    <3>4. QED
      BY <3>2, <3>3
  <2>2. ASSUME NEW s \in Scans
        PROVE  /\ DOMAIN disk[s] = AllTables
               /\ \A t \in AllTables : disk[s][t] \in {NoTable, Torn} \/ disk[s][t] \subseteq Row
    BY DEF PInv, Shape
  <2>3. ASSUME NEW k \in Orgs \X AllTables
        PROVE  \/ bucket[k] = NoObject
               \/ bucket[k].by \in Scans /\ (bucket[k].rows = Torn \/ bucket[k].rows \subseteq Row)
    <3>1. bucket[k] \in Object
      BY DEF PInv, Shape
    <3>2. QED
      BY <3>1 DEF Object
  <2>4. QED
    BY <2>1, <2>2, <2>3 DEF PInv, Shape, TypeOK
<1>2. QED
  BY <1>1, Invariance, PTL

(* Under the keys of an organization are only rows of its own scans, for   *)
(* any number of worker processes that publish at once.                    *)
THEOREM OrganizationsStayApart == Spec => []OrganizationsApart
<1>1. PInv => OrganizationsApart
  <2> SUFFICES ASSUME PInv, NEW k \in Orgs \X AllTables, bucket[k].rows # Torn,
                      NEW r \in bucket[k].rows
               PROVE  OrgOf[r.scan] = k[1]
    BY DEF OrganizationsApart
  <2>1. bucket[k] # NoObject
    BY DEF NoObject
  <2>2. bucket[k].rows \in SUBSET {q \in Row : OrgOf[q.scan] = k[1]}
    BY <2>1 DEF PInv, Filed, OfOrg
  <2>3. QED
    BY <2>2
<1>2. QED
  BY <1>1, Invariance, PTL

(* A completed scan has an object for each of its tables, whatever         *)
(* crashed, failed or was resumed before.                                  *)
THEOREM CompletedStaysPublished == Spec => []CompletedIsPublished
<1>1. PInv => CompletedIsPublished
  BY DEF PInv
<1>2. QED
  BY <1>1, Invariance, PTL

-----------------------------------------------------------------------------
(* What a completed scan has in the store, if no two requests worked on it *)
(* at once.                                                                *)
(*                                                                         *)
(* A request that works alone on its scan, and among the publishers of its *)
(* organization (Company), writes a table as often as files make it, the   *)
(* last time from the file that decides it (Ordered).  So a path is either *)
(* to be written again (Late) or the file has the rows it should (Whole),  *)
(* and each table of the scan is still to come or stored by this very      *)
(* request (Due).  After the write of COMPLETED nothing publishes the scan *)
(* again (Closed).                                                         *)

Alone(w) ==
  \A v \in Workers \ {w} : ~Meets(worker[v], worker[w].scan, worker[w].mode)

Company ==
  \A w \in Workers : worker[w] # Idle /\ worker[w].scan \notin shared => Alone(w)

Before(a, b) == \E i, j \in 1..Len(Sorted) : i < j /\ Sorted[i] = a /\ Sorted[j] = b

Ordered(x) ==
  \A p \in FilesOf(x.scan) \ x.files :
    /\ \A q \in x.files : Before(p, q)
    /\ p = x.object \/ Before(p, x.object)

Late(x, t) ==
  \/ Maker(x.scan, t) \in x.files
  \/ x.object = Maker(x.scan, t) /\ In(t, x.tables)

Right(s, t) == Rows(s, Maker(s, t), t)

Whole(x, d) ==
  \A t \in AllTables : In(t, x.paths) =>
    t \in Tables(x.scan) /\ (Late(x, t) \/ d[x.scan][t] = Right(x.scan, t))

Mine(b, s, t) == b[Key(s, t)] = [by |-> s, rows |-> Right(s, t)]

Due(x, b) ==
  \A o \in FilesOf(x.scan) : \A t \in TablesOf(o) :
    o \in x.files \/ In(t, x.tables) \/ In(t, x.paths) \/ Mine(b, x.scan, t)

Handled(x) == \A t : In(t, x.tables) => t \in TablesOf(x.object)

Working(x, d, b) == Ordered(x) /\ Handled(x) /\ Whole(x, d) /\ Due(x, b)

Publisher(x) == x.mode = "upload" /\ x.scan \notin shared

InTurn == \A w \in Workers : Publisher(worker[w]) => Working(worker[w], disk, bucket)

Closed ==
  \A s \in Scans \ shared : status[s] = "COMPLETED" =>
    \A w \in Workers : worker[w] # Idle /\ worker[w].scan = s => worker[w].mode = "one"

(* An object was stored for a scan of the organization in its key.         *)
Signed == \A k \in Orgs \X AllTables, s \in Scans : bucket[k].by = s => OrgOf[s] = k[1]

WInv == Company /\ InTurn /\ Closed /\ Signed /\ PublishedWhole /\ NotMixed

-----------------------------------------------------------------------------
(* The order of the files, and the one that decides a table *)

LEMMA SortedLength == Len(Sorted) = 13
BY DEF Sorted

(* The names are distinct. *)
LEMMA SortedOnce == \A i, j \in 1..13 : Sorted[i] = Sorted[j] => i = j
BY DEF Sorted

LEMMA SortedAll == \A o \in Objects : \E i \in 1..13 : Sorted[i] = o
BY DEF Sorted, Objects, Registry

(* Of some files there is a last one. *)
LEMMA LastExists ==
  ASSUME NEW files \in SUBSET Objects, files # {}
  PROVE  \E o \in files : IsLast(o, files)
<1>1. PICK i \in 1..13 : Sorted[i] \in files
  BY SortedAll
<1> DEFINE P(n) == \E k \in 1..13 : Sorted[k] \in files /\ k >= n
<1>2. P(1)
  BY <1>1
<1>3. ~P(14)
  OBVIOUS
<1>4. \E n \in 1..13 : P(n) /\ ~P(n + 1)
  BY <1>2, <1>3
<1>5. QED
  BY <1>4, SortedLength DEF IsLast

(* The first of some files comes before the others. *)
LEMMA FirstIsBefore ==
  ASSUME NEW files \in SUBSET Objects, NEW o, IsFirst(o, files), NEW q \in files, q # o
  PROVE  Before(o, q)
<1>1. PICK i \in 1..13 : Sorted[i] = o /\ \A j \in 1..(i - 1) : Sorted[j] \notin files
  BY SortedLength DEF IsFirst
<1>2. PICK j \in 1..13 : Sorted[j] = q
  BY SortedAll
<1>3. i < j
  BY <1>1, <1>2
<1>4. QED
  BY <1>1, <1>2, <1>3, SortedLength DEF Before

(* Nothing comes after the last one. *)
LEMMA LastHasNoneAfter ==
  ASSUME NEW files, NEW o, IsLast(o, files), NEW q \in files
  PROVE  ~Before(o, q)
<1>1. PICK i \in 1..13 : Sorted[i] = o /\ \A j \in (i + 1)..13 : Sorted[j] \notin files
  BY SortedLength DEF IsLast
<1>2. ASSUME NEW k \in 1..13, NEW j \in 1..13, k < j, Sorted[k] = o, Sorted[j] = q
      PROVE  FALSE
  <2>1. k = i
    BY <1>1, <1>2, SortedOnce
  <2>2. j \in (i + 1)..13
    BY <1>2, <2>1
  <2>3. QED
    BY <1>1, <1>2, <2>2
<1>3. QED
  BY <1>2, SortedLength DEF Before

LEMMA MakerIsLast ==
  ASSUME NEW s \in Scans, NEW o \in FilesOf(s), NEW t \in TablesOf(o)
  PROVE  /\ Maker(s, t) \in FilesOf(s) /\ t \in TablesOf(Maker(s, t))
         /\ ~Before(Maker(s, t), o)
<1> DEFINE made == {q \in FilesOf(s) : t \in TablesOf(q)}
<1>1. made \in SUBSET Objects /\ o \in made
  BY FilesAreObjects
<1>2. Maker(s, t) = CHOOSE q \in made : IsLast(q, made)
  BY DEF Maker
<1>3. \E q \in made : IsLast(q, made)
  BY <1>1, LastExists
<1>4. Maker(s, t) \in made /\ IsLast(Maker(s, t), made)
  BY <1>2, <1>3
<1>5. QED
  BY <1>1, <1>4, LastHasNoneAfter

(* While a file is handled, the one that decides a table of it is the file *)
(* itself or still to be read.                                             *)
LEMMA MakerAhead ==
  ASSUME NEW x, x.scan \in Scans, Ordered(x), x.object \in FilesOf(x.scan),
         NEW t \in TablesOf(x.object)
  PROVE  Maker(x.scan, t) \in x.files \/ Maker(x.scan, t) = x.object
BY MakerIsLast DEF Ordered

LEMMA FirstIsOrdered ==
  ASSUME NEW x, NEW y, x.scan \in Scans, x.files \subseteq FilesOf(x.scan), Ordered(x),
         NEW o \in x.files, IsFirst(o, x.files),
         y.scan = x.scan, y.files = x.files \ {o}, y.object = o
  PROVE  Ordered(y)
<1> SUFFICES ASSUME NEW p \in FilesOf(x.scan) \ y.files
             PROVE  /\ \A q \in y.files : Before(p, q)
                    /\ p = y.object \/ Before(p, y.object)
  BY DEF Ordered
<1>1. CASE p = o
  <2>1. x.files \in SUBSET Objects
    BY FilesAreObjects
  <2>2. QED
    BY <1>1, <2>1, FirstIsBefore
<1>2. CASE p # o
  BY <1>2 DEF Ordered
<1>3. QED
  BY <1>1, <1>2

-----------------------------------------------------------------------------
(* What a step leaves of it *)

LEMMA IdleIsNoPublisher == Idle.mode = "none" /\ ~Publisher(Idle)
BY DEF Idle, Publisher

(* A request keeps its scan and its mode till it ends. *)
LEMMA CompanyKept ==
  ASSUME Company, NEW w \in Workers, NEW y, worker \in [Workers -> Request],
         worker' = [worker EXCEPT ![w] = y], shared' = shared,
         y = Idle \/ (worker[w] # Idle /\ y.scan = worker[w].scan /\ y.mode = worker[w].mode)
  PROVE  Company'
<1> SUFFICES ASSUME NEW u \in Workers, worker'[u] # Idle, worker'[u].scan \notin shared,
                    NEW v \in Workers \ {u}, Meets(worker'[v], worker'[u].scan, worker'[u].mode)
             PROVE  FALSE
  BY DEF Company, Alone
<1>1. ASSUME NEW v1 \in Workers, worker'[v1] # Idle
      PROVE  /\ worker[v1] # Idle
             /\ worker'[v1].scan = worker[v1].scan /\ worker'[v1].mode = worker[v1].mode
  <2>1. CASE v1 = w
    BY <1>1, <2>1
  <2>2. CASE v1 # w
    BY <1>1, <2>2
  <2>3. QED
    BY <2>1, <2>2
<1>2. worker'[v] # Idle
  BY DEF Meets
<1>3. Meets(worker[v], worker[u].scan, worker[u].mode) /\ worker[u] # Idle
      /\ worker[u].scan \notin shared
  BY <1>1, <1>2 DEF Meets
<1>4. QED
  BY <1>3 DEF Company, Alone

(* The other publishers go on with what they had.                          *)
LEMMA InTurnKept ==
  ASSUME InTurn, NEW w \in Workers, NEW y, worker \in [Workers -> Request],
         worker' = [worker EXCEPT ![w] = y], shared \subseteq shared',
         \A v \in Workers \ {w} : Publisher(worker[v]) =>
           /\ \A t \in AllTables : disk'[worker[v].scan][t] = disk[worker[v].scan][t]
           /\ \A o \in FilesOf(worker[v].scan) : \A t \in TablesOf(o) :
                Mine(bucket, worker[v].scan, t) => Mine(bucket', worker[v].scan, t),
         (y.mode = "upload" /\ y.scan \notin shared') => Working(y, disk', bucket')
  PROVE  InTurn'
<1> SUFFICES ASSUME NEW v \in Workers, worker'[v].mode = "upload", worker'[v].scan \notin shared'
             PROVE  Working(worker'[v], disk', bucket')
  BY DEF InTurn, Publisher, Working, Ordered, Handled, Whole, Late, Right, Due, Mine
<1>1. CASE v = w
  BY <1>1
<1>2. CASE v # w
  <2>1. worker'[v] = worker[v] /\ Publisher(worker[v])
    BY <1>2 DEF Publisher
  <2>2. Working(worker[v], disk, bucket)
    BY <2>1 DEF InTurn
  <2>3. Whole(worker[v], disk')
    BY <1>2, <2>1, <2>2 DEF Working, Whole
  <2>4. Due(worker[v], bucket')
    BY <1>2, <2>1, <2>2 DEF Working, Due
  <2>5. QED
    BY <2>1, <2>2, <2>3, <2>4 DEF Working
<1>3. QED
  BY <1>1, <1>2

(* A publisher without company: the request that takes a step is on        *)
(* another scan, and if it publishes, of another organization.             *)
LEMMA OthersApart ==
  ASSUME Company, NEW w \in Workers, NEW v \in Workers \ {w}, Publisher(worker[v]),
         worker[w] # Idle
  PROVE  /\ worker[w].scan # worker[v].scan
         /\ worker[w].mode # "one" => OrgOf[worker[w].scan] # OrgOf[worker[v].scan]
<1>1. worker[v] # Idle /\ worker[v].scan \notin shared
  BY IdleIsNoPublisher DEF Publisher
<1>2. ~Meets(worker[w], worker[v].scan, worker[v].mode)
  BY <1>1 DEF Company, Alone
<1>3. QED
  BY <1>2 DEF Meets, Publisher

LEMMA ResultsKept ==
  ASSUME PublishedWhole, NotMixed, Signed, shared \subseteq shared', bucket' = bucket,
         \A s \in Scans : status'[s] = "COMPLETED" => status[s] = "COMPLETED"
  PROVE  PublishedWhole' /\ NotMixed' /\ Signed'
<1>1. PublishedWhole'
  BY DEF PublishedWhole, Stored
<1>2. NotMixed'
  BY DEF NotMixed, Stored
<1>3. QED
  BY <1>1, <1>2 DEF Signed

LEMMA ClosedKept ==
  ASSUME Closed, NEW w \in Workers, NEW y, worker \in [Workers -> Request],
         worker' = [worker EXCEPT ![w] = y], shared' = shared,
         y = Idle \/ (worker[w] # Idle /\ y.scan = worker[w].scan /\ y.mode = worker[w].mode),
         \A s \in Scans : status'[s] = "COMPLETED" => status[s] = "COMPLETED"
  PROVE  Closed'
<1> SUFFICES ASSUME NEW s \in Scans, s \notin shared, status[s] = "COMPLETED",
                    NEW v \in Workers, worker'[v] # Idle, worker'[v].scan = s
             PROVE  worker'[v].mode = "one"
  BY DEF Closed
<1>1. CASE v = w
  BY <1>1 DEF Closed
<1>2. CASE v # w
  BY <1>2 DEF Closed
<1>3. QED
  BY <1>1, <1>2

(* A step of a request that stores nothing. *)
LEMMA WholeStep ==
  ASSUME WInv, NEW w \in Workers, NEW y, worker \in [Workers -> Request],
         worker' = [worker EXCEPT ![w] = y], shared' = shared, bucket' = bucket,
         y = Idle \/ (worker[w] # Idle /\ y.scan = worker[w].scan /\ y.mode = worker[w].mode),
         \A s \in Scans : status'[s] = "COMPLETED" => status[s] = "COMPLETED",
         \A s \in Scans, t \in AllTables : disk'[s][t] = disk[s][t] \/ s = worker[w].scan,
         \A v \in Workers : worker[v].mode = "upload" => worker[v].scan \in Scans,
         worker[w] # Idle \/ disk' = disk,
         Publisher(y) => Working(y, disk', bucket)
  PROVE  WInv'
<1>1. Company'
  BY CompanyKept DEF WInv
<1>2. InTurn'
  <2>1. ASSUME NEW v \in Workers \ {w}, Publisher(worker[v]), NEW t \in AllTables
        PROVE  disk'[worker[v].scan][t] = disk[worker[v].scan][t]
    BY <2>1, OthersApart DEF WInv, Publisher
  <2>2. (y.mode = "upload" /\ y.scan \notin shared') => Working(y, disk', bucket')
    BY DEF Publisher
  <2>3. QED
    BY <2>1, <2>2, InTurnKept DEF WInv
<1>3. Closed'
  BY ClosedKept DEF WInv
<1>4. PublishedWhole' /\ NotMixed' /\ Signed'
  BY ResultsKept DEF WInv
<1>5. QED
  BY <1>1, <1>2, <1>3, <1>4 DEF WInv

(* Nothing of the work of a request has changed. *)
LEMMA SameWork ==
  ASSUME NEW x, NEW y, NEW d, NEW b, Working(x, d, b),
         y.scan = x.scan, y.files = x.files, y.object = x.object, y.tables = x.tables,
         y.paths = x.paths
  PROVE  Working(y, d, b)
BY DEF Working, Ordered, Handled, Whole, Late, Due

-----------------------------------------------------------------------------
(* The steps again *)

LEMMA WholeInit == Init => WInv
<1> SUFFICES ASSUME Init PROVE WInv
  OBVIOUS
<1>1. \A w \in Workers : worker[w] = Idle
  BY DEF Init
<1>2. Company /\ InTurn /\ Closed
  BY <1>1, IdleIsNoPublisher DEF Company, InTurn, Closed
<1>3. \A s \in Scans : status[s] # "COMPLETED"
  BY DEF Init
<1>4. PublishedWhole /\ NotMixed
  BY <1>3 DEF PublishedWhole, NotMixed
<1>5. Signed
  BY PublicationAssumption DEF Init, Signed, NoObject
<1>6. QED
  BY <1>2, <1>4, <1>5 DEF WInv

(* What is known of the request that takes a step. *)
LEMMA WholeAtWorker ==
  ASSUME PInv, WInv, NEW w \in Workers
  PROVE  /\ worker \in [Workers -> Request] /\ Placed(worker[w])
         /\ (worker[w] # Idle => worker[w].scan \in Scans /\ worker[w].files \subseteq FilesOf(worker[w].scan))
         /\ (worker[w].place # "idle" => worker[w] # Idle)
         /\ \A v \in Workers : worker[v].mode = "upload" => worker[v].scan \in Scans
         /\ Publisher(worker[w]) => Working(worker[w], disk, bucket)
<1>1. worker \in [Workers -> Request] /\ \A v \in Workers : Placed(worker[v])
  BY DEF PInv, Shape, Running
<1>2. \A v \in Workers : worker[v] # Idle => worker[v].scan \in Scans
                              /\ worker[v].files \subseteq FilesOf(worker[v].scan)
  BY <1>1 DEF Placed
<1>3. worker[w].place # "idle" => worker[w] # Idle
  BY DEF Idle
<1>4. \A v \in Workers : worker[v].mode = "upload" => worker[v].scan \in Scans
  BY <1>2, IdleIsNoPublisher
<1>5. QED
  BY <1>1, <1>2, <1>3, <1>4 DEF WInv, InTurn

(* A request arrives. *)
LEMMA WholeArrive ==
  ASSUME PInv, WInv, NEW w \in Workers, NEW s \in Scans, NEW x \in Request, Arrive(w, s, x),
         x.scan = s, x # Idle,
         x.mode = "one" \/ status[s] # "COMPLETED",
         x.mode = "upload" => x.files = FilesOf(s) /\ x.tables = <<>> /\ x.paths = <<>>
  PROVE  WInv'
<1> DEFINE met == {worker[v].scan : v \in {v \in Workers : Meets(worker[v], s, x.mode)}}
<1>1. /\ worker' = [worker EXCEPT ![w] = x] /\ UNCHANGED <<status, disk, bucket>>
      /\ shared' = IF met = {} THEN shared ELSE shared \cup met \cup {s}
      /\ worker[w].place = "idle"
  BY DEF Arrive, At
<1>2. worker \in [Workers -> Request] /\ worker[w] = Idle
  BY <1>1, WholeAtWorker DEF Placed
<1>3. shared \subseteq shared'
  BY <1>1
<1>4. ASSUME NEW v \in Workers, Meets(worker[v], s, x.mode)
      PROVE  worker[v].scan \in shared' /\ s \in shared'
  BY <1>1, <1>4
<1> HIDE DEF met
<1>5. Company'
  <2> SUFFICES ASSUME NEW u \in Workers, worker'[u] # Idle, worker'[u].scan \notin shared',
                      NEW v \in Workers \ {u},
                      Meets(worker'[v], worker'[u].scan, worker'[u].mode)
               PROVE  FALSE
    BY DEF Company, Alone
  <2>1. CASE u = w
    <3>1. worker'[v] = worker[v] /\ worker'[u] = x
      BY <1>1, <1>2, <2>1
    <3>2. QED
      BY <1>4, <3>1
  <2>2. CASE v = w
    <3>1. worker'[u] = worker[u] /\ worker'[v] = x
      BY <1>1, <1>2, <2>2
    <3>2. Meets(worker[u], s, x.mode)
      BY <3>1 DEF Meets
    <3>3. QED
      BY <1>4, <3>1, <3>2
  <2>3. CASE u # w /\ v # w
    <3>1. worker'[u] = worker[u] /\ worker'[v] = worker[v]
      BY <1>1, <1>2, <2>3
    <3>2. QED
      BY <1>3, <3>1 DEF WInv, Company, Alone
  <2>4. QED
    BY <2>1, <2>2, <2>3
<1>6. InTurn'
  <2>1. ASSUME x.mode = "upload" PROVE Working(x, disk', bucket')
    BY <2>1, InEmpty DEF Working, Ordered, Handled, Whole, Due
  <2>2. QED
    BY <1>1, <1>2, <1>3, <2>1, InTurnKept DEF WInv
<1>7. Closed'
  <2> SUFFICES ASSUME NEW z \in Scans, z \notin shared', status[z] = "COMPLETED",
                      NEW v \in Workers, worker'[v] # Idle, worker'[v].scan = z
               PROVE  worker'[v].mode = "one"
    BY <1>1 DEF Closed
  <2>1. CASE v = w
    BY <1>1, <1>2, <2>1
  <2>2. CASE v # w
    BY <1>1, <1>2, <1>3, <2>2 DEF WInv, Closed
  <2>3. QED
    BY <2>1, <2>2
<1>8. PublishedWhole' /\ NotMixed' /\ Signed'
  BY <1>1, <1>3, ResultsKept DEF WInv
<1>9. QED
  BY <1>5, <1>6, <1>7, <1>8 DEF WInv

LEMMA WholeRequest ==
  ASSUME PInv, WInv, NEW w \in Workers, NEW s \in Scans,
         NormalizeScan(w, s) \/ NormalizeSingleObject(w, s)
  PROVE  WInv'
<1>1. status[s] \in Status
  BY ReachedIsStatus DEF PInv, Shape
<1>2. CASE NormalizeScan(w, s)
  <2>1. PICK mode \in {"upload", "save", "stats"} :
          Arrive(w, s, [Idle EXCEPT !.place = "mark_normalizing", !.scan = s,
                                    !.mode = mode, !.seen = status[s],
                                    !.files = FilesOf(s)])
    BY <1>2 DEF NormalizeScan
  <2> DEFINE x == [Idle EXCEPT !.place = "mark_normalizing", !.scan = s,
                               !.mode = mode, !.seen = status[s], !.files = FilesOf(s)]
  <2>2. /\ x.scan = s /\ x.files = FilesOf(s) /\ x.tables = <<>> /\ x.paths = <<>>
        /\ x.place = "mark_normalizing"
    BY DEF Idle
  <2>3. x # Idle
    BY <2>2 DEF Idle
  <2>4. x \in Request
    BY <1>1, IdleIsRequest, FilesAreObjects DEF Request, Places, Modes
  <2>5. status[s] # "COMPLETED"
    BY <1>2 DEF NormalizeScan
  <2> HIDE DEF x
  <2>6. QED
    BY <2>1, <2>2, <2>3, <2>4, <2>5, WholeArrive DEF x
<1>3. CASE NormalizeSingleObject(w, s)
  <2>1. PICK o \in DOMAIN Csv[s] :
          Arrive(w, s, [Idle EXCEPT !.place = "open", !.scan = s, !.mode = "one",
                                    !.seen = status[s], !.object = o,
                                    !.tables = Registry[o]])
    BY <1>3 DEF NormalizeSingleObject
  <2> DEFINE x == [Idle EXCEPT !.place = "open", !.scan = s, !.mode = "one",
                               !.seen = status[s], !.object = o, !.tables = Registry[o]]
  <2>2. x.scan = s /\ x.place = "open" /\ x.mode = "one"
    BY DEF Idle
  <2>3. x # Idle
    BY <2>2 DEF Idle
  <2>4. o \in Objects /\ Registry[o] \in Seq(AllTables)
    BY FilesAreObjects, RegistryIsTables DEF FilesOf
  <2>5. x \in Request
    BY <1>1, <2>4, IdleIsRequest DEF Request, Places, Modes
  <2> HIDE DEF x
  <2>6. QED
    BY <2>1, <2>2, <2>3, <2>5, WholeArrive DEF x
<1>4. QED
  BY <1>2, <1>3

(* The last status write: every table of the scan is in the store, by this *)
(* request.                                                                *)
LEMMA WholeCompletes ==
  ASSUME PInv, WInv, NEW w \in Workers, worker[w].place = "mark_completed",
         worker' = [worker EXCEPT ![w] = Idle],
         status' = [status EXCEPT ![worker[w].scan] = "COMPLETED"],
         UNCHANGED <<disk, bucket, left, shared>>
  PROVE  WInv'
<1> DEFINE x == worker[w]
           s == x.scan
<1>1. /\ worker \in [Workers -> Request] /\ Placed(x) /\ x # Idle /\ s \in Scans
      /\ \A v \in Workers : worker[v].mode = "upload" => worker[v].scan \in Scans
      /\ Publisher(x) => Working(x, disk, bucket)
  BY WholeAtWorker
<1>2. x.mode = "upload" /\ x.files = {} /\ x.tables = <<>> /\ x.paths = <<>>
  BY <1>1 DEF Placed, FilesRead, Publishing, Finishing
<1>3. ASSUME s \notin shared, NEW t \in Tables(s)
      PROVE  Stored(s, t).by = s /\ Stored(s, t).rows = Right(s, t)
  <2>1. PICK o \in FilesOf(s) : t \in TablesOf(o)
    BY DEF Tables, FilesOf
  <2>2. Due(x, bucket)
    BY <1>1, <1>2, <1>3 DEF Publisher, Working
  <2>3. Mine(bucket, s, t)
    BY <1>2, <2>1, <2>2, InEmpty DEF Due
  <2>4. Stored(s, t) = [by |-> s, rows |-> Right(s, t)]
    BY <2>3 DEF Mine, Stored
  <2>5. QED
    BY <2>4
<1>4. \A z \in Scans : z # s => status'[z] = status[z]
  BY DEF PInv, Shape
<1>5. Company'
  BY <1>1, CompanyKept DEF WInv
<1>6. InTurn'
  BY <1>1, IdleIsNoPublisher, InTurnKept DEF WInv
<1>7. Closed'
  <2> SUFFICES ASSUME NEW z \in Scans, z \notin shared, status'[z] = "COMPLETED",
                      NEW v \in Workers, worker'[v] # Idle, worker'[v].scan = z
               PROVE  worker'[v].mode = "one"
    BY DEF Closed
  <2>1. v # w /\ worker'[v] = worker[v]
    BY <1>1
  <2>2. CASE z = s
    <3>1. ~Meets(worker[v], s, x.mode)
      BY <1>1, <2>1, <2>2 DEF WInv, Company, Alone
    <3>2. QED
      BY <2>1, <2>2, <3>1 DEF Meets
  <2>3. CASE z # s
    BY <1>4, <2>1, <2>3 DEF WInv, Closed
  <2>4. QED
    BY <2>2, <2>3
<1>8. PublishedWhole'
  <2> SUFFICES ASSUME NEW z \in Scans \ shared, status'[z] = "COMPLETED", NEW t \in Tables(z),
                      Stored(z, t).by = z
               PROVE  Stored(z, t).rows = Right(z, t)
    BY DEF PublishedWhole, Stored, Right
  <2>1. CASE z = s
    <3>1. s \notin shared /\ t \in Tables(s)
      BY <2>1
    <3> HIDE DEF s
    <3>2. QED
      BY <1>3, <2>1, <3>1
  <2>2. CASE z # s
    BY <1>4, <2>2 DEF WInv, PublishedWhole, Right
  <2>3. QED
    BY <2>1, <2>2
<1>9. NotMixed'
  <2> SUFFICES ASSUME NEW s1 \in Scans \ shared, NEW s2 \in Scans \ shared, s1 # s2,
                      status'[s1] = "COMPLETED", status'[s2] = "COMPLETED",
                      NEW t1 \in Tables(s1) \cap Tables(s2), NEW t2 \in Tables(s1) \cap Tables(s2),
                      Stored(s1, t1).by = s1, Stored(s1, t2).by = s2
               PROVE  FALSE
    BY DEF NotMixed, Stored
  <2>1. CASE s1 = s
    <3>1. s \notin shared /\ t2 \in Tables(s)
      BY <2>1
    <3> HIDE DEF s
    <3>2. QED
      BY <1>3, <2>1, <3>1
  <2>2. CASE s2 = s
    <3>1. PICK o \in FilesOf(s1) : t2 \in TablesOf(o)
      BY DEF Tables, FilesOf
    <3>2. Key(s1, t2) \in Orgs \X AllTables /\ Key(s1, t2)[1] = OrgOf[s1]
      BY <3>1, FilesAreObjects, TablesExist, KeyIsKey
    <3>3. OrgOf[s2] = OrgOf[s1]
      BY <3>2 DEF WInv, Signed, Stored
    <3>4. Stored(s1, t1).by = s2
      <4>1. s \notin shared /\ t1 \in Tables(s)
        BY <2>2
      <4>2. Stored(s1, t1) = Stored(s, t1)
        BY <2>2, <3>3 DEF Stored, Key
      <4> HIDE DEF s
      <4>3. QED
        BY <1>3, <2>2, <4>1, <4>2
    <3>5. QED
      BY <3>4
  <2>3. CASE s1 # s /\ s2 # s
    BY <1>4, <2>3 DEF WInv, NotMixed
  <2>4. QED
    BY <2>1, <2>2, <2>3
<1>10. Signed'
  BY DEF WInv, Signed
<1>11. QED
  BY <1>5, <1>6, <1>7, <1>8, <1>9, <1>10 DEF WInv

LEMMA WholeSetStatus ==
  ASSUME PInv, WInv, NEW w \in Workers, SetStatus(w)
  PROVE  WInv'
<1> DEFINE x == worker[w]
           target == Mark[x.place]
           accepted == IsValidTransition(x.seen, target)
           next == CASE x.place = "mark_normalizing" -> "next_file"
                     [] x.place = "mark_normalized" ->
                          IF x.mode = "upload" THEN "mark_uploading" ELSE "idle"
                     [] x.place = "mark_uploading" -> "beat_uploading"
                     [] x.place = "mark_uploaded" -> "beat_uploaded"
                     [] x.place = "mark_completed" -> "idle"
           seen == IF accepted THEN target ELSE x.seen
           moved == [x EXCEPT !.place = next, !.seen = seen]
           y == IF next = "idle" THEN Idle ELSE moved
<1>1. /\ worker \in [Workers -> Request] /\ x \in Request
      /\ \A v \in Workers : worker[v].mode = "upload" => worker[v].scan \in Scans
      /\ Publisher(x) => Working(x, disk, bucket)
  BY WholeAtWorker
<1>2. x.place \in {"mark_normalizing", "mark_normalized", "mark_uploading", "mark_uploaded",
                   "mark_completed"}
  BY DEF SetStatus, Mark
<1>3. x # Idle /\ x.scan \in Scans
  BY <1>2, WholeAtWorker
<1>4. /\ worker' = [worker EXCEPT ![w] = y] /\ UNCHANGED <<disk, bucket, left, shared>>
      /\ status' = IF accepted THEN [status EXCEPT ![x.scan] = target] ELSE status
  BY DEF SetStatus
<1>5. CASE x.place = "mark_completed" /\ accepted
  <2>1. next = "idle" /\ target = "COMPLETED"
    BY <1>5 DEF Mark
  <2>2. worker' = [worker EXCEPT ![w] = Idle] /\ status' = [status EXCEPT ![x.scan] = "COMPLETED"]
    BY <1>4, <1>5, <2>1
  <2>3. QED
    BY <1>4, <1>5, <2>2, WholeCompletes
<1>6. CASE ~(x.place = "mark_completed" /\ accepted)
  <2>1. accepted => target # "COMPLETED"
    BY <1>2, <1>6 DEF Mark
  <2>2. \A s \in Scans : status'[s] = "COMPLETED" => status[s] = "COMPLETED"
    <3>1. status \in [Scans -> Reached]
      BY DEF PInv, Shape
    <3> HIDE DEF accepted, target
    <3>2. QED
      BY <1>4, <2>1, <3>1
  <2>3. /\ moved.scan = x.scan /\ moved.mode = x.mode /\ moved.files = x.files
        /\ moved.object = x.object /\ moved.tables = x.tables /\ moved.paths = x.paths
    BY <1>1 DEF Request
  <2>4. y = Idle \/ (y.scan = x.scan /\ y.mode = x.mode)
    BY <2>3
  <2>5. Publisher(y) => Working(y, disk, bucket)
    <3>1. CASE y = Idle
      BY <3>1, IdleIsNoPublisher
    <3>2. CASE y = moved
      BY <1>1, <2>3, <3>2, SameWork DEF Publisher
    <3>3. QED
      BY <3>1, <3>2
  <2> HIDE DEF y
  <2>6. QED
    BY <1>1, <1>3, <1>4, <2>2, <2>4, <2>5, WholeStep
<1>7. QED
  BY <1>5, <1>6

LEMMA WholeHeartbeat ==
  ASSUME PInv, WInv, NEW w \in Workers, Heartbeat(w)
  PROVE  WInv'
<1> DEFINE x == worker[w]
           place == IF x.place = "beat_uploaded" THEN "mark_completed" ELSE Uploading(x.paths)
           y == [x EXCEPT !.seen = status[x.scan], !.place = place]
<1>1. /\ worker \in [Workers -> Request] /\ x \in Request
      /\ \A v \in Workers : worker[v].mode = "upload" => worker[v].scan \in Scans
      /\ Publisher(x) => Working(x, disk, bucket)
  BY WholeAtWorker
<1>2. x # Idle
  BY WholeAtWorker DEF Heartbeat, Beats
<1>3. worker' = [worker EXCEPT ![w] = y] /\ UNCHANGED <<status, disk, bucket, left, shared>>
  BY DEF Heartbeat, PInv, Shape
<1>4. /\ y.scan = x.scan /\ y.mode = x.mode /\ y.files = x.files
      /\ y.object = x.object /\ y.tables = x.tables /\ y.paths = x.paths
  BY <1>1 DEF Request
<1>5. Publisher(y) => Working(y, disk, bucket)
  BY <1>1, <1>4, SameWork DEF Publisher
<1> HIDE DEF y
<1>6. QED
  BY <1>1, <1>2, <1>3, <1>4, <1>5, WholeStep

LEMMA WholeNextFile ==
  ASSUME PInv, WInv, NEW w \in Workers, NextFile(w)
  PROVE  WInv'
<1> DEFINE x == worker[w]
<1>1. /\ worker \in [Workers -> Request] /\ x \in Request /\ Placed(x)
      /\ \A v \in Workers : worker[v].mode = "upload" => worker[v].scan \in Scans
      /\ Publisher(x) => Working(x, disk, bucket)
  BY WholeAtWorker
<1>2. x.place = "next_file" /\ x # Idle /\ x.scan \in Scans /\ x.files \subseteq FilesOf(x.scan)
  BY WholeAtWorker DEF NextFile, At
<1>3. UNCHANGED <<status, disk, bucket, left, shared>>
  BY DEF NextFile
<1>4. CASE x.files = {} /\ worker' = [worker EXCEPT ![w].place = "mark_normalized"]
  <2> DEFINE y == [x EXCEPT !.place = "mark_normalized"]
  <2>1. worker' = [worker EXCEPT ![w] = y]
    BY <1>4
  <2>2. /\ y.scan = x.scan /\ y.mode = x.mode /\ y.files = x.files
        /\ y.object = x.object /\ y.tables = x.tables /\ y.paths = x.paths
    BY <1>1 DEF Request
  <2>3. Publisher(y) => Working(y, disk, bucket)
    BY <1>1, <2>2, SameWork DEF Publisher
  <2> HIDE DEF y
  <2>4. QED
    BY <1>1, <1>2, <1>3, <2>1, <2>2, <2>3, WholeStep
<1>5. ASSUME NEW o \in x.files, IsFirst(o, x.files),
             worker' = [worker EXCEPT ![w] =
               [x EXCEPT !.seen = status[x.scan], !.files = @ \ {o}, !.object = o,
                         !.tables = Registry[o],
                         !.place = IF x.mode = "stats" THEN "next_file" ELSE "open"]]
      PROVE  WInv'
  <2> DEFINE place == IF x.mode = "stats" THEN "next_file" ELSE "open"
             y == [x EXCEPT !.seen = status[x.scan], !.files = @ \ {o}, !.object = o,
                            !.tables = Registry[o], !.place = place]
  <2>1. worker' = [worker EXCEPT ![w] = y]
    BY <1>5
  <2>2. o \in FilesOf(x.scan) /\ o \in Objects
    BY <1>2, <1>5, FilesAreObjects
  <2>3. /\ y.scan = x.scan /\ y.mode = x.mode /\ y.files = x.files \ {o}
        /\ y.object = o /\ y.tables = Registry[o] /\ y.paths = x.paths
    BY <1>1 DEF Request
  <2> HIDE DEF y
  <2>4. ASSUME Publisher(y) PROVE Working(y, disk, bucket)
    <3>1. Working(x, disk, bucket) /\ x.tables = <<>>
      BY <1>1, <1>2, <2>3, <2>4 DEF Publisher, Placed
    <3>2. Ordered(y)
      BY <1>2, <1>5, <2>3, <3>1, FirstIsOrdered DEF Working
    <3>3. Handled(y)
      BY <2>2, <2>3, InRegistry DEF Handled
    <3>4. Whole(y, disk)
      <4> SUFFICES ASSUME NEW t \in AllTables, In(t, x.paths)
                   PROVE  t \in Tables(x.scan) /\ (Late(y, t) \/ disk[x.scan][t] = Right(x.scan, t))
        BY <2>3 DEF Whole
      <4>1. /\ t \in Tables(x.scan)
            /\ Maker(x.scan, t) \in x.files \/ disk[x.scan][t] = Right(x.scan, t)
        BY <3>1, InEmpty DEF Working, Whole, Late
      <4>2. PICK q \in FilesOf(x.scan) : t \in TablesOf(q)
        BY <4>1 DEF Tables, FilesOf
      <4>3. CASE Maker(x.scan, t) = o
        <5>1. In(t, Registry[o])
          BY <1>2, <2>2, <4>2, <4>3, MakerIsLast, InRegistry
        <5>2. QED
          BY <2>3, <4>1, <4>3, <5>1 DEF Late
      <4>4. CASE Maker(x.scan, t) # o
        BY <2>3, <4>1, <4>4 DEF Late
      <4>5. QED
        BY <4>3, <4>4
    <3>5. Due(y, bucket)
      <4> SUFFICES ASSUME NEW q \in FilesOf(x.scan), NEW t \in TablesOf(q)
                   PROVE  \/ q \in y.files \/ In(t, y.tables) \/ In(t, y.paths)
                          \/ Mine(bucket, x.scan, t)
        BY <2>3 DEF Due
      <4>1. q \in x.files \/ In(t, x.paths) \/ Mine(bucket, x.scan, t)
        BY <3>1, InEmpty DEF Working, Due
      <4>2. CASE q = o
        BY <2>2, <2>3, <4>2, InRegistry
      <4>3. CASE q # o
        BY <2>3, <4>1, <4>3
      <4>4. QED
        BY <4>2, <4>3
    <3>6. QED
      BY <3>2, <3>3, <3>4, <3>5 DEF Working
  <2>5. QED
    BY <1>1, <1>2, <1>3, <2>1, <2>3, <2>4, WholeStep
<1>6. QED
  BY <1>4, <1>5 DEF NextFile

(* A step of a publisher that makes another table of its file: the file    *)
(* that decides the table is this one or still to be read.                 *)
LEMMA TableAhead ==
  ASSUME PInv, NEW x, x.scan \in Scans, x.place \in {"open", "write"}, Placed(x),
         Ordered(x), Handled(x), NEW t, In(t, x.tables)
  PROVE  /\ t \in Tables(x.scan) /\ t \in TablesOf(x.object)
         /\ Maker(x.scan, t) \in x.files \/ Maker(x.scan, t) = x.object
<1>1. x.object \in FilesOf(x.scan)
  BY DEF Placed
<1>2. t \in TablesOf(x.object)
  BY DEF Handled
<1>3. t \in Tables(x.scan)
  BY <1>1, <1>2 DEF Tables, FilesOf
<1>4. QED
  BY <1>1, <1>2, <1>3, MakerAhead

LEMMA WholeOpenTable ==
  ASSUME PInv, WInv, NEW w \in Workers, OpenTable(w)
  PROVE  WInv'
<1> DEFINE x == worker[w]
           y == [x EXCEPT !.place = "write"]
           t == Head(x.tables)
<1>1. /\ worker \in [Workers -> Request] /\ x \in Request /\ Placed(x)
      /\ \A v \in Workers : worker[v].mode = "upload" => worker[v].scan \in Scans
      /\ Publisher(x) => Working(x, disk, bucket)
  BY WholeAtWorker
<1>2. x.place = "open" /\ x # Idle /\ x.scan \in Scans
  BY WholeAtWorker DEF OpenTable, At
<1>3. x.tables # <<>> /\ x.tables \in Seq(AllTables)
  BY <1>1, <1>2 DEF Placed, Request
<1>4. t \in AllTables /\ In(t, x.tables)
  BY <1>3, InHeadTail
<1>5. worker' = [worker EXCEPT ![w] = y] /\ UNCHANGED <<status, bucket, left, shared>>
  BY DEF OpenTable
<1>6. \A s \in Scans, u \in AllTables :
        disk'[s][u] = IF s = x.scan /\ u = t THEN Torn ELSE disk[s][u]
  <2>1. disk' = [disk EXCEPT ![x.scan][t] = Torn]
    BY DEF OpenTable
  <2>2. disk \in [Scans -> [AllTables -> {NoTable, Torn} \cup SUBSET Row]]
    BY DEF PInv, Shape
  <2> HIDE DEF x, t
  <2>3. QED
    BY <1>2, <1>4, <2>1, <2>2
<1>7. /\ y.scan = x.scan /\ y.mode = x.mode /\ y.files = x.files
      /\ y.object = x.object /\ y.tables = x.tables /\ y.paths = x.paths
  BY <1>1 DEF Request
<1> HIDE DEF y
<1>8. ASSUME Publisher(y) PROVE Working(y, disk', bucket)
  <2>1. Working(x, disk, bucket)
    BY <1>1, <1>7, <1>8 DEF Publisher
  <2>2. /\ t \in Tables(x.scan)
        /\ Maker(x.scan, t) \in x.files \/ Maker(x.scan, t) = x.object
    BY <1>1, <1>2, <1>4, <2>1, TableAhead DEF Working
  <2>3. Whole(y, disk')
    <3> SUFFICES ASSUME NEW u \in AllTables, In(u, x.paths)
                 PROVE  u \in Tables(x.scan) /\ (Late(y, u) \/ disk'[x.scan][u] = Right(x.scan, u))
      BY <1>7 DEF Whole
    <3>1. CASE u = t
      BY <1>4, <1>7, <2>2, <3>1 DEF Late
    <3>2. CASE u # t
      BY <1>2, <1>6, <1>7, <2>1, <3>2 DEF Working, Whole, Late
    <3>3. QED
      BY <3>1, <3>2
  <2>4. Ordered(y) /\ Handled(y) /\ Due(y, bucket)
    BY <1>7, <2>1 DEF Working, Ordered, Handled, Due
  <2>5. QED
    BY <2>3, <2>4 DEF Working
<1>9. QED
  BY <1>1, <1>2, <1>5, <1>6, <1>7, <1>8, WholeStep

LEMMA WholeWriteTable ==
  ASSUME PInv, WInv, NEW w \in Workers, WriteTable(w)
  PROVE  WInv'
<1> DEFINE x == worker[w]
           t == Head(x.tables)
           known == \E i \in 1..Len(x.paths) : x.paths[i] = t
           paths == IF known THEN x.paths ELSE Append(x.paths, t)
           z == [x EXCEPT !.tables = Tail(@), !.paths = paths]
           y == Saved(x)
           rows == Rows(x.scan, x.object, t)
<1>1. /\ worker \in [Workers -> Request] /\ x \in Request /\ Placed(x)
      /\ \A v \in Workers : worker[v].mode = "upload" => worker[v].scan \in Scans
      /\ Publisher(x) => Working(x, disk, bucket)
  BY WholeAtWorker
<1>2. x.place = "write" /\ x # Idle /\ x.scan \in Scans
  BY WholeAtWorker DEF WriteTable, At
<1>3. x.object \in FilesOf(x.scan) /\ x.tables # <<>> /\ x.tables \in Seq(AllTables)
      /\ x.paths \in Seq(AllTables)
  BY <1>1, <1>2 DEF Placed, Request
<1>4. /\ t \in AllTables /\ In(t, x.tables)
      /\ \A u : In(u, x.tables) <=> u = t \/ In(u, Tail(x.tables))
  BY <1>3, InHeadTail
<1>5. \A u : In(u, paths) <=> In(u, x.paths) \/ u = t
  <2>1. known <=> In(t, x.paths)
    BY DEF In
  <2>2. CASE known
    BY <2>1, <2>2
  <2>3. CASE ~known
    BY <1>3, <1>4, <2>3, InAppend
  <2>4. QED
    BY <2>2, <2>3
<1>6. worker' = [worker EXCEPT ![w] = y] /\ UNCHANGED <<status, bucket, left, shared>>
  BY DEF WriteTable
<1>7. \A s \in Scans, u \in AllTables :
        disk'[s][u] = IF s = x.scan /\ u = t THEN rows ELSE disk[s][u]
  <2>1. disk' = [disk EXCEPT ![x.scan][t] = rows]
    BY DEF WriteTable
  <2>2. disk \in [Scans -> [AllTables -> {NoTable, Torn} \cup SUBSET Row]]
    BY DEF PInv, Shape
  <2> HIDE DEF x, t, rows
  <2>3. QED
    BY <1>2, <1>4, <2>1, <2>2
<1>8. \/ y = Idle
      \/ /\ y.scan = x.scan /\ y.mode = x.mode /\ y.files = x.files
         /\ y.object = x.object /\ y.tables = Tail(x.tables) /\ y.paths = paths
  <2>1. /\ z.scan = x.scan /\ z.mode = x.mode /\ z.files = x.files
        /\ z.object = x.object /\ z.tables = Tail(x.tables) /\ z.paths = paths
        /\ z \in Request
    <3>1. paths \in Seq(AllTables) /\ Tail(x.tables) \in Seq(AllTables)
      BY <1>3, <1>4, InHeadTail, InAppend
    <3> HIDE DEF paths
    <3>2. QED
      BY <1>1, <3>1 DEF Request
  <2>2. y = Idle \/ y = [z EXCEPT !.place = "open"] \/ y = [z EXCEPT !.place = "next_file"]
    BY DEF Saved
  <2> HIDE DEF z, y
  <2>3. QED
    BY <2>1, <2>2 DEF Request
<1> HIDE DEF y, paths
<1>9. ASSUME Publisher(y) PROVE Working(y, disk', bucket)
  <2>1. /\ y.scan = x.scan /\ y.mode = x.mode /\ y.files = x.files
        /\ y.object = x.object /\ y.tables = Tail(x.tables) /\ y.paths = paths
    BY <1>8, <1>9, IdleIsNoPublisher
  <2>2. Working(x, disk, bucket)
    BY <1>1, <1>9, <2>1 DEF Publisher
  <2>3. /\ t \in Tables(x.scan)
        /\ Maker(x.scan, t) \in x.files \/ Maker(x.scan, t) = x.object
    BY <1>1, <1>2, <1>4, <2>2, TableAhead DEF Working
  <2>4. Whole(y, disk')
    <3> SUFFICES ASSUME NEW u \in AllTables, In(u, x.paths) \/ u = t
                 PROVE  u \in Tables(x.scan) /\ (Late(y, u) \/ disk'[x.scan][u] = Right(x.scan, u))
      BY <1>5, <2>1 DEF Whole
    <3>1. CASE u = t
      <4>1. CASE Maker(x.scan, t) \in x.files
        BY <2>1, <2>3, <3>1, <4>1 DEF Late
      <4>2. CASE Maker(x.scan, t) = x.object
        BY <1>2, <1>4, <1>7, <2>3, <3>1, <4>2 DEF Right
      <4>3. QED
        BY <2>3, <4>1, <4>2
    <3>2. CASE u # t
      BY <1>2, <1>4, <1>7, <2>1, <2>2, <3>2 DEF Working, Whole, Late
    <3>3. QED
      BY <3>1, <3>2
  <2>5. Ordered(y) /\ Handled(y)
    BY <1>4, <2>1, <2>2 DEF Working, Ordered, Handled
  <2>6. Due(y, bucket)
    BY <1>4, <1>5, <2>1, <2>2 DEF Working, Due
  <2>7. QED
    BY <2>4, <2>5, <2>6 DEF Working
<1>10. QED
  BY <1>1, <1>2, <1>6, <1>7, <1>8, <1>9, WholeStep

LEMMA WholeUploadTable ==
  ASSUME PInv, WInv, NEW w \in Workers, UploadTable(w)
  PROVE  WInv'
<1> DEFINE x == worker[w]
           t == Head(x.paths)
           k == Key(x.scan, t)
           object == [by |-> x.scan, rows |-> disk[x.scan][t]]
           y == [x EXCEPT !.paths = Tail(@), !.place = Uploading(Tail(x.paths))]
<1>1. /\ worker \in [Workers -> Request] /\ x \in Request /\ Placed(x)
      /\ \A v \in Workers : worker[v].mode = "upload" => worker[v].scan \in Scans
      /\ Publisher(x) => Working(x, disk, bucket)
  BY WholeAtWorker
<1>2. x.place = "upload" /\ x # Idle /\ x.scan \in Scans
  BY WholeAtWorker DEF UploadTable, At
<1>3. x.paths # <<>> /\ x.paths \in Seq(AllTables) /\ x.mode = "upload" /\ x.files = {}
      /\ x.tables = <<>>
  BY <1>1, <1>2 DEF Placed, Request, FilesRead, Publishing
<1>4. /\ t \in AllTables /\ In(t, x.paths)
      /\ \A u : In(u, x.paths) <=> u = t \/ In(u, Tail(x.paths))
  BY <1>3, InHeadTail
<1>5. k \in Orgs \X AllTables /\ k[1] = OrgOf[x.scan]
  BY <1>2, <1>4, KeyIsKey
<1>6. worker' = [worker EXCEPT ![w] = y] /\ UNCHANGED <<status, disk, left, shared>>
  BY DEF UploadTable
<1>7. \A j \in Orgs \X AllTables : bucket'[j] = IF j = k THEN object ELSE bucket[j]
  <2>1. bucket' = [bucket EXCEPT ![k] = object]
    BY DEF UploadTable
  <2>2. bucket \in [Orgs \X AllTables -> Object]
    BY DEF PInv, Shape
  <2> HIDE DEF x, k, object
  <2>3. QED
    BY <1>5, <2>1, <2>2
<1>8. /\ y.scan = x.scan /\ y.mode = x.mode /\ y.files = x.files
      /\ y.object = x.object /\ y.tables = x.tables /\ y.paths = Tail(x.paths)
  BY <1>1 DEF Request
<1> HIDE DEF y
<1>9. \A s \in Scans : \A o \in FilesOf(s) : \A u \in TablesOf(o) :
        /\ Key(s, u) \in Orgs \X AllTables
        /\ Key(s, u) = k => OrgOf[s] = OrgOf[x.scan] /\ u = t
  BY FilesAreObjects, TablesExist, KeyIsKey DEF Key
<1>10. \A s \in Scans : \A u \in Tables(s) : \E o \in FilesOf(s) : u \in TablesOf(o)
  BY DEF Tables, FilesOf
<1>11. Company'
  BY <1>1, <1>2, <1>6, <1>8, CompanyKept DEF WInv
<1>12. InTurn'
  <2>1. ASSUME NEW v \in Workers \ {w}, Publisher(worker[v]),
               NEW o \in FilesOf(worker[v].scan), NEW u \in TablesOf(o),
               Mine(bucket, worker[v].scan, u)
        PROVE  Mine(bucket', worker[v].scan, u)
    <3>1. worker[v].scan \in Scans
      BY <1>1, <2>1 DEF Publisher
    <3>2. OrgOf[x.scan] # OrgOf[worker[v].scan]
      BY <1>2, <1>3, <2>1, OthersApart DEF WInv
    <3>3. Key(worker[v].scan, u) \in Orgs \X AllTables /\ Key(worker[v].scan, u) # k
      BY <1>9, <2>1, <3>1, <3>2
    <3>4. QED
      BY <1>7, <2>1, <3>3 DEF Mine
  <2>2. ASSUME y.mode = "upload", y.scan \notin shared'
        PROVE  Working(y, disk', bucket')
    <3>1. Working(x, disk, bucket)
      BY <1>1, <1>6, <1>8, <2>2 DEF Publisher
    <3>2. disk[x.scan][t] = Right(x.scan, t)
      BY <1>3, <1>4, <3>1, InEmpty DEF Working, Whole, Late
    <3>3. Mine(bucket', x.scan, t)
      BY <1>5, <1>7, <3>2 DEF Mine
    <3>4. Due(y, bucket')
      <4> SUFFICES ASSUME NEW o \in FilesOf(x.scan), NEW u \in TablesOf(o)
                   PROVE  In(u, Tail(x.paths)) \/ Mine(bucket', x.scan, u)
        BY <1>8 DEF Due
      <4>1. In(u, x.paths) \/ Mine(bucket, x.scan, u)
        BY <1>3, <3>1, InEmpty DEF Working, Due
      <4>2. CASE u = t
        BY <3>3, <4>2
      <4>3. CASE u # t
        <5>1. Key(x.scan, u) \in Orgs \X AllTables /\ Key(x.scan, u) # k
          BY <1>2, <1>9, <4>3
        <5>2. Mine(bucket, x.scan, u) => Mine(bucket', x.scan, u)
          BY <1>7, <5>1 DEF Mine
        <5>3. QED
          BY <1>4, <4>1, <4>3, <5>2
      <4>4. QED
        BY <4>2, <4>3
    <3>5. Ordered(y) /\ Handled(y) /\ Whole(y, disk')
      BY <1>4, <1>6, <1>8, <3>1 DEF Working, Ordered, Handled, Whole, Late
    <3>6. QED
      BY <3>4, <3>5 DEF Working
  <2>3. QED
    BY <1>1, <1>6, <2>1, <2>2, InTurnKept DEF WInv
<1>13. Closed'
  BY <1>1, <1>2, <1>6, <1>8, ClosedKept DEF WInv
<1>14. ASSUME NEW s \in Scans \ shared, status[s] = "COMPLETED" PROVE x.scan # s
  BY <1>2, <1>3, <1>14 DEF WInv, Closed
<1>15. ASSUME NEW s \in Scans, NEW u \in Tables(s), NEW s1 \in Scans \ shared,
              status[s1] = "COMPLETED", bucket'[Key(s, u)].by = s1
       PROVE  bucket'[Key(s, u)] = bucket[Key(s, u)]
  <2>1. Key(s, u) \in Orgs \X AllTables
    BY <1>9, <1>10
  <2>2. object.by = x.scan
    OBVIOUS
  <2> HIDE DEF object
  <2>3. QED
    BY <1>7, <1>14, <1>15, <2>1, <2>2
<1>16. PublishedWhole'
  <2> SUFFICES ASSUME NEW s \in Scans \ shared, status[s] = "COMPLETED",
                      NEW u \in Tables(s), bucket'[Key(s, u)].by = s
               PROVE  bucket'[Key(s, u)].rows = Rows(s, Maker(s, u), u)
    BY <1>6 DEF PublishedWhole, Stored
  <2>1. bucket'[Key(s, u)] = bucket[Key(s, u)]
    BY <1>15
  <2>2. QED
    BY <2>1 DEF WInv, PublishedWhole, Stored
<1>17. NotMixed'
  <2> SUFFICES ASSUME NEW s1 \in Scans \ shared, NEW s2 \in Scans \ shared, s1 # s2,
                      status[s1] = "COMPLETED", status[s2] = "COMPLETED",
                      NEW t1 \in Tables(s1) \cap Tables(s2), NEW t2 \in Tables(s1) \cap Tables(s2),
                      bucket'[Key(s1, t1)].by = s1, bucket'[Key(s1, t2)].by = s2
               PROVE  FALSE
    BY <1>6 DEF NotMixed, Stored
  <2>1. bucket'[Key(s1, t1)] = bucket[Key(s1, t1)] /\ bucket'[Key(s1, t2)] = bucket[Key(s1, t2)]
    BY <1>15
  <2>2. QED
    BY <2>1 DEF WInv, NotMixed, Stored
<1>18. Signed'
  <2>1. object.by = x.scan
    OBVIOUS
  <2> HIDE DEF object
  <2>2. QED
    BY <1>5, <1>7, <2>1 DEF WInv, Signed
<1>19. QED
  BY <1>11, <1>12, <1>13, <1>16, <1>17, <1>18 DEF WInv

(* A request ends: it fails, or its process dies. *)
LEMMA WholeEnds ==
  ASSUME PInv, WInv, NEW w \in Workers, Fail(w) \/ Crash(w)
  PROVE  WInv'
<1>1. /\ worker' = [worker EXCEPT ![w] = Idle] /\ UNCHANGED <<disk, bucket, left, shared>>
      /\ \/ status' = status
         \/ status' = [status EXCEPT ![worker[w].scan] = "FAILED"]
  BY DEF Fail, Crash
<1>2. \A s \in Scans : status'[s] = "COMPLETED" => status[s] = "COMPLETED"
  <2>1. status \in [Scans -> Reached]
    BY DEF PInv, Shape
  <2>2. QED
    BY <1>1, <2>1
<1>3. /\ worker \in [Workers -> Request]
      /\ \A v \in Workers : worker[v].mode = "upload" => worker[v].scan \in Scans
  BY WholeAtWorker
<1>4. QED
  BY <1>1, <1>2, <1>3, IdleIsNoPublisher, WholeStep

(* A status is written by a request of another kind. *)
LEMMA WholeScanStep ==
  ASSUME PInv, WInv, NEW s \in Scans, DetectCrashed(s) \/ CancelScan(s) \/ ResumeScan(s)
  PROVE  WInv'
<1>1. /\ UNCHANGED <<disk, bucket, worker, shared>>
      /\ \E st \in {"FAILED", "CANCELLED", "EXTRACTED"} : status' = [status EXCEPT ![s] = st]
  BY DEF DetectCrashed, CancelScan, ResumeScan
<1>2. \A z \in Scans : status'[z] = "COMPLETED" => status[z] = "COMPLETED"
  <2>1. status \in [Scans -> Reached]
    BY DEF PInv, Shape
  <2>2. QED
    BY <1>1, <2>1
<1>3. PublishedWhole' /\ NotMixed' /\ Signed'
  BY <1>1, <1>2, ResultsKept DEF WInv
<1>4. Company' /\ InTurn' /\ Closed'
  BY <1>1, <1>2 DEF WInv, Company, Alone, InTurn, Publisher, Closed
<1>5. QED
  BY <1>3, <1>4 DEF WInv

LEMMA WholeNext == PInv /\ WInv /\ [Next]_vars => WInv'
<1> SUFFICES ASSUME PInv, WInv, [Next]_vars PROVE WInv'
  OBVIOUS
<1>1. CASE UNCHANGED vars
  BY <1>1 DEF vars, WInv, Company, Alone, InTurn, Publisher, Closed, Signed, PublishedWhole,
              NotMixed, Stored
<1>2. ASSUME NEW w \in Workers, NEW s \in Scans,
             NormalizeScan(w, s) \/ NormalizeSingleObject(w, s)
      PROVE  WInv'
  BY <1>2, WholeRequest
<1>3. ASSUME NEW w \in Workers, SetStatus(w) PROVE WInv'
  BY <1>3, WholeSetStatus
<1>4. ASSUME NEW w \in Workers, Heartbeat(w) PROVE WInv'
  BY <1>4, WholeHeartbeat
<1>5. ASSUME NEW w \in Workers, NextFile(w) PROVE WInv'
  BY <1>5, WholeNextFile
<1>6. ASSUME NEW w \in Workers, OpenTable(w) PROVE WInv'
  BY <1>6, WholeOpenTable
<1>7. ASSUME NEW w \in Workers, WriteTable(w) PROVE WInv'
  BY <1>7, WholeWriteTable
<1>8. ASSUME NEW w \in Workers, UploadTable(w) PROVE WInv'
  BY <1>8, WholeUploadTable
<1>9. ASSUME NEW w \in Workers, Fail(w) \/ Crash(w) PROVE WInv'
  BY <1>9, WholeEnds
<1>10. ASSUME NEW s \in Scans, DetectCrashed(s) \/ CancelScan(s) \/ ResumeScan(s) PROVE WInv'
  BY <1>10, WholeScanStep
<1>11. CASE Quiet
  BY <1>1, <1>11 DEF Quiet
<1>12. QED
  BY <1>1, <1>2, <1>3, <1>4, <1>5, <1>6, <1>7, <1>8, <1>9, <1>10, <1>11 DEF Next

(* Of a completed scan that no two requests worked on at once, the objects *)
(* under its name hold what its files make, for any number of scans, files *)
(* and processes, and wherever earlier attempts broke off.                 *)
THEOREM PublicationIsWhole == Spec => []PublishedWhole
<1>1. Spec => []WInv
  BY WholeInit, WholeNext, Invariance, PTL DEF Spec
<1>2. WInv => PublishedWhole
  BY DEF WInv
<1>3. QED
  BY <1>1, <1>2, PTL

(* Of two completed scans of an organization, neither published at the     *)
(* same time as another, the later one replaced all tables they both have. *)
THEOREM LaterReplacesAll == Spec => []NotMixed
<1>1. Spec => []WInv
  BY WholeInit, WholeNext, Invariance, PTL DEF Spec
<1>2. WInv => NotMixed
  BY DEF WInv
<1>3. QED
  BY <1>1, <1>2, PTL

=============================================================================
