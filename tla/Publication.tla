----------------------------- MODULE Publication -----------------------------
(***************************************************************************)
(* From the CSV files of extracted scans to tables in the object store:    *)
(* the normalizers and the tables they make, normalize_scan (one request   *)
(* per scan, it goes through all its files), normalize_single_object, and  *)
(* the upload of the tables under keys made of table, organization and     *)
(* processing date.  The keys here are those of one date.                  *)
(*                                                                         *)
(* Neither request awaits anything, so a worker process handles one at a   *)
(* time; requests of different processes interleave at every file, table   *)
(* and status write.  ScanPipeline has the single SQL statements of the    *)
(* latter; here a status is decided on the copy the session holds, and     *)
(* written, in one step.                                                   *)
(***************************************************************************)
EXTENDS JobStatus

CONSTANTS Scans,
          Orgs,
          Workers,      \* uvicorn workers
          OrgOf,        \* OrgOf[s]: the organization of scan s
          Csv,          \* Csv[s][o]: the records in <o>.csv, by their features
          NoTable,      \* there is no such file; nobody
          Torn,         \* a file opened for writing and not yet written
          MaxRequests   \* bound: requests to normalize or to cancel

(* What decides which tables a record has rows in: an address, an owner,   *)
(* an account, a start time.                                               *)
Features == {"address", "owner", "account", "start"}

(* The tables each normalizer makes, in the order it returns them.         *)
Registry ==
  [Account                |-> <<"accounts", "account_addresses", "account_teams">>,
   Contact                |-> <<"contacts", "contact_roles">>,
   Opportunity            |-> <<"opportunities">>,
   OpportunityLineItem    |-> <<"opportunity_line_items">>,
   OpportunityContactRole |-> <<"opportunity_contact_roles">>,
   Lead                   |-> <<"leads">>,
   Case                   |-> <<"cases">>,
   CaseComment            |-> <<"case_comments">>,
   Task                   |-> <<"tasks", "events">>,
   Event                  |-> <<"tasks", "events">>,
   Campaign               |-> <<"campaigns">>,
   CampaignMember         |-> <<"campaign_members">>,
   User                   |-> <<"users">>]

(* The files of a directory in the order of their names.                   *)
Sorted == <<"Account", "Campaign", "CampaignMember", "Case", "CaseComment",
            "Contact", "Event", "Lead", "Opportunity",
            "OpportunityContactRole", "OpportunityLineItem", "Task", "User">>

ASSUME PublicationAssumption ==
  /\ NoTable # Torn /\ NoTable \notin Scans
  /\ OrgOf \in [Scans -> Orgs]
  /\ \A s \in Scans : /\ DOMAIN Csv[s] \subseteq DOMAIN Registry
                      /\ \A o \in DOMAIN Csv[s] : Csv[s][o] \subseteq SUBSET Features
  /\ MaxRequests \in Nat

TablesOf(o) == {Registry[o][i] : i \in 1..Len(Registry[o])}

AllTables == UNION {TablesOf(o) : o \in DOMAIN Registry}

(* get_file_info: every extracted object has a normalizer, since the       *)
(* queries know the same objects.                                          *)
FilesOf(s) == DOMAIN Csv[s]

IsFirst(o, files) ==
  \E i \in 1..Len(Sorted) : Sorted[i] = o /\ \A j \in 1..(i - 1) : Sorted[j] \notin files

IsLast(o, files) ==
  \E i \in 1..Len(Sorted) :
    Sorted[i] = o /\ \A j \in (i + 1)..Len(Sorted) : Sorted[j] \notin files

(* The feature a record needs for a row in a table that not all have one in. *)
Needs == [account_addresses |-> "address", account_teams |-> "owner",
          contact_roles |-> "account", events |-> "start"]

HasRow(t, f) ==
  CASE t \in DOMAIN Needs -> Needs[t] \in f
    [] t = "tasks" -> "start" \notin f
    [] OTHER -> TRUE

(* normalize: a row is known by its scan, its object and the record.       *)
Rows(s, o, t) == {[scan |-> s, object |-> o, record |-> f] :
                    f \in {g \in Csv[s][o] : HasRow(t, g)}}

Row == [scan : Scans, object : DOMAIN Registry, record : SUBSET Features]

(* A bug: the partition is the date alone. *)
KeyOfDate(s, t) == <<CHOOSE org \in Orgs : TRUE, t>>

(* The object key of upload_normalized_data. *)
Key(s, t) == <<OrgOf[s], t>>

VARIABLES status,   \* status[s]: the row of the scan
          disk,     \* disk[s][t]: the file normalized/<t>
          bucket,   \* bucket[k]: what the object store has under a key
          worker,   \* worker[w]: the request worker process w handles
          left,     \* such requests that may still arrive
          shared    \* history: scans whose files or keys two requests
                    \* worked on at the same time

vars == <<status, disk, bucket, worker, left, shared>>

-----------------------------------------------------------------------------

(* Places that write a status, and where they lead. *)
Mark == [mark_normalizing |-> "NORMALIZING",
         mark_normalized  |-> "NORMALIZED",
         mark_uploading   |-> "UPLOADING_TO_MINIO",
         mark_uploaded    |-> "UPLOADED_TO_MINIO",
         mark_completed   |-> "COMPLETED"]

(* Heartbeats between two status writes.                                   *)
Beats == {"beat_uploading", "beat_uploaded"}

(* upload_normalized_data goes on while there are tables.                  *)
Uploading(paths) == IF paths = <<>> THEN "mark_uploaded" ELSE "upload"

Idle == [place |-> "idle", scan |-> NoTable, mode |-> "none", seen |-> "none",
         files |-> {}, object |-> NoTable, tables |-> <<>>, paths |-> <<>>]

NoObject == [by |-> NoTable, rows |-> {}]

(* "upload" and "save" are the options upload_to_minio and save_to_disk of *)
(* normalize_scan, "stats" is neither; "one" is normalize_single_object.   *)
WorkerOK(x) ==
  \/ x = Idle
  \/ /\ x.place \in DOMAIN Mark \cup Beats \cup {"next_file", "open", "write", "upload"}
     /\ x.scan \in Scans
     /\ x.mode \in {"upload", "save", "stats", "one"}
     /\ x.seen \in Status
     /\ x.files \subseteq FilesOf(x.scan)
     /\ \A i \in 1..Len(x.paths) : x.paths[i] \in AllTables

(* A scan that may be normalized has been extracted, and stays so.         *)
Reached == {"EXTRACTED", "NORMALIZING", "NORMALIZED", "UPLOADING_TO_MINIO",
            "UPLOADED_TO_MINIO", "COMPLETED", "FAILED", "CANCELLED"}

TypeOK ==
  /\ status \in [Scans -> Reached]
  /\ DOMAIN disk = Scans
  /\ \A s \in Scans : /\ DOMAIN disk[s] = AllTables
                      /\ \A t \in AllTables : \/ disk[s][t] \in {NoTable, Torn}
                                              \/ disk[s][t] \subseteq Row
  /\ DOMAIN bucket = Orgs \X AllTables
  /\ \A k \in Orgs \X AllTables :
       \/ bucket[k] = NoObject
       \/ bucket[k].by \in Scans /\ (bucket[k].rows = Torn \/ bucket[k].rows \subseteq Row)
  /\ \A w \in Workers : WorkerOK(worker[w])
  /\ left \in 0..MaxRequests
  /\ shared \subseteq Scans

Init ==
  /\ status = [s \in Scans |-> "EXTRACTED"]
  /\ disk = [s \in Scans |-> [t \in AllTables |-> NoTable]]
  /\ bucket = [k \in Orgs \X AllTables |-> NoObject]
  /\ worker = [w \in Workers |-> Idle]
  /\ left = MaxRequests
  /\ shared = {}

At(w, place) == worker[w].place = place

-----------------------------------------------------------------------------
(* Requests *)

(* Requests that are handled at the same time and have a file or a key in  *)
(* common: the scan is the same, or both normalize scans of one            *)
(* organization.                                                           *)
Meets(x, s, mode) ==
  /\ x # Idle
  /\ \/ x.scan = s
     \/ x.mode # "one" /\ mode # "one" /\ OrgOf[x.scan] = OrgOf[s]

Arrive(w, s, x) ==
  LET met == {worker[v].scan : v \in {v \in Workers : Meets(worker[v], s, x.mode)}} IN
  /\ At(w, "idle") /\ left > 0
  /\ left' = left - 1
  /\ worker' = [worker EXCEPT ![w] = x]
  /\ shared' = IF met = {} THEN shared ELSE shared \cup met \cup {s}
  /\ UNCHANGED <<status, disk, bucket>>

(* normalize_scan requires an EXTRACTED scan. *)
NormalizeScan(w, s) ==
  /\ status[s] = "EXTRACTED"
  /\ \E mode \in {"upload", "save", "stats"} :
       Arrive(w, s, [Idle EXCEPT !.place = "mark_normalizing", !.scan = s,
                                 !.mode = mode, !.seen = status[s],
                                 !.files = FilesOf(s)])

(* normalize_single_object asks for a file of the object, and nothing of   *)
(* the status.                                                             *)
NormalizeSingleObject(w, s) ==
  \E o \in DOMAIN Csv[s] :
    Arrive(w, s, [Idle EXCEPT !.place = "open", !.scan = s, !.mode = "one",
                              !.seen = status[s], !.object = o,
                              !.tables = Registry[o]])

(* update_job_status: a refused transition changes nothing, and the caller *)
(* goes on either way.                                                     *)
SetStatus(w) ==
  LET x == worker[w]
      target == Mark[x.place]
      accepted == IsValidTransition(x.seen, target)
      next == CASE x.place = "mark_normalizing" -> "next_file"
                [] x.place = "mark_normalized" -> IF x.mode = "upload" THEN "mark_uploading" ELSE "idle"
                [] x.place = "mark_uploading" -> "beat_uploading"
                [] x.place = "mark_uploaded" -> "beat_uploaded"
                [] x.place = "mark_completed" -> "idle" IN
  /\ x.place \in DOMAIN Mark
  /\ status' = IF accepted THEN [status EXCEPT ![x.scan] = target] ELSE status
  /\ worker' = [worker EXCEPT ![w] =
                  IF next = "idle" THEN Idle
                  ELSE [x EXCEPT !.place = next, !.seen = IF accepted THEN target ELSE @]]
  /\ UNCHANGED <<disk, bucket, left, shared>>

(* update_heartbeat refreshes the session's copy of the row.               *)
Heartbeat(w) ==
  LET x == worker[w] IN
  /\ x.place \in Beats
  /\ worker' = [worker EXCEPT ![w].seen = status[x.scan],
                  ![w].place = IF x.place = "beat_uploaded" THEN "mark_completed"
                               ELSE Uploading(x.paths)]
  /\ UNCHANGED <<status, disk, bucket, left, shared>>

(* The next CSV file is read and normalized between two heartbeats.        *)
NextFile(w) ==
  LET x == worker[w] IN
  /\ At(w, "next_file")
  /\ \/ /\ x.files = {}
        /\ worker' = [worker EXCEPT ![w].place = "mark_normalized"]
     \/ \E o \in x.files :
          /\ IsFirst(o, x.files)
          /\ worker' = [worker EXCEPT ![w] =
               [x EXCEPT !.seen = status[x.scan], !.files = @ \ {o}, !.object = o,
                         !.tables = Registry[o],
                         !.place = IF x.mode = "stats" THEN "next_file" ELSE "open"]]
  /\ UNCHANGED <<status, disk, bucket, left, shared>>

(* Where save_to_files leads once the rows of a table are written.         *)
Saved(x) ==
  LET t == Head(x.tables)
      known == \E i \in 1..Len(x.paths) : x.paths[i] = t
      y == [x EXCEPT !.tables = Tail(@), !.paths = IF known THEN @ ELSE Append(@, t)] IN
  IF y.tables # <<>> THEN [y EXCEPT !.place = "open"]
  ELSE IF x.mode = "one" THEN Idle
  ELSE [y EXCEPT !.place = "next_file"]

(* A bug: a file that exists is left as it is. *)
KeepsFile(w) ==
  LET x == worker[w]
      t == Head(x.tables) IN
  /\ At(w, "open")
  /\ disk' = [disk EXCEPT ![x.scan][t] = IF @ = NoTable THEN Torn ELSE @]
  /\ worker' = [worker EXCEPT ![w] = IF disk[x.scan][t] = NoTable
                                    THEN [x EXCEPT !.place = "write"] ELSE Saved(x)]
  /\ UNCHANGED <<status, bucket, left, shared>>

(* save_to_files opens the file of a table, which truncates it, ...        *)
OpenTable(w) ==
  LET x == worker[w] IN
  /\ At(w, "open")
  /\ disk' = [disk EXCEPT ![x.scan][Head(x.tables)] = Torn]
  /\ worker' = [worker EXCEPT ![w].place = "write"]
  /\ UNCHANGED <<status, bucket, left, shared>>

(* ... and writes the rows. *)
WriteTable(w) ==
  LET x == worker[w] IN
  /\ At(w, "write")
  /\ disk' = [disk EXCEPT ![x.scan][Head(x.tables)] =
                Rows(x.scan, x.object, Head(x.tables))]
  /\ worker' = [worker EXCEPT ![w] = Saved(x)]
  /\ UNCHANGED <<status, bucket, left, shared>>

(* A bug: an upload that failed is only logged. *)
SkipsFailedUpload(w) ==
  LET x == worker[w]
      t == Head(x.paths) IN
  /\ At(w, "upload")
  /\ bucket' \in {bucket, [bucket EXCEPT ![Key(x.scan, t)] =
                             [by |-> x.scan, rows |-> disk[x.scan][t]]]}
  /\ worker' = [worker EXCEPT ![w].paths = Tail(@),
                  ![w].place = Uploading(Tail(x.paths))]
  /\ UNCHANGED <<status, disk, left, shared>>

(* A bug: empty tables are not uploaded. *)
SkipsEmptyTable(w) ==
  LET x == worker[w]
      t == Head(x.paths) IN
  /\ At(w, "upload")
  /\ bucket' = IF disk[x.scan][t] = {} THEN bucket
               ELSE [bucket EXCEPT ![Key(x.scan, t)] =
                       [by |-> x.scan, rows |-> disk[x.scan][t]]]
  /\ worker' = [worker EXCEPT ![w].paths = Tail(@),
                  ![w].place = Uploading(Tail(x.paths))]
  /\ UNCHANGED <<status, disk, left, shared>>

(* upload_file: the file as it is now goes under the key.                  *)
UploadTable(w) ==
  LET x == worker[w]
      t == Head(x.paths) IN
  /\ At(w, "upload")
  /\ bucket' = [bucket EXCEPT ![Key(x.scan, t)] =
                  [by |-> x.scan, rows |-> disk[x.scan][t]]]
  /\ worker' = [worker EXCEPT ![w].paths = Tail(@),
                  ![w].place = Uploading(Tail(x.paths))]
  /\ UNCHANGED <<status, disk, left, shared>>

(* Reading, writing or an upload raises: normalize_scan fails the job,     *)
(* normalize_single_object only answers.                                   *)
Fail(w) ==
  LET x == worker[w] IN
  /\ x.place \in {"next_file", "open", "write", "upload"}
  /\ status' = IF x.mode # "one" /\ x.seen \notin Terminal
               THEN [status EXCEPT ![x.scan] = "FAILED"] ELSE status
  /\ worker' = [worker EXCEPT ![w] = Idle]
  /\ UNCHANGED <<disk, bucket, left, shared>>

(* detect_crashed_jobs, whether or not the worker of the scan is alive.    *)
DetectCrashed(s) ==
  /\ status[s] \in InProgress
  /\ status' = [status EXCEPT ![s] = "FAILED"]
  /\ UNCHANGED <<disk, bucket, worker, left, shared>>

(* cancel_scan, of a scan at rest or in the middle of anything.            *)
CancelScan(s) ==
  /\ status[s] \notin Terminal /\ left > 0
  /\ left' = left - 1
  /\ status' = [status EXCEPT ![s] = "CANCELLED"]
  /\ UNCHANGED <<disk, bucket, worker, shared>>

(* A bug: every resume goes back to the files. *)
ReextractsScan(s) ==
  /\ status[s] \in {"FAILED", "CANCELLED"}
  /\ status' = [status EXCEPT ![s] = "EXTRACTING"]
  /\ UNCHANGED <<disk, bucket, worker, left, shared>>

(* resume_scan of an extracted scan: it may be normalized again.           *)
ResumeScan(s) ==
  /\ status[s] \in {"FAILED", "CANCELLED"}
  /\ status' = [status EXCEPT ![s] = "EXTRACTED"]
  /\ UNCHANGED <<disk, bucket, worker, left, shared>>

(* A worker process dies. *)
Crash(w) ==
  /\ ~At(w, "idle")
  /\ worker' = [worker EXCEPT ![w] = Idle]
  /\ UNCHANGED <<status, disk, bucket, left, shared>>

Quiet == (\A w \in Workers : At(w, "idle")) /\ UNCHANGED vars

Next ==
  \/ \E w \in Workers, s \in Scans : NormalizeScan(w, s) \/ NormalizeSingleObject(w, s)
  \/ \E w \in Workers :
       \/ SetStatus(w)
       \/ Heartbeat(w)
       \/ NextFile(w)
       \/ OpenTable(w)
       \/ WriteTable(w)
       \/ UploadTable(w)
       \/ Fail(w)
       \/ Crash(w)
  \/ \E s \in Scans : DetectCrashed(s) \/ CancelScan(s) \/ ResumeScan(s)
  \/ Quiet

Spec == Init /\ [][Next]_vars

-----------------------------------------------------------------------------
Tables(s) == UNION {TablesOf(o) : o \in DOMAIN Csv[s]}

Stored(s, t) == bucket[Key(s, t)]

(* Of the files that make a table the last one by name decides its rows:   *)
(* all_tables.update and save_to_files overwrite.                          *)
Maker(s, t) ==
  LET made == {o \in FilesOf(s) : t \in TablesOf(o)} IN
  CHOOSE o \in made : IsLast(o, made)

(* What stands under the keys of an organization was made from scans of    *)
(* that organization.                                                      *)
OrganizationsApart ==
  \A k \in Orgs \X AllTables :
    bucket[k].rows # Torn => \A r \in bucket[k].rows : OrgOf[r.scan] = k[1]

(* A completed scan has an object under the key of each of its tables,     *)
(* however many requests normalized it at once and wherever they failed.   *)
CompletedIsPublished ==
  \A s \in Scans : status[s] = "COMPLETED" => \A t \in Tables(s) : Stored(s, t) # NoObject

(* Of a completed scan that no two requests worked on at the same time,    *)
(* the objects hold exactly the tables its files make: nothing torn by a   *)
(* crash, nothing kept of an earlier attempt.                              *)
PublishedWhole ==
  \A s \in Scans \ shared : status[s] = "COMPLETED" =>
    \A t \in Tables(s) :
      Stored(s, t).by = s => Stored(s, t).rows = Rows(s, Maker(s, t), t)

(* Two completed scans of an organization that were not published at the   *)
(* same time are not mixed: the later one replaced all they have in common.*)
NotMixed ==
  \A s1, s2 \in Scans \ shared :
    status[s1] = "COMPLETED" /\ status[s2] = "COMPLETED" /\ s1 # s2 =>
      \A t1, t2 \in Tables(s1) \cap Tables(s2) :
        Stored(s1, t1).by = s1 => Stored(s1, t2).by # s2

-----------------------------------------------------------------------------
(* The README's table of objects says which tables the records of each     *)
(* object go to: a completed scan's records are there.                     *)
EveryRowPublished ==
  \A s \in Scans \ shared : status[s] = "COMPLETED" =>
    \A o \in DOMAIN Csv[s] : \A t \in TablesOf(o) :
      Stored(s, t).by = s => Rows(s, o, t) \subseteq Stored(s, t).rows

=============================================================================
