---------------------------- MODULE BulkDownload ----------------------------
(***************************************************************************)
(* Downloading the result of one Bulk API job into <object>.csv: the pages *)
(* of the result are followed by their locators and streamed into          *)
(* <object>.csv.part, which is renamed when complete; a failed attempt     *)
(* removes the part file and retry_call starts over.  A worker gives way   *)
(* to the others whenever it waits for the next chunk.                     *)
(*                                                                         *)
(* A file is an inode: a worker writes through the descriptor it opened,   *)
(* whatever the part name denotes by then.                                 *)
(***************************************************************************)
EXTENDS Integers

CONSTANTS Workers,     \* workflows downloading this object
          Inodes,      \* enough of them for every worker and the result
          NoFile,
          Pages,       \* pages of the result
          Chunks,      \* chunks the stream of a page arrives in
          MaxRetries   \* EXTERNAL_CALL_MAX_RETRIES

ASSUME DownloadAssumption ==
  /\ NoFile \notin Inodes
  /\ Pages \in Nat \ {0} /\ Chunks \in Nat \ {0} /\ MaxRetries \in Nat

(* Positions in the file, and the chunks of the result in their order.     *)
Length == Pages * Chunks

Hole == 0

VARIABLES content,  \* content[i][n]: the chunk at position n of inode i
          part,     \* the inode named <object>.csv.part
          dest,     \* the inode named <object>.csv
          worker,   \* worker[w]: what workflow w is doing
          locator,  \* locator[w]: last_result_meta of its client: the next page
          shared    \* history: a worker opened the part file while another
                    \* was writing to it

vars == <<content, part, dest, worker, locator, shared>>

WorkerState ==
  [place   : {"open", "stream", "backoff", "returned", "raised", "cancelled"},
   fd      : Inodes \cup {NoFile},
   written : 0..Length,    \* position of the descriptor
   chunk   : 0..Length,    \* last chunk received
   attempt : 0..MaxRetries]

TypeOK ==
  /\ content \in [Inodes -> [1..Length -> 0..Length]]
  /\ part \in Inodes \cup {NoFile}
  /\ dest \in Inodes \cup {NoFile}
  /\ worker \in [Workers -> WorkerState]
  /\ locator \in [Workers -> 0..Pages]
  /\ shared \in BOOLEAN

(* The locator of the page after p; the last page has none. *)
NextLocator(p) == IF p = Pages THEN 0 ELSE p + 1

Empty == [n \in 1..Length |-> Hole]

Init ==
  /\ content = [i \in Inodes |-> Empty]
  /\ part = NoFile
  /\ dest = NoFile
  /\ worker = [w \in Workers |-> [place |-> "open", fd |-> NoFile,
                                  written |-> 0, chunk |-> 0, attempt |-> 0]]
  /\ locator = [w \in Workers |-> 0]
  /\ shared = FALSE

At(w, place) == worker[w].place = place

Free == {i \in Inodes : i # part /\ i # dest /\ \A w \in Workers : worker[w].fd # i}

(* A bug: an attempt goes on from the locator the one before it stored.    *)
ReusesLocator(w) ==
  LET first == IF locator[w] = 0 THEN 0 ELSE (locator[w] - 1) * Chunks IN
  /\ At(w, "open")
  /\ \E i \in IF part = NoFile THEN Free ELSE {part} :
       /\ part' = i
       /\ content' = [content EXCEPT ![i] = Empty]
       /\ worker' = [worker EXCEPT ![w].place = "stream", ![w].fd = i,
                                   ![w].written = 0, ![w].chunk = first]
  /\ shared' = (shared \/ \E v \in Workers : At(v, "stream"))
  /\ UNCHANGED <<dest, locator>>

(* open("wb"): the part file is truncated, or created.  The iteration over *)
(* the pages starts without a locator.                                     *)
Open(w) ==
  /\ At(w, "open")
  /\ \E i \in IF part = NoFile THEN Free ELSE {part} :
       /\ part' = i
       /\ content' = [content EXCEPT ![i] = Empty]
       /\ worker' = [worker EXCEPT ![w].place = "stream", ![w].fd = i,
                                   ![w].written = 0, ![w].chunk = 0]
  /\ shared' = (shared \/ \E v \in Workers : At(v, "stream"))
  /\ UNCHANGED <<dest, locator>>

(* Another chunk arrives and is written; the end of a page's stream stores *)
(* the locator of the next page, which is asked for if there is one.       *)
Write(w) ==
  LET x == worker[w]
      next == x.chunk + 1 IN
  /\ At(w, "stream") /\ x.chunk < Length
  /\ content' = [content EXCEPT ![x.fd][x.written + 1] = next]
  /\ worker' = [worker EXCEPT ![w].written = @ + 1, ![w].chunk = next]
  /\ locator' = IF next % Chunks = 0
                THEN [locator EXCEPT ![w] = NextLocator(next \div Chunks)]
                ELSE locator
  /\ UNCHANGED <<part, dest, shared>>

(* A bug: the part file stays. *)
LeavesPart(w, retryable) ==
  /\ worker' = [worker EXCEPT
                  ![w].fd = NoFile,
                  ![w].place = IF retryable /\ worker[w].attempt < MaxRetries
                               THEN "backoff" ELSE "raised"]
  /\ UNCHANGED <<content, part, dest, locator, shared>>

(* A bug: no limit on the attempts. *)
NeverGivesUp(w, retryable) ==
  /\ part' = NoFile
  /\ worker' = [worker EXCEPT ![w].fd = NoFile,
                              ![w].place = IF retryable THEN "backoff" ELSE "raised"]
  /\ UNCHANGED <<content, dest, locator, shared>>

(* The attempt fails: the part file goes, and retry_call retries or gives  *)
(* up.                                                                     *)
Abandon(w, retryable) ==
  /\ part' = NoFile
  /\ worker' = [worker EXCEPT
                  ![w].fd = NoFile,
                  ![w].place = IF retryable /\ worker[w].attempt < MaxRetries
                               THEN "backoff" ELSE "raised"]
  /\ UNCHANGED <<content, dest, locator, shared>>

StreamError(w) ==
  /\ At(w, "stream")
  /\ \E retryable \in BOOLEAN : Abandon(w, retryable)

Backoff(w) ==
  /\ At(w, "backoff")
  /\ worker' = [worker EXCEPT ![w].place = "open", ![w].attempt = @ + 1]
  /\ UNCHANGED <<content, part, dest, locator, shared>>

(* All pages are in: the part file is opened again to count its rows, a    *)
(* malformed one is refused, and renamed.  When another worker has renamed *)
(* or removed it, opening it raises an OSError.                            *)
Finish(w) ==
  /\ At(w, "stream") /\ worker[w].chunk = Length
  /\ part # NoFile
  /\ dest' = part
  /\ part' = NoFile
  /\ worker' = [worker EXCEPT ![w].place = "returned", ![w].fd = NoFile]
  /\ UNCHANGED <<content, locator, shared>>

PartIsGone(w) ==
  /\ At(w, "stream") /\ worker[w].chunk = Length
  /\ part = NoFile
  /\ Abandon(w, TRUE)

Malformed(w) ==
  /\ At(w, "stream") /\ worker[w].chunk = Length
  /\ Abandon(w, FALSE)

(* The task is cancelled while it waits: a cancellation is not an          *)
(* Exception, so the part file stays.                                      *)
Cancel(w) ==
  /\ worker[w].place \in {"stream", "backoff"}
  /\ worker' = [worker EXCEPT ![w].place = "cancelled", ![w].fd = NoFile]
  /\ UNCHANGED <<content, part, dest, locator, shared>>

Over == \A w \in Workers : worker[w].place \in {"returned", "raised", "cancelled"}

Finished == Over /\ UNCHANGED vars

Next ==
  \/ \E w \in Workers :
       \/ Open(w)
       \/ Write(w)
       \/ StreamError(w)
       \/ Backoff(w)
       \/ Finish(w)
       \/ PartIsGone(w)
       \/ Malformed(w)
       \/ Cancel(w)
  \/ Finished

Spec == Init /\ [][Next]_vars

-----------------------------------------------------------------------------

(* Unless two workers wrote to one part file, what stands under the final  *)
(* name is the whole result in order: no page is missing or doubled,       *)
(* however many attempts there were, whichever chunk each of them broke    *)
(* off at, and whatever a cancelled worker had left under the part name.   *)
PublishedIsComplete ==
  ~shared /\ dest # NoFile => \A n \in 1..Length : content[dest][n] = n

(* A worker that returned has published a file, and one that gave up has   *)
(* taken its part file away, also when two workers share the part name:    *)
(* remains are left by cancelled tasks only.                               *)
NoRemains ==
  /\ Over /\ (\A w \in Workers : ~At(w, "cancelled")) => part = NoFile
  /\ (\E w \in Workers : At(w, "returned")) => dest # NoFile

=============================================================================
