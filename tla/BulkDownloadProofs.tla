-------------------------- MODULE BulkDownloadProofs --------------------------
(***************************************************************************)
(* The file under the final name, for any number of workers, pages,        *)
(* chunks and retries.                                                     *)
(*                                                                         *)
(* The argument: as long as no two workers wrote to one part file, at most *)
(* one worker streams, its descriptor is the part file, and the chunks it  *)
(* has written stand at their positions (Alone).  So the part file it      *)
(* renames is whole.  Whatever was shared, a part file is there only while *)
(* a worker streams or after one was cancelled (Remains).                  *)
(***************************************************************************)
EXTENDS BulkDownload, TLAPS

Streaming(w) == At(w, "stream")

(* What holds of a worker by itself. *)
Progress ==
  \A w \in Workers :
    /\ worker[w].written = worker[w].chunk
    /\ Streaming(w) => worker[w].fd \in Inodes
    /\ At(w, "backoff") => worker[w].attempt < MaxRetries

(* Chunks 1 to n of the result are in inode i, in order. *)
Holds(c, i, n) == \A m \in 1..n : c[i][m] = m

Alone ==
  ~shared =>
    /\ \A v, w \in Workers : Streaming(v) /\ Streaming(w) => v = w
    /\ \A w \in Workers : Streaming(w) =>
         worker[w].fd = part /\ Holds(content, part, worker[w].written)

Remains ==
  /\ part # NoFile => \E w \in Workers : Streaming(w) \/ At(w, "cancelled")
  /\ \A w \in Workers : At(w, "returned") => dest # NoFile

DInv ==
  /\ TypeOK
  /\ Progress
  /\ part # NoFile => part # dest
  /\ Alone
  /\ Remains
  /\ PublishedIsComplete

-----------------------------------------------------------------------------
(* Positions and pages *)

LEMMA LengthIsNat == Length \in Nat \ {0}
BY DownloadAssumption DEF Length

(* A chunk belongs to a page of the result. *)
LEMMA PageOfChunk ==
  ASSUME NEW k \in 1..Length
  PROVE  (k \div Chunks) \in 0..Pages
<1>1. /\ Pages \in Nat \ {0} /\ Chunks \in Nat \ {0} /\ k \in Nat \ {0} /\ k <= Pages * Chunks
  BY DownloadAssumption, LengthIsNat DEF Length
<1> DEFINE q == k \div Chunks
<1>2. q \in Nat /\ q * Chunks <= k
  BY <1>1
<1>3. q <= Pages
  BY <1>1, <1>2
<1>4. QED
  BY <1>2, <1>3, <1>1

LEMMA NextLocatorInPages == ASSUME NEW p \in 0..Pages PROVE NextLocator(p) \in 0..Pages
BY DownloadAssumption DEF NextLocator

-----------------------------------------------------------------------------
(* The steps *)

LEMMA InitHolds == Init => DInv
<1> SUFFICES ASSUME Init PROVE DInv
  OBVIOUS
<1>1. TypeOK
  <2>1. Empty \in [1..Length -> 0..Length]
    BY LengthIsNat DEF Empty, Hole
  <2>2. worker \in [Workers -> WorkerState]
    BY LengthIsNat, DownloadAssumption DEF Init, WorkerState
  <2>3. content \in [Inodes -> [1..Length -> 0..Length]]
    BY <2>1 DEF Init
  <2>4. 0 \in 0..Pages
    BY DownloadAssumption
  <2>5. locator \in [Workers -> 0..Pages]
    BY <2>4 DEF Init
  <2>6. part \in Inodes \cup {NoFile} /\ dest \in Inodes \cup {NoFile} /\ shared \in BOOLEAN
    BY DEF Init
  <2>7. QED
    BY <2>2, <2>3, <2>5, <2>6 DEF TypeOK
<1>2. QED
  BY <1>1 DEF Init, DInv, Progress, Streaming, At, Alone, Remains, PublishedIsComplete

(* The worker that moves, and the others. *)
LEMMA WorkerMoves ==
  ASSUME TypeOK, NEW w \in Workers, NEW y \in WorkerState,
         worker' = [worker EXCEPT ![w] = y]
  PROVE  /\ worker' \in [Workers -> WorkerState]
         /\ worker'[w] = y
         /\ \A v \in Workers : v # w => worker'[v] = worker[v]
BY DEF TypeOK

LEMMA OpenHolds ==
  ASSUME DInv, NEW w \in Workers, Open(w)
  PROVE  DInv'
<1>1. PICK i \in IF part = NoFile THEN Free ELSE {part} :
        /\ part' = i
        /\ content' = [content EXCEPT ![i] = Empty]
        /\ worker' = [worker EXCEPT ![w].place = "stream", ![w].fd = i,
                                    ![w].written = 0, ![w].chunk = 0]
  BY DEF Open
<1> DEFINE y == [worker[w] EXCEPT !.place = "stream", !.fd = i, !.written = 0, !.chunk = 0]
<1>2. TypeOK /\ worker[w] \in WorkerState /\ worker[w].place = "open"
  BY DEF DInv, TypeOK, Open, At
<1>3. i \in Inodes /\ i # NoFile /\ i # dest
  BY <1>1, DownloadAssumption DEF Free, DInv, TypeOK
<1>4. /\ y.place = "stream" /\ y.fd = i /\ y.written = 0 /\ y.chunk = 0
      /\ y \in WorkerState
  <2>1. 0 \in 0..Length
    BY LengthIsNat
  <2>2. QED
    BY <1>2, <1>3, <2>1 DEF WorkerState
<1>5. worker' = [worker EXCEPT ![w] = y]
  BY <1>1
<1>6. /\ worker' \in [Workers -> WorkerState] /\ worker'[w] = y
      /\ \A v \in Workers : v # w => worker'[v] = worker[v]
  BY <1>2, <1>4, <1>5, WorkerMoves
<1>7. /\ dest' = dest /\ locator' = locator /\ part' = i
      /\ shared' = (shared \/ \E v \in Workers : Streaming(v))
  BY <1>1 DEF Open, Streaming
<1>8. TypeOK'
  <2>1. Empty \in [1..Length -> 0..Length]
    BY LengthIsNat DEF Empty, Hole
  <2>2. content' \in [Inodes -> [1..Length -> 0..Length]]
    BY <1>1, <1>2, <2>1 DEF TypeOK
  <2>3. shared' \in BOOLEAN
    BY <1>7
  <2>4. QED
    BY <1>2, <1>3, <1>6, <1>7, <2>2, <2>3 DEF TypeOK
<1>9. Progress'
  BY <1>3, <1>4, <1>6 DEF DInv, Progress, Streaming, At
<1>10. Alone'
  <2> SUFFICES ASSUME ~shared'
               PROVE  /\ \A v \in Workers : Streaming(v)' => v = w
                      /\ worker'[w].fd = part' /\ Holds(content', part', worker'[w].written)
    BY DEF Alone, Streaming
  <2>1. \A v \in Workers : ~Streaming(v)
    BY <1>7
  <2>2. QED
    BY <1>4, <1>6, <1>7, <2>1 DEF Streaming, At, Holds
<1>11. Remains'
  <2>1. Streaming(w)'
    BY <1>4, <1>6 DEF Streaming, At
  <2>2. \A v \in Workers : At(v, "returned")' => At(v, "returned")
    BY <1>4, <1>6 DEF At
  <2>3. QED
    BY <1>7, <2>1, <2>2 DEF DInv, Remains
<1>12. PublishedIsComplete'
  BY <1>1, <1>2, <1>3, <1>7 DEF DInv, PublishedIsComplete, TypeOK
<1>13. QED
  BY <1>3, <1>7, <1>8, <1>9, <1>10, <1>11, <1>12 DEF DInv

LEMMA WriteHolds ==
  ASSUME DInv, NEW w \in Workers, Write(w)
  PROVE  DInv'
<1> DEFINE x == worker[w]
           next == x.chunk + 1
           y == [x EXCEPT !.written = @ + 1, !.chunk = next]
<1>1. /\ TypeOK /\ x \in WorkerState /\ x.place = "stream" /\ x.chunk < Length
      /\ x.written = x.chunk /\ x.fd \in Inodes
  BY DEF DInv, TypeOK, Progress, Streaming, Write, At
<1>2. next \in 1..Length /\ x.written + 1 = next /\ x.chunk \in 0..Length
  BY <1>1, LengthIsNat DEF WorkerState
<1>3. /\ y.place = "stream" /\ y.fd = x.fd /\ y.written = next /\ y.chunk = next
      /\ y \in WorkerState
  <2>1. next \in 0..Length
    BY <1>2
  <2>2. y = [x EXCEPT !.written = next, !.chunk = next]
    BY <1>2
  <2>3. QED
    BY <1>1, <2>1, <2>2 DEF WorkerState
<1>4. worker' = [worker EXCEPT ![w] = y] /\ UNCHANGED <<part, dest, shared>>
      /\ content' = [content EXCEPT ![x.fd][next] = next]
  BY <1>2 DEF Write
<1>5. /\ worker' \in [Workers -> WorkerState] /\ worker'[w] = y
      /\ \A v \in Workers : v # w => worker'[v] = worker[v]
  BY <1>1, <1>3, <1>4, WorkerMoves
<1>6. locator' \in [Workers -> 0..Pages]
  <2>1. NextLocator(next \div Chunks) \in 0..Pages
    BY <1>2, PageOfChunk, NextLocatorInPages
  <2>2. QED
    BY <1>1, <2>1 DEF Write, TypeOK
<1>7. /\ content' \in [Inodes -> [1..Length -> 0..Length]]
      /\ \A i \in Inodes : i # x.fd => content'[i] = content[i]
      /\ content'[x.fd][next] = next
      /\ \A m \in 1..Length : m # next => content'[x.fd][m] = content[x.fd][m]
  <2>1. content \in [Inodes -> [1..Length -> 0..Length]] /\ next \in 0..Length
    BY <1>1, <1>2 DEF TypeOK
  <2>2. [content[x.fd] EXCEPT ![next] = next] \in [1..Length -> 0..Length]
    BY <1>1, <2>1
  <2>3. QED
    BY <1>1, <1>2, <1>4, <2>1, <2>2
<1>8. TypeOK'
  BY <1>1, <1>4, <1>5, <1>6, <1>7 DEF TypeOK
<1>9. Progress'
  BY <1>1, <1>3, <1>5 DEF DInv, Progress, Streaming, At
<1>10. \A v \in Workers : \A q \in {"stream", "returned", "cancelled"} : At(v, q)' <=> At(v, q)
  BY <1>1, <1>3, <1>5 DEF At
<1>11. Alone'
  <2> SUFFICES ASSUME ~shared
               PROVE  /\ \A v \in Workers : Streaming(v) => v = w
                      /\ y.fd = part /\ Holds(content', part, next)
    BY <1>4, <1>5, <1>10, <1>3 DEF Alone, Streaming
  <2>1. /\ \A v \in Workers : Streaming(v) => v = w
        /\ x.fd = part /\ Holds(content, part, x.written)
    BY <1>1 DEF DInv, Alone, Streaming, At
  <2>2. \A m \in 1..next : m = next \/ m \in 1..x.written
    BY <1>1, <1>2
  <2>3. Holds(content', part, next)
    <3> SUFFICES ASSUME NEW m \in 1..next PROVE content'[part][m] = m
      BY DEF Holds
    <3>1. CASE m = next
      BY <1>7, <2>1, <3>1
    <3>2. CASE m # next
      <4>1. m \in 1..x.written /\ m \in 1..Length
        <5>1. m \in 1..x.written
          BY <2>2, <3>2
        <5>2. m \in 1..Length
          BY <1>2, LengthIsNat
        <5>3. QED
          BY <5>1, <5>2
      <4>2. content[part][m] = m
        BY <2>1, <4>1 DEF Holds
      <4>3. QED
        BY <1>7, <2>1, <3>2, <4>1, <4>2
    <3>3. QED
      BY <3>1, <3>2
  <2>4. QED
    BY <1>3, <2>1, <2>3
<1>12. Remains'
  BY <1>4, <1>10 DEF DInv, Remains, Streaming
<1>13. PublishedIsComplete'
  <2> SUFFICES ASSUME ~shared, dest # NoFile, NEW n \in 1..Length
               PROVE  content'[dest][n] = n
    BY <1>4 DEF PublishedIsComplete
  <2>1. x.fd = part /\ part # dest
    BY <1>1, DownloadAssumption DEF DInv, Alone, Streaming, At
  <2>2. content'[dest] = content[dest]
    BY <1>1, <1>7, <2>1 DEF TypeOK
  <2>3. QED
    BY <2>2 DEF DInv, PublishedIsComplete
<1>14. QED
  BY <1>4, <1>8, <1>9, <1>11, <1>12, <1>13 DEF DInv

(* A step in which a streaming worker lets go of the part file, which is   *)
(* then there no longer.                                                   *)
LEMMA AbandonHolds ==
  ASSUME DInv, NEW w \in Workers, NEW retryable \in BOOLEAN, Streaming(w), Abandon(w, retryable)
  PROVE  DInv'
<1> DEFINE x == worker[w]
           place == IF retryable /\ x.attempt < MaxRetries THEN "backoff" ELSE "raised"
           y == [x EXCEPT !.fd = NoFile, !.place = place]
<1>0. /\ place \in {"backoff", "raised"} /\ place # "stream" /\ place # "returned"
      /\ place = "backoff" => x.attempt < MaxRetries
  OBVIOUS
<1> HIDE DEF place
<1>1. TypeOK /\ x \in WorkerState /\ x.place = "stream" /\ x.written = x.chunk
  BY DEF DInv, TypeOK, Progress, Streaming, At
<1>2. /\ y.place = place /\ y.fd = NoFile /\ y.written = x.written /\ y.chunk = x.chunk
      /\ y.attempt = x.attempt /\ y \in WorkerState
  BY <1>0, <1>1 DEF WorkerState
<1>3. worker' = [worker EXCEPT ![w] = y] /\ part' = NoFile
      /\ UNCHANGED <<content, dest, locator, shared>>
  BY DEF Abandon, place
<1> HIDE DEF y
<1>4. /\ worker' \in [Workers -> WorkerState] /\ worker'[w] = y
      /\ \A v \in Workers : v # w => worker'[v] = worker[v]
  BY <1>1, <1>2, <1>3, WorkerMoves
<1>5. TypeOK'
  BY <1>1, <1>3, <1>4 DEF TypeOK
<1>6. Progress'
  BY <1>0, <1>1, <1>2, <1>4 DEF DInv, Progress, Streaming, At
<1>7. Alone'
  <2> SUFFICES ASSUME ~shared PROVE \A v \in Workers : ~Streaming(v)'
    BY <1>3 DEF Alone
  <2>1. \A v \in Workers : Streaming(v) => v = w
    BY DEF DInv, Alone
  <2>2. QED
    BY <1>0, <1>2, <1>4, <2>1 DEF Streaming, At
<1>8. Remains'
  BY <1>0, <1>2, <1>3, <1>4 DEF DInv, Remains, At
<1>9. PublishedIsComplete'
  BY <1>3 DEF DInv, PublishedIsComplete
<1>10. QED
  BY <1>3, <1>5, <1>6, <1>7, <1>8, <1>9 DEF DInv

LEMMA BackoffHolds ==
  ASSUME DInv, NEW w \in Workers, Backoff(w)
  PROVE  DInv'
<1> DEFINE x == worker[w]
           y == [x EXCEPT !.place = "open", !.attempt = @ + 1]
<1>1. /\ TypeOK /\ x \in WorkerState /\ x.place = "backoff" /\ x.written = x.chunk
      /\ x.attempt < MaxRetries
  BY DEF DInv, TypeOK, Progress, Backoff, At
<1>2. /\ y.place = "open" /\ y.fd = x.fd /\ y.written = x.written /\ y.chunk = x.chunk
      /\ y \in WorkerState
  <2>1. x.attempt + 1 \in 0..MaxRetries
    BY <1>1, DownloadAssumption DEF WorkerState
  <2>2. QED
    BY <1>1, <2>1 DEF WorkerState
<1>3. worker' = [worker EXCEPT ![w] = y] /\ UNCHANGED <<content, part, dest, locator, shared>>
  BY DEF Backoff
<1>4. /\ worker' \in [Workers -> WorkerState] /\ worker'[w] = y
      /\ \A v \in Workers : v # w => worker'[v] = worker[v]
  BY <1>1, <1>2, <1>3, WorkerMoves
<1>5. \A v \in Workers : \A q \in {"stream", "returned", "cancelled"} : At(v, q)' <=> At(v, q)
  BY <1>1, <1>2, <1>4 DEF At
<1>6. \A v \in Workers : Streaming(v) => worker'[v] = worker[v]
  BY <1>1, <1>4 DEF Streaming, At
<1>7. TypeOK'
  BY <1>1, <1>3, <1>4 DEF TypeOK
<1>8. Progress'
  BY <1>1, <1>2, <1>4 DEF DInv, Progress, Streaming, At
<1>9. Alone'
  BY <1>3, <1>5, <1>6 DEF DInv, Alone, Streaming
<1>10. Remains' /\ PublishedIsComplete'
  BY <1>3, <1>5 DEF DInv, Remains, Streaming, PublishedIsComplete
<1>11. QED
  BY <1>3, <1>7, <1>8, <1>9, <1>10 DEF DInv

LEMMA FinishHolds ==
  ASSUME DInv, NEW w \in Workers, Finish(w)
  PROVE  DInv'
<1> DEFINE x == worker[w]
           y == [x EXCEPT !.place = "returned", !.fd = NoFile]
<1>1. /\ TypeOK /\ x \in WorkerState /\ x.place = "stream" /\ x.written = x.chunk
      /\ x.chunk = Length /\ part # NoFile /\ dest' = part /\ part' = NoFile
  BY DEF DInv, TypeOK, Progress, Finish, At
<1>2. /\ y.place = "returned" /\ y.fd = NoFile /\ y.written = x.written /\ y.chunk = x.chunk
      /\ y \in WorkerState
  BY <1>1 DEF WorkerState
<1>3. worker' = [worker EXCEPT ![w] = y] /\ UNCHANGED <<content, locator, shared>>
  BY DEF Finish
<1>4. /\ worker' \in [Workers -> WorkerState] /\ worker'[w] = y
      /\ \A v \in Workers : v # w => worker'[v] = worker[v]
  BY <1>1, <1>2, <1>3, WorkerMoves
<1>5. TypeOK'
  BY <1>1, <1>3, <1>4 DEF TypeOK
<1>6. Progress'
  BY <1>1, <1>2, <1>4 DEF DInv, Progress, Streaming, At
<1>7. ~shared => Holds(content, part, Length) /\ \A v \in Workers : Streaming(v) => v = w
  BY <1>1 DEF DInv, Alone, Streaming, At
<1>8. Alone'
  BY <1>2, <1>3, <1>4, <1>7 DEF Alone, Streaming, At
<1>9. Remains'
  BY <1>1 DEF Remains
<1>10. PublishedIsComplete'
  BY <1>1, <1>3, <1>7 DEF PublishedIsComplete, Holds
<1>11. QED
  BY <1>1, <1>5, <1>6, <1>8, <1>9, <1>10 DEF DInv

LEMMA CancelHolds ==
  ASSUME DInv, NEW w \in Workers, Cancel(w)
  PROVE  DInv'
<1> DEFINE x == worker[w]
           y == [x EXCEPT !.place = "cancelled", !.fd = NoFile]
<1>1. /\ TypeOK /\ x \in WorkerState /\ x.place \in {"stream", "backoff"}
      /\ x.written = x.chunk
  BY DEF DInv, TypeOK, Progress, Cancel
<1>2. /\ y.place = "cancelled" /\ y.fd = NoFile /\ y.written = x.written /\ y.chunk = x.chunk
      /\ y \in WorkerState
  BY <1>1 DEF WorkerState
<1>3. worker' = [worker EXCEPT ![w] = y] /\ UNCHANGED <<content, part, dest, locator, shared>>
  BY DEF Cancel
<1>4. /\ worker' \in [Workers -> WorkerState] /\ worker'[w] = y
      /\ \A v \in Workers : v # w => worker'[v] = worker[v]
  BY <1>1, <1>2, <1>3, WorkerMoves
<1>5. TypeOK'
  BY <1>1, <1>3, <1>4 DEF TypeOK
<1>6. Progress'
  BY <1>1, <1>2, <1>4 DEF DInv, Progress, Streaming, At
<1>7. \A v \in Workers : Streaming(v)' => Streaming(v) /\ worker'[v] = worker[v]
  BY <1>2, <1>4 DEF Streaming, At
<1>8. Alone'
  BY <1>3, <1>7 DEF DInv, Alone
<1>9. Remains'
  <2>1. At(w, "cancelled")'
    BY <1>2, <1>4 DEF At
  <2>2. \A v \in Workers : At(v, "returned")' => At(v, "returned")
    BY <1>2, <1>4 DEF At
  <2>3. QED
    BY <1>3, <2>1, <2>2 DEF DInv, Remains
<1>10. PublishedIsComplete'
  BY <1>3 DEF DInv, PublishedIsComplete
<1>11. QED
  BY <1>3, <1>5, <1>6, <1>8, <1>9, <1>10 DEF DInv

LEMMA NextHolds == DInv /\ [Next]_vars => DInv'
<1> SUFFICES ASSUME DInv, [Next]_vars PROVE DInv'
  OBVIOUS
<1>1. CASE UNCHANGED vars
  BY <1>1 DEF vars, DInv, TypeOK, Progress, Streaming, At, Alone, Holds, Remains,
              PublishedIsComplete
<1>2. ASSUME NEW w \in Workers, Open(w) PROVE DInv'
  BY <1>2, OpenHolds
<1>3. ASSUME NEW w \in Workers, Write(w) PROVE DInv'
  BY <1>3, WriteHolds
<1>4. ASSUME NEW w \in Workers, StreamError(w) \/ PartIsGone(w) \/ Malformed(w) PROVE DInv'
  BY <1>4, AbandonHolds DEF StreamError, PartIsGone, Malformed, Streaming
<1>5. ASSUME NEW w \in Workers, Backoff(w) PROVE DInv'
  BY <1>5, BackoffHolds
<1>6. ASSUME NEW w \in Workers, Finish(w) PROVE DInv'
  BY <1>6, FinishHolds
<1>7. ASSUME NEW w \in Workers, Cancel(w) PROVE DInv'
  BY <1>7, CancelHolds
<1>8. CASE Finished
  BY <1>1, <1>8 DEF Finished
<1>9. QED
  BY <1>1, <1>2, <1>3, <1>4, <1>5, <1>6, <1>7, <1>8 DEF Next

LEMMA Invariance == Spec => []DInv
BY InitHolds, NextHolds, PTL DEF Spec

-----------------------------------------------------------------------------
(* The results *)

(* Descriptors, positions and attempts stay in their ranges.               *)
THEOREM DownloadTypeCorrect == Spec => []TypeOK
BY Invariance, PTL DEF DInv

(* Unless two workers wrote to one part file, the file under the final     *)
(* name is the whole result in order, for any number of attempts that      *)
(* break off anywhere and any number of workers one after the other.       *)
THEOREM DownloadIsComplete == Spec => []PublishedIsComplete
BY Invariance, PTL DEF DInv

(* Only cancelled workers leave a part file, and a worker that returned    *)
(* has published one, however many share the part name.                    *)
THEOREM NothingRemains == Spec => []NoRemains
<1>1. DInv => NoRemains
  BY DEF DInv, Remains, NoRemains, Over, Streaming, At
<1>2. QED
  BY <1>1, Invariance, PTL
=============================================================================
