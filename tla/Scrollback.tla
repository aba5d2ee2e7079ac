----------------------------- MODULE Scrollback -----------------------------
(***************************************************************************)
(* The scrollback store of one session (scrollback/store.go): writers      *)
(* append to an unbounded pending buffer, a drain goroutine cuts it into   *)
(* chunks at ground/rune boundaries and stores them (compressed or raw,    *)
(* which decode to the same bytes) as the head or the bounded tail, with   *)
(* the lock released around the slow part; Snapshot waits for the drain.   *)
(*                                                                         *)
(* Bytes are known by their position in the stream, a chunk by the         *)
(* interval [from, to) it holds.  pending is the count of bytes not yet    *)
(* drained and chunkBuf the interval [chunkFrom, chunkFrom + chunkLen).    *)
(***************************************************************************)
EXTENDS Integers, Sequences

CONSTANTS
    HeadSize, TailSize,   \* bytes to retain of the start and of the end
    ChunkSize,            \* granularity of storage and eviction
    MaxTotal,             \* bound: bytes written
    Ground,               \* positions at a VT ground and UTF-8 rune boundary
    StorageMayFail        \* whether the backend may fail (disk storage)

ASSUME SizesAssumption == {HeadSize, TailSize, ChunkSize} \subseteq Nat \ {0}
ASSUME BoundAssumption == MaxTotal \in Nat
ASSUME BoundaryAssumption == Ground \subseteq Nat /\ 0 \in Ground
ASSUME StorageAssumption == StorageMayFail \in BOOLEAN

VARIABLES
    total,        \* totalBytes
    pending,      \* length of pending
    chunkFrom,    \* first position held by chunkBuf
    chunkLen,     \* its length
    head,         \* headChunks
    headBytes,
    tail,         \* tailChunks
    tailBytes,
    drain,        \* where the drain goroutine stands
    cut,          \* length of the chunk being stored
    busy,
    closed,
    released,     \* Close has released decoder and backend
    err,          \* the sticky error is set
    reader,       \* a caller of Snapshot
    asked,        \* totalBytes when it called
    snap          \* what it was given

bufferVars == <<pending, chunkFrom, chunkLen>>
storedVars == <<head, headBytes, tail, tailBytes>>
readerVars == <<reader, asked, snap>>
closeVars == <<closed, released>>
vars == <<total, bufferVars, storedVars, drain, cut, busy, closeVars, err, readerVars>>

Chunk == [from : Nat, to : Nat]
Size(c) == c.to - c.from

\* headTo: length of the head; tailFrom, to: the tail's interval; discarded:
\* the count the truncation marker shows.
NoSnap == [headTo |-> 0, tailFrom |-> 0, to |-> 0, discarded |-> 0, failed |-> FALSE]
FailedSnap == [headTo |-> 0, tailFrom |-> 0, to |-> 0, discarded |-> 0, failed |-> TRUE]

TypeOK ==
    /\ total \in 0..MaxTotal /\ pending \in Nat /\ chunkFrom \in Nat /\ chunkLen \in Nat
    /\ chunkFrom + chunkLen + pending = total
    /\ head \in Seq(Chunk) /\ tail \in Seq(Chunk)
    /\ headBytes \in Nat /\ tailBytes \in Nat
    /\ drain \in {"wait", "process", "flush", "evict", "done"}
    /\ cut \in 0..chunkLen
    /\ busy \in BOOLEAN /\ closed \in BOOLEAN /\ released \in BOOLEAN /\ err \in BOOLEAN
    /\ reader \in {"idle", "waiting", "done"}
    /\ asked \in 0..total
    /\ snap \in [headTo : Nat, tailFrom : Nat, to : Nat, discarded : Int, failed : BOOLEAN]

Init ==
    /\ total = 0 /\ pending = 0 /\ chunkFrom = 0 /\ chunkLen = 0
    /\ head = <<>> /\ headBytes = 0 /\ tail = <<>> /\ tailBytes = 0
    /\ drain = "wait" /\ cut = 0
    /\ busy = FALSE /\ closed = FALSE /\ released = FALSE /\ err = FALSE
    /\ reader = "idle" /\ asked = 0 /\ snap = NoSnap

\* process and evict run with s.mu held; while a chunk is stored the lock is
\* released.
LockFree == drain \notin {"process", "evict"}

-----------------------------------------------------------------------------
(* Callers.                                                                *)

\* Write never waits for the drain.  (After Close it accepts and forgets.)
Write(n) ==
    /\ LockFree /\ ~closed
    /\ total + n <= MaxTotal
    /\ total' = total + n
    /\ pending' = pending + n
    /\ busy' = TRUE
    /\ UNCHANGED <<chunkFrom, chunkLen, storedVars, drain, cut, closeVars, err, readerVars>>

\* A handler that run no longer waits for may call it even after Close.
SnapshotCall ==
    /\ LockFree /\ reader # "waiting"
    /\ reader' = "waiting"
    /\ asked' = total
    /\ UNCHANGED <<total, bufferVars, storedVars, drain, cut, busy, closeVars, err, snap>>

\* The tail as stored: the tail chunks and then chunkBuf.
TailFrom == IF tail = <<>> THEN chunkFrom ELSE tail[1].from
TailLen == tailBytes + chunkLen

\* boundaryTrim: the latest boundary that keeps TailSize bytes.
IsTrim(from) ==
    IF TailLen > TailSize
    THEN /\ from \in Ground
         /\ from <= chunkFrom + chunkLen - TailSize
         /\ \A g \in Ground : g <= chunkFrom + chunkLen - TailSize => g <= from
    ELSE from = TailFrom

\* Mutant: the untrimmed tail is subtracted from the total.
AssembledMiscounts(from) ==
    [headTo |-> headBytes, tailFrom |-> from, to |-> chunkFrom + chunkLen,
     discarded |-> total - headBytes - TailLen, failed |-> err]

\* The head, and the tail trimmed to start at from; its callers drop what
\* Snapshot returns when the store has an error.
Assembled(from) ==
    IF err THEN FailedSnap
    ELSE [headTo |-> headBytes, tailFrom |-> from, to |-> chunkFrom + chunkLen,
          discarded |-> total - headBytes - (chunkFrom + chunkLen - from), failed |-> FALSE]

\* Snapshot once no write is buffered.
SnapshotReturn ==
    /\ LockFree /\ reader = "waiting" /\ ~busy
    /\ reader' = "done"
    /\ \E from \in TailFrom..chunkFrom + chunkLen : IsTrim(from) /\ snap' = Assembled(from)
    /\ UNCHANGED <<total, bufferVars, storedVars, drain, cut, busy, closeVars, err, asked>>

\* A chunk cannot be read back (decodeChunks), which is always possible once
\* decoder and backend are gone: the error sticks.
SnapshotFails ==
    /\ LockFree /\ reader = "waiting" /\ ~busy
    /\ StorageMayFail \/ released
    /\ head # <<>> \/ tail # <<>>
    /\ reader' = "done"
    /\ err' = TRUE
    /\ snap' = FailedSnap
    /\ UNCHANGED <<total, bufferVars, storedVars, drain, cut, busy, closeVars, asked>>

\* Close up to its wait for the drain goroutine: it takes the lock whenever it is
\* free, also while a Snapshot sits in cond.Wait (run closes the store once
\* waitConns gave up on the handlers).
Close ==
    /\ LockFree /\ ~closed
    /\ closed' = TRUE
    /\ UNCHANGED <<total, bufferVars, storedVars, drain, cut, busy, released, err, readerVars>>

\* The rest of Close, after <-s.done; errors of encoder and backend stick.
CloseReleases ==
    /\ drain = "done" /\ ~released
    /\ released' = TRUE
    /\ err' \in {err} \cup (IF StorageMayFail THEN {TRUE} ELSE {})
    /\ UNCHANGED <<total, bufferVars, storedVars, drain, cut, busy, closed, readerVars>>

-----------------------------------------------------------------------------
(* The drain goroutine.                                                    *)

\* Mutant: the drain goes to sleep without saying that it is idle.
DrainIdleSilent ==
    /\ drain = "wait" /\ pending = 0 /\ ~closed /\ busy
    /\ UNCHANGED vars

DrainIdle ==
    /\ drain = "wait" /\ pending = 0 /\ ~closed /\ busy
    /\ busy' = FALSE
    /\ UNCHANGED <<total, bufferVars, storedVars, drain, cut, closeVars, err, readerVars>>

\* Mutant: the drain exits without waking those who wait for it to be idle.
DrainExitsSilent ==
    /\ drain = "wait" /\ pending = 0 /\ closed
    /\ drain' = "done"
    /\ UNCHANGED <<total, bufferVars, storedVars, cut, busy, closeVars, err, readerVars>>

DrainExits ==
    /\ drain = "wait" /\ pending = 0 /\ closed
    /\ drain' = "done"
    /\ busy' = FALSE
    /\ UNCHANGED <<total, bufferVars, storedVars, cut, closeVars, err, readerVars>>

\* Take all of pending into chunkBuf, keeping the lock for process.
DrainTake ==
    /\ drain = "wait" /\ pending > 0
    /\ chunkLen' = chunkLen + pending
    /\ pending' = 0
    /\ drain' = "process"
    /\ UNCHANGED <<total, chunkFrom, storedVars, cut, busy, closeVars, err, readerVars>>

\* While the head is filling, a chunk stops at the headSize boundary.
Target ==
    LET r == HeadSize - headBytes IN IF r > 0 /\ r < ChunkSize THEN r ELSE ChunkSize

Boundary(off) == off \in 1..chunkLen /\ chunkFrom + off \in Ground

\* Mutant: a cut at the target even inside a sequence.
IsCutAtTarget(off) == chunkLen >= Target /\ off = Target

\* boundaryCut, for a full enough chunkBuf: the last boundary up to Target,
\* or else the first beyond it.
IsCut(off) ==
    /\ chunkLen >= Target
    /\ Boundary(off)
    /\ \A o \in 1..chunkLen : Boundary(o) => IF off <= Target THEN o <= off \/ o > Target
                                                             ELSE o >= off

\* Not enough bytes, or no boundary among them yet.
ProcessReturns ==
    /\ drain = "process"
    /\ \A off \in 1..chunkLen : ~IsCut(off)
    /\ drain' = "wait"
    /\ UNCHANGED <<total, bufferVars, storedVars, cut, busy, closeVars, err, readerVars>>

\* flushChunk releases the lock to compress and store chunkBuf[:cut].
FlushStarts ==
    /\ drain = "process"
    /\ \E off \in 1..chunkLen : IsCut(off) /\ cut' = off
    /\ drain' = "flush"
    /\ UNCHANGED <<total, bufferVars, storedVars, busy, closeVars, err, readerVars>>

Flushed == [from |-> chunkFrom, to |-> chunkFrom + cut]

DropFlushed ==
    /\ chunkFrom' = chunkFrom + cut
    /\ chunkLen' = chunkLen - cut
    /\ cut' = 0

\* backend.put succeeded and the head is not full.
FlushToHead ==
    /\ drain = "flush" /\ headBytes < HeadSize
    /\ head' = Append(head, Flushed)
    /\ headBytes' = headBytes + cut
    /\ DropFlushed
    /\ drain' = "process"
    /\ UNCHANGED <<total, pending, tail, tailBytes, busy, closeVars, err, readerVars>>

\* backend.put succeeded and the head is full: the tail grows, evict follows.
FlushToTail ==
    /\ drain = "flush" /\ headBytes >= HeadSize
    /\ tail' = Append(tail, Flushed)
    /\ tailBytes' = tailBytes + cut
    /\ DropFlushed
    /\ drain' = "evict"
    /\ UNCHANGED <<total, pending, head, headBytes, busy, closeVars, err, readerVars>>

\* Mutant: a chunk goes as soon as the tail exceeds its size.
EvictableEagerly == Len(tail) > 1 /\ tailBytes > TailSize

\* Without its oldest chunk the tail still has TailSize bytes.
Evictable == Len(tail) > 1 /\ tailBytes - Size(tail[1]) >= TailSize

\* One turn of evict's loop; a backend that fails to drop the chunk sets the
\* error and the chunk goes all the same.
Evict ==
    /\ drain = "evict" /\ Evictable
    /\ tailBytes' = tailBytes - Size(tail[1])
    /\ tail' = Tail(tail)
    /\ \/ err' = err
       \/ StorageMayFail /\ err' = TRUE
    /\ UNCHANGED <<total, bufferVars, head, headBytes, drain, cut, busy, closeVars, readerVars>>

EvictReturns ==
    /\ drain = "evict" /\ ~Evictable
    /\ drain' = "process"
    /\ UNCHANGED <<total, bufferVars, storedVars, cut, busy, closeVars, err, readerVars>>

\* Mutant: the put error is not kept.
FlushForgetsError ==
    /\ drain = "flush" /\ StorageMayFail
    /\ DropFlushed
    /\ drain' = "process"
    /\ UNCHANGED <<total, pending, storedVars, busy, closeVars, err, readerVars>>

\* backend.put failed: the chunk is lost and the error sticks.
FlushFails ==
    /\ drain = "flush" /\ StorageMayFail
    /\ err' = TRUE
    /\ DropFlushed
    /\ drain' = "process"
    /\ UNCHANGED <<total, pending, storedVars, busy, closeVars, readerVars>>

Drain ==
    \/ DrainIdle \/ DrainExits \/ DrainTake
    \/ ProcessReturns \/ FlushStarts \/ FlushToHead \/ FlushToTail \/ FlushFails
    \/ Evict \/ EvictReturns

Next ==
    \/ \E n \in 1..MaxTotal : Write(n)
    \/ SnapshotCall \/ SnapshotReturn \/ SnapshotFails
    \/ Close \/ CloseReleases
    \/ Drain

Spec == Init /\ [][Next]_vars

\* The drain goroutine is never blocked for good, and a waiter on s.cond gets
\* the lock once the store stays idle.
FairSpec == Spec /\ WF_vars(Drain) /\ WF_vars(SnapshotReturn \/ SnapshotFails)

-----------------------------------------------------------------------------
(* Properties.                                                             *)

Usable == reader = "done" /\ ~snap.failed

\* A usable snapshot accounts for every byte: it reaches what was written before
\* it was called ("reflects every byte written so far"), head, marker and tail
\* follow each other and the truncation count is exactly the gap between them,
\* whatever the drain was doing and after failures and evictions.
HistoryIsHonest ==
    Usable => /\ snap.to >= asked
              /\ snap.headTo <= snap.tailFrom
              /\ snap.tailFrom <= snap.to
              /\ snap.discarded = snap.tailFrom - snap.headTo

\* The last TailSize bytes are never discarded.
TailIsKept ==
    Usable => \/ snap.to - snap.tailFrom >= TailSize
              \/ snap.tailFrom = snap.headTo

\* The two cuts a reader sees are at boundaries: no half escape sequence and
\* no half rune before or after the truncation marker.
CutsAtBoundaries == Usable => snap.headTo \in Ground /\ snap.tailFrom \in Ground

\* Every Snapshot returns once writers pause: also one that waits when Close
\* stops the drain goroutine, and one called while Close is under way or over.
SnapshotReturns == (reader = "waiting") ~> (reader = "done")

\* "the first headSize bytes are kept verbatim": for the run that shows where
\* the code departs from it.
HeadIsKept ==
    Usable => \/ snap.headTo >= HeadSize
              \/ snap.discarded = 0

-----------------------------------------------------------------------------
(* The invariant behind them.                                              *)

Contiguous(s) == \A i \in 1..Len(s) : i + 1 <= Len(s) => s[i].to = s[i + 1].from

\* The lists tile the stream up to chunkBuf and the counters say how far, while
\* the drain moves chunks with the lock released.
StoredInv ==
    /\ TypeOK
    /\ ~err =>
           /\ Contiguous(head) /\ Contiguous(tail)
           /\ headBytes = (IF head = <<>> THEN 0 ELSE head[Len(head)].to)
           /\ tail # <<>> => /\ headBytes <= tail[1].from
                             /\ tail[Len(tail)].to = chunkFrom
                             /\ tailBytes = chunkFrom - tail[1].from
           /\ tail = <<>> => tailBytes = 0 /\ headBytes = chunkFrom
=============================================================================
