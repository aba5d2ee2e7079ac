--------------------------- MODULE ScrollbackProof ---------------------------
(***************************************************************************)
(* Proofs about Scrollback for any sizes, any boundaries, any backend and  *)
(* any number of bytes.                                                    *)
(***************************************************************************)
EXTENDS Scrollback, TLAPS

-----------------------------------------------------------------------------
(* The inductive invariant.                                                *)

\* An idle store has nothing buffered: busy covers the drain's whole turn.
IdleInv == ~busy => pending = 0 /\ drain \in {"wait", "done"}

\* What the drain is storing is a non-empty chunk of chunkBuf that ends at a
\* boundary.
FlushInv == drain = "flush" => cut \in 1..chunkLen /\ chunkFrom + cut \in Ground

\* The head ends, and chunkBuf and every tail chunk start, at a boundary.
BoundaryInv ==
    /\ headBytes \in Ground /\ chunkFrom \in Ground
    /\ \A i \in 1..Len(tail) : tail[i].from \in Ground /\ tail[i].from <= tail[i].to

\* The tail starts where a full head ends, until it holds TailSize bytes
\* without what was evicted.
KeptInv ==
    tail # <<>> => /\ headBytes >= HeadSize
                   /\ tail[1].from = headBytes \/ tailBytes >= TailSize

DrainInv ==
    /\ StoredInv
    /\ IdleInv
    /\ FlushInv
    /\ ~err => BoundaryInv /\ KeptInv

\* The properties of a snapshot, over the state it was taken from.
SnapInv == HistoryIsHonest /\ TailIsKept /\ CutsAtBoundaries

-----------------------------------------------------------------------------
(* Types.                                                                  *)

\* The sizes one by one.
LEMMA Sizes ==
    /\ HeadSize \in Nat /\ HeadSize > 0
    /\ TailSize \in Nat /\ TailSize > 0
    /\ ChunkSize \in Nat /\ ChunkSize > 0
BY SizesAssumption

\* Every step keeps every variable within its type, and the stored, buffered
\* and pending bytes add up to what was written.
LEMMA TypeStep == TypeOK /\ [Next]_vars => TypeOK'
<1> SUFFICES ASSUME TypeOK, [Next]_vars PROVE TypeOK' OBVIOUS
<1> USE Sizes, BoundAssumption, BoundaryAssumption, StorageAssumption DEF TypeOK, closeVars
<1>1. ASSUME NEW n \in 1..MaxTotal, Write(n) PROVE TypeOK'
    BY <1>1 DEF Write, storedVars, readerVars
<1>2. CASE SnapshotCall
    BY <1>2 DEF SnapshotCall, bufferVars, storedVars
<1>3. CASE SnapshotReturn
    <2>1. PICK from \in TailFrom..chunkFrom + chunkLen : snap' = Assembled(from)
        BY <1>3 DEF SnapshotReturn
    <2>2. tail # <<>> => tail[1] \in Chunk
        OBVIOUS
    <2>3. TailFrom \in Nat
        BY <2>2 DEF TailFrom, Chunk
    <2>4. snap' \in [headTo : Nat, tailFrom : Nat, to : Nat, discarded : Int, failed : BOOLEAN]
        <3>1. from \in Nat
            BY <2>3
        <3>2. CASE err
            BY <2>1, <3>2 DEF Assembled, FailedSnap
        <3>3. CASE ~err
            BY <2>1, <3>1, <3>3 DEF Assembled
        <3> QED BY <3>2, <3>3
    <2> QED BY <1>3, <2>4 DEF SnapshotReturn, bufferVars, storedVars
<1>4. CASE SnapshotFails
    BY <1>4 DEF SnapshotFails, bufferVars, storedVars, FailedSnap
<1>5. CASE Close
    BY <1>5 DEF Close, bufferVars, storedVars, readerVars
<1>6. CASE DrainIdle
    BY <1>6 DEF DrainIdle, bufferVars, storedVars, readerVars
<1>7. CASE DrainExits
    BY <1>7 DEF DrainExits, bufferVars, storedVars, readerVars
<1>8. CASE DrainTake
    BY <1>8 DEF DrainTake, storedVars, readerVars
<1>9. CASE ProcessReturns
    BY <1>9 DEF ProcessReturns, bufferVars, storedVars, readerVars
<1>10. CASE FlushStarts
    BY <1>10 DEF FlushStarts, bufferVars, storedVars, readerVars
<1>11. Flushed \in Chunk
    BY DEF Flushed, Chunk
<1>12. CASE FlushToHead
    BY <1>11, <1>12 DEF FlushToHead, DropFlushed, readerVars
<1>13. CASE FlushToTail
    BY <1>11, <1>13 DEF FlushToTail, DropFlushed, readerVars
<1>14. CASE FlushFails
    BY <1>14 DEF FlushFails, DropFlushed, storedVars, readerVars
<1>15. CASE Evict
    <2>1. tail # <<>> /\ tail[1] \in Chunk
        BY <1>15 DEF Evict, Evictable
    <2>5. Size(tail[1]) \in Int
        BY <2>1 DEF Size, Chunk
    <2>2. tailBytes' \in Nat
        BY <1>15, <2>5 DEF Evict, Evictable
    <2>4. tail' \in Seq(Chunk)
        BY <1>15, <2>1 DEF Evict
    <2>3. err' \in BOOLEAN
        BY <1>15 DEF Evict
    <2> QED BY <1>15, <2>2, <2>3, <2>4 DEF Evict, bufferVars, readerVars
<1>16. CASE EvictReturns
    BY <1>16 DEF EvictReturns, bufferVars, storedVars, readerVars
<1>18. CASE CloseReleases
    BY <1>18 DEF CloseReleases, bufferVars, storedVars, readerVars
<1>17. CASE UNCHANGED vars
    BY <1>17 DEF vars, bufferVars, storedVars, readerVars
<1> QED
    BY <1>1, <1>2, <1>3, <1>4, <1>5, <1>6, <1>7, <1>8, <1>9, <1>10, <1>12, <1>13, <1>14,
       <1>15, <1>16, <1>17, <1>18 DEF Next, Drain

-----------------------------------------------------------------------------
(* Lists of chunks.                                                        *)

\* The ends of a chunk of a list are positions.
LEMMA ChunkOf ==
    ASSUME NEW s \in Seq(Chunk), NEW i \in 1..Len(s)
    PROVE  s[i] \in Chunk /\ s[i].from \in Nat /\ s[i].to \in Nat
<1>1. s[i] \in Chunk OBVIOUS
<1> QED BY <1>1 DEF Chunk

\* A list grown by a chunk.
LEMMA AppendChunk ==
    ASSUME NEW s \in Seq(Chunk), NEW c \in Chunk
    PROVE  /\ Append(s, c) # <<>> /\ Len(Append(s, c)) = Len(s) + 1
           /\ Append(s, c)[Len(Append(s, c))] = c
           /\ s # <<>> => Append(s, c)[1] = s[1]
           /\ s = <<>> => Append(s, c)[1] = c
           /\ \A i \in 1..Len(s) : Append(s, c)[i] = s[i]
OBVIOUS

\* A list without its first chunk.
LEMMA TailChunk ==
    ASSUME NEW s \in Seq(Chunk), Len(s) > 1
    PROVE  /\ Tail(s) # <<>> /\ Len(Tail(s)) = Len(s) - 1
           /\ Tail(s)[1] = s[2]
           /\ Tail(s)[Len(Tail(s))] = s[Len(s)]
           /\ \A i \in 1..Len(Tail(s)) : Tail(s)[i] = s[i + 1]
<1>1. s # <<>> /\ Len(s) \in Nat OBVIOUS
<1>2. Tail(s) \in Seq(Chunk) /\ Len(Tail(s)) = Len(s) - 1 BY <1>1
<1>3. \A i \in 1..Len(Tail(s)) : Tail(s)[i] = s[i + 1] BY <1>1, <1>2
<1>4. 1 \in 1..Len(Tail(s)) /\ Len(Tail(s)) \in 1..Len(Tail(s)) BY <1>1, <1>2
<1>5. Tail(s) # <<>> BY <1>4
<1> QED BY <1>1, <1>2, <1>3, <1>4, <1>5

\* A contiguous list stays so when the next chunk starts where it ends.
LEMMA ContiguousAppend ==
    ASSUME NEW s \in Seq(Chunk), NEW c \in Chunk, Contiguous(s),
           s # <<>> => s[Len(s)].to = c.from
    PROVE  Contiguous(Append(s, c))
<1> SUFFICES ASSUME NEW i \in 1..Len(s), i + 1 <= Len(s) + 1
             PROVE  Append(s, c)[i].to = Append(s, c)[i + 1].from
    BY AppendChunk DEF Contiguous
<1>1. CASE i = Len(s)
    BY <1>1, AppendChunk
<1>2. CASE i < Len(s)
    <2>1. s[i].to = s[i + 1].from BY <1>2 DEF Contiguous
    <2>2. Append(s, c)[i] = s[i] /\ Append(s, c)[i + 1] = s[i + 1]
        BY <1>2, AppendChunk
    <2> QED BY <2>1, <2>2
<1> QED BY <1>1, <1>2

\* A contiguous list stays so when its first chunk goes.
LEMMA ContiguousTail ==
    ASSUME NEW s \in Seq(Chunk), Len(s) > 1, Contiguous(s)
    PROVE  Contiguous(Tail(s))
BY TailChunk DEF Contiguous

-----------------------------------------------------------------------------
(* The store.                                                              *)

\* The initial store is empty.
LEMMA InvInit == Init => DrainInv /\ SnapInv
<1> SUFFICES ASSUME Init PROVE DrainInv /\ SnapInv OBVIOUS
<1>1. /\ total = 0 /\ pending = 0 /\ chunkFrom = 0 /\ chunkLen = 0 /\ cut = 0
      /\ headBytes = 0 /\ tailBytes = 0 /\ asked = 0
      /\ drain = "wait" /\ reader = "idle" /\ busy = FALSE /\ closed = FALSE /\ released = FALSE /\ err = FALSE
    BY DEF Init
<1>2. head = <<>> /\ tail = <<>> BY DEF Init
<1>3. snap \in [headTo : Nat, tailFrom : Nat, to : Nat, discarded : Int, failed : BOOLEAN]
    BY DEF Init, NoSnap
<1>4. TypeOK
    <2>1. total \in 0..MaxTotal /\ chunkFrom + chunkLen + pending = total
        BY <1>1, BoundAssumption
    <2>2. head \in Seq(Chunk) /\ tail \in Seq(Chunk)
        BY <1>2
    <2>3. busy \in BOOLEAN /\ closed \in BOOLEAN /\ released \in BOOLEAN /\ err \in BOOLEAN
        BY <1>1
    <2>4. cut \in 0..chunkLen /\ asked \in 0..total
        BY <1>1
    <2> QED BY <1>1, <1>3, <2>1, <2>2, <2>3, <2>4 DEF TypeOK
<1>5. StoredInv
    BY <1>1, <1>2, <1>4 DEF StoredInv, Contiguous
<1>6. BoundaryInv /\ KeptInv
    BY <1>1, <1>2, BoundaryAssumption DEF BoundaryInv, KeptInv
<1>7. IdleInv /\ FlushInv
    BY <1>1 DEF IdleInv, FlushInv
<1>8. SnapInv
    BY <1>1 DEF SnapInv, HistoryIsHonest, TailIsKept, CutsAtBoundaries, Usable
<1> QED BY <1>5, <1>6, <1>7, <1>8 DEF DrainInv

\* A step that neither stores nor drops a chunk, nor starts one.
LEMMA StoredFrame ==
    ASSUME DrainInv, TypeOK', UNCHANGED storedVars, UNCHANGED chunkFrom, err => err'
    PROVE  StoredInv' /\ (~err' => BoundaryInv' /\ KeptInv')
BY DEF DrainInv, StoredInv, storedVars, Contiguous, BoundaryInv, KeptInv

\* What the invariant says of a store without an error.
LEMMA StoredFacts ==
    ASSUME DrainInv, ~err
    PROVE  /\ Contiguous(head) /\ Contiguous(tail)
           /\ headBytes = (IF head = <<>> THEN 0 ELSE head[Len(head)].to)
           /\ tail # <<>> => /\ headBytes <= tail[1].from
                             /\ tail[Len(tail)].to = chunkFrom
                             /\ tailBytes = chunkFrom - tail[1].from
                             /\ headBytes >= HeadSize
                             /\ tail[1].from = headBytes \/ tailBytes >= TailSize
           /\ tail = <<>> => tailBytes = 0 /\ headBytes = chunkFrom
           /\ headBytes \in Ground /\ chunkFrom \in Ground
           /\ \A i \in 1..Len(tail) : tail[i].from \in Ground /\ tail[i].from <= tail[i].to
BY DEF DrainInv, StoredInv, BoundaryInv, KeptInv

\* The chunk being stored starts where chunkBuf does and ends at a boundary.
LEMMA FlushedFacts ==
    ASSUME DrainInv, drain = "flush"
    PROVE  /\ Flushed \in Chunk /\ Flushed.from = chunkFrom /\ Flushed.to = chunkFrom + cut
           /\ cut \in Nat /\ cut > 0 /\ chunkFrom \in Nat /\ chunkFrom + cut \in Ground
BY DEF DrainInv, StoredInv, TypeOK, FlushInv, Flushed, Chunk

\* A chunk stored as the head moves the end of the head to chunkBuf's.
LEMMA HeadStep ==
    ASSUME DrainInv, FlushToHead, TypeOK'
    PROVE  StoredInv' /\ (~err' => BoundaryInv' /\ KeptInv')
<1> SUFFICES ASSUME ~err'
             PROVE  StoredInv' /\ BoundaryInv' /\ KeptInv'
    BY DEF StoredInv
<1> DEFINE c == Flushed
<1>1. /\ ~err /\ headBytes < HeadSize /\ drain = "flush"
      /\ head' = Append(head, c) /\ tail' = tail /\ tailBytes' = tailBytes
      /\ chunkFrom' = chunkFrom + cut /\ headBytes' = headBytes + cut
    BY DEF FlushToHead, DropFlushed
<1>2. head \in Seq(Chunk) /\ headBytes \in Nat
    BY DEF DrainInv, StoredInv, TypeOK
<1>3. /\ c \in Chunk /\ c.from = chunkFrom /\ c.to = chunkFrom + cut
      /\ chunkFrom + cut \in Ground
    BY <1>1, FlushedFacts
<1> HIDE DEF c
<1>4. tail = <<>> /\ tailBytes = 0 /\ headBytes = chunkFrom
    BY <1>1, <1>2, StoredFacts, Sizes
<1>5. Contiguous(head')
    BY <1>1, <1>2, <1>3, <1>4, StoredFacts, ContiguousAppend
<1>6. head' # <<>> /\ head'[Len(head')].to = headBytes'
    BY <1>1, <1>2, <1>3, <1>4, AppendChunk
<1>7. Contiguous(tail') /\ Len(tail') = 0
    BY <1>1, <1>4 DEF Contiguous
<1> QED BY <1>1, <1>3, <1>4, <1>5, <1>6, <1>7 DEF StoredInv, BoundaryInv, KeptInv

\* A chunk stored as the tail starts where the tail, or a full head, ended.
LEMMA TailStep ==
    ASSUME DrainInv, FlushToTail, TypeOK'
    PROVE  StoredInv' /\ (~err' => BoundaryInv' /\ KeptInv')
<1> SUFFICES ASSUME ~err'
             PROVE  StoredInv' /\ BoundaryInv' /\ KeptInv'
    BY DEF StoredInv
<1> DEFINE c == Flushed
<1>1. /\ ~err /\ headBytes >= HeadSize /\ drain = "flush"
      /\ head' = head /\ headBytes' = headBytes /\ tail' = Append(tail, c)
      /\ chunkFrom' = chunkFrom + cut /\ tailBytes' = tailBytes + cut
    BY DEF FlushToTail, DropFlushed
<1>2. tail \in Seq(Chunk) /\ headBytes \in Nat /\ tailBytes \in Nat
    BY DEF DrainInv, StoredInv, TypeOK
<1>3. /\ c \in Chunk /\ c.from = chunkFrom /\ c.to = chunkFrom + cut
      /\ chunkFrom + cut \in Ground /\ cut \in Nat /\ chunkFrom \in Nat
    BY <1>1, FlushedFacts
<1> HIDE DEF c
<1>4. /\ tail' # <<>> /\ tail'[Len(tail')] = c /\ Len(tail') = Len(tail) + 1
      /\ \A i \in 1..Len(tail) : tail'[i] = tail[i]
    BY <1>1, <1>2, <1>3, AppendChunk
<1>5. Contiguous(tail')
    BY <1>1, <1>2, <1>3, StoredFacts, ContiguousAppend
<1>6. /\ headBytes' <= tail'[1].from
      /\ tailBytes' = chunkFrom' - tail'[1].from
      /\ tail'[1].from = headBytes' \/ tailBytes' >= TailSize
    <2>1. CASE tail = <<>>
        <3>1. tail'[1] = c BY <1>1, <1>2, <1>3, <2>1, AppendChunk
        <3> QED BY <1>1, <1>2, <1>3, <2>1, <3>1, StoredFacts
    <2>2. CASE tail # <<>>
        <3>1. tail'[1] = tail[1] BY <1>1, <1>2, <1>3, <2>2, AppendChunk
        <3>2. tail[1].from \in Nat BY <1>2, <2>2, ChunkOf
        <3>3. /\ headBytes <= tail[1].from /\ tailBytes = chunkFrom - tail[1].from
              /\ tail[1].from = headBytes \/ tailBytes >= TailSize
            BY <1>1, <2>2, StoredFacts
        <3> DEFINE f == tail[1].from
        <3>6. f \in Nat /\ tailBytes = chunkFrom - f
            BY <3>2, <3>3
        <3> HIDE DEF f
        <3>7. tailBytes' = chunkFrom' - f
            BY <1>1, <1>2, <1>3, <3>6
        <3>4. tailBytes' = chunkFrom' - tail[1].from
            BY <3>7 DEF f
        <3>5. tailBytes >= TailSize => tailBytes' >= TailSize
            BY <1>1, <1>2, <1>3, Sizes
        <3> QED BY <1>1, <3>1, <3>3, <3>4, <3>5
    <2> QED BY <2>1, <2>2
<1>7. BoundaryInv'
    <2>1. ASSUME NEW i \in 1..Len(tail')
          PROVE  tail'[i].from \in Ground /\ tail'[i].from <= tail'[i].to
        <3>1. CASE i \in 1..Len(tail) BY <1>1, <1>4, <3>1, StoredFacts
        <3>2. CASE i = Len(tail') BY <1>1, <1>3, <1>4, <3>2, StoredFacts
        <3>3. Len(tail) \in Nat BY <1>2
        <3>4. i \in 1..Len(tail) + 1 BY <1>4
        <3> QED BY <1>4, <3>1, <3>2, <3>3, <3>4
    <2> QED BY <1>1, <1>3, <2>1, StoredFacts DEF BoundaryInv
<1> QED BY <1>1, <1>3, <1>4, <1>5, <1>6, <1>7, StoredFacts DEF KeptInv, StoredInv

\* Eviction moves the start of the tail to its second chunk, and leaves at
\* least TailSize bytes.
LEMMA EvictStep ==
    ASSUME DrainInv, Evict, TypeOK'
    PROVE  StoredInv' /\ (~err' => BoundaryInv' /\ KeptInv')
<1> SUFFICES ASSUME ~err'
             PROVE  StoredInv' /\ BoundaryInv' /\ KeptInv'
    BY DEF StoredInv
<1>1. /\ ~err /\ head' = head /\ headBytes' = headBytes /\ chunkFrom' = chunkFrom
      /\ Len(tail) > 1 /\ tail' = Tail(tail)
      /\ tailBytes' = tailBytes - (tail[1].to - tail[1].from) /\ tailBytes' >= TailSize
    BY DEF Evict, Evictable, bufferVars, Size
<1>2. tail \in Seq(Chunk) /\ headBytes \in Nat /\ tailBytes \in Nat /\ chunkFrom \in Nat
    BY DEF DrainInv, StoredInv, TypeOK
<1>3. /\ tail' # <<>> /\ Len(tail') = Len(tail) - 1
      /\ tail'[1] = tail[2] /\ tail'[Len(tail')] = tail[Len(tail)]
      /\ \A i \in 1..Len(tail') : tail'[i] = tail[i + 1]
    BY <1>1, <1>2, TailChunk
<1>4. /\ tail[1].from \in Nat /\ tail[1].to \in Nat /\ tail[1].from <= tail[1].to
      /\ tail[2].from = tail[1].to /\ tail # <<>>
    <2>1. 1 \in 1..Len(tail) /\ 1 + 1 <= Len(tail) /\ 1 + 1 = 2 /\ tail # <<>>
        BY <1>1, <1>2
    <2>2. tail[1].to = tail[2].from
        BY <1>1, <2>1, StoredFacts DEF Contiguous
    <2> QED BY <1>1, <1>2, <2>1, <2>2, StoredFacts, ChunkOf
<1>5. Contiguous(tail')
    BY <1>1, <1>2, StoredFacts, ContiguousTail
<1>6. headBytes <= tail[2].from /\ tailBytes' = chunkFrom - tail[2].from
    <2>1. headBytes <= tail[1].from /\ tailBytes = chunkFrom - tail[1].from
        BY <1>1, <1>4, StoredFacts
    <2> QED BY <1>1, <1>2, <1>4, <2>1, SMTT(20)
<1>7. BoundaryInv'
    <2>1. ASSUME NEW i \in 1..Len(tail')
          PROVE  tail'[i].from \in Ground /\ tail'[i].from <= tail'[i].to
        BY <1>1, <1>2, <1>3, StoredFacts
    <2> QED BY <1>1, <2>1, StoredFacts DEF BoundaryInv
<1>8. KeptInv'
    <2>1. headBytes' >= HeadSize
        BY <1>1, <1>4, StoredFacts
    <2> QED BY <1>1, <2>1 DEF KeptInv
<1> QED BY <1>1, <1>3, <1>4, <1>5, <1>6, <1>7, <1>8, StoredFacts DEF StoredInv

-----------------------------------------------------------------------------
(* Snapshots.                                                              *)

\* What Snapshot returns from an idle store: the head and a tail that starts
\* at a boundary, ends with the last byte written, and leaves a gap of exactly
\* the count it reports.
LEMMA SnapshotStep ==
    ASSUME DrainInv, SnapshotReturn
    PROVE  SnapInv'
<1> SUFFICES ASSUME Usable' PROVE SnapInv'
    BY DEF SnapInv, HistoryIsHonest, TailIsKept, CutsAtBoundaries
<1>1. PICK from \in TailFrom..chunkFrom + chunkLen : IsTrim(from) /\ snap' = Assembled(from)
    BY DEF SnapshotReturn
<1>2. ~err
    BY <1>1 DEF Assembled, FailedSnap, Usable
<1>3. /\ snap'.headTo = headBytes /\ snap'.tailFrom = from /\ snap'.to = chunkFrom + chunkLen
      /\ snap'.discarded = total - headBytes - (chunkFrom + chunkLen - from)
    BY <1>1, <1>2 DEF Assembled
<1>4. /\ chunkFrom \in Nat /\ chunkLen \in Nat /\ pending \in Nat /\ headBytes \in Nat
      /\ tailBytes \in Nat /\ total \in Nat /\ asked \in 0..total
      /\ chunkFrom + chunkLen + pending = total /\ tail \in Seq(Chunk)
    BY BoundAssumption DEF DrainInv, StoredInv, TypeOK
<1>5. pending = 0 /\ asked' = asked
    BY DEF SnapshotReturn, DrainInv, IdleInv
<1>6. /\ TailFrom \in Nat /\ TailFrom \in Ground /\ headBytes <= TailFrom
      /\ TailFrom = headBytes \/ tailBytes >= TailSize
    <2>1. CASE tail = <<>>
        BY <1>2, <1>4, <2>1, StoredFacts DEF TailFrom
    <2>2. CASE tail # <<>>
        <3>1. 1 \in 1..Len(tail) BY <1>4, <2>2
        <3> QED BY <1>2, <1>4, <2>2, <3>1, StoredFacts, ChunkOf DEF TailFrom
    <2> QED BY <2>1, <2>2
<1>7. from \in Nat /\ TailFrom <= from /\ from <= chunkFrom + chunkLen
    BY <1>1, <1>4, <1>6
<1>8. from \in Ground
    BY <1>1, <1>6 DEF IsTrim
<1>9. HistoryIsHonest'
    <2>1. total = chunkFrom + chunkLen /\ asked <= total
        BY <1>4, <1>5
    <2>2. snap'.discarded = from - headBytes
        BY <1>3, <1>4, <1>7, <2>1
    <2>3. headBytes <= from
        BY <1>4, <1>6, <1>7
    <2> QED BY <1>3, <1>5, <1>7, <2>1, <2>2, <2>3 DEF HistoryIsHonest
<1>10. TailIsKept'
    <2>1. CASE TailLen > TailSize
        <3>1. from <= chunkFrom + chunkLen - TailSize
            BY <1>1, <2>1 DEF IsTrim
        <3>2. chunkFrom + chunkLen - from >= TailSize
            BY <1>4, <1>7, <3>1, Sizes
        <3>3. snap'.to - snap'.tailFrom >= TailSize
            BY <1>3, <1>4, <1>7, <3>2, Sizes
        <3> QED BY <3>3 DEF TailIsKept
    <2>2. CASE ~(TailLen > TailSize)
        <3>1. from = TailFrom
            BY <1>1, <2>2 DEF IsTrim
        <3>2. CASE TailFrom = headBytes
            BY <1>3, <3>1, <3>2 DEF TailIsKept
        <3>3. CASE TailFrom # headBytes
            <4>1. tail # <<>> /\ tailBytes = chunkFrom - TailFrom
                BY <1>2, <3>3, StoredFacts DEF TailFrom
            <4>2. chunkFrom + chunkLen - TailFrom >= TailSize
                BY <1>4, <1>6, <3>3, <4>1, Sizes
            <4>3. snap'.to - snap'.tailFrom >= TailSize
                BY <1>3, <1>4, <1>7, <3>1, <4>2, Sizes
            <4> QED BY <4>3 DEF TailIsKept
        <3> QED BY <3>2, <3>3
    <2> QED BY <2>1, <2>2
<1>11. CutsAtBoundaries'
    BY <1>2, <1>3, <1>8, StoredFacts DEF CutsAtBoundaries
<1> QED BY <1>9, <1>10, <1>11 DEF SnapInv

\* A snapshot is its caller's: what happens to the store later does not
\* change it.
LEMMA SnapFrame ==
    ASSUME SnapInv, UNCHANGED readerVars
    PROVE  SnapInv'
BY DEF SnapInv, HistoryIsHonest, TailIsKept, CutsAtBoundaries, Usable, readerVars

-----------------------------------------------------------------------------
(* The invariants.                                                         *)

\* Every step keeps the invariant and the promises of the last snapshot.
LEMMA InvStep == DrainInv /\ SnapInv /\ [Next]_vars => DrainInv' /\ SnapInv'
<1> SUFFICES ASSUME DrainInv, SnapInv, [Next]_vars PROVE DrainInv' /\ SnapInv'
    OBVIOUS
<1>0. TypeOK /\ TypeOK'
    BY TypeStep DEF DrainInv, StoredInv
<1> USE <1>0 DEF DrainInv
<1>1. ASSUME NEW n \in 1..MaxTotal, Write(n) PROVE DrainInv' /\ SnapInv'
    BY <1>1, StoredFrame, SnapFrame DEF Write, IdleInv, FlushInv
<1>2. CASE SnapshotCall
    <2>1. ~Usable' BY <1>2 DEF SnapshotCall, Usable
    <2>2. SnapInv'
        BY <2>1 DEF SnapInv, HistoryIsHonest, TailIsKept, CutsAtBoundaries
    <2> QED BY <1>2, <2>2, StoredFrame DEF SnapshotCall, bufferVars, IdleInv, FlushInv
<1>3. CASE SnapshotReturn
    <2>1. SnapInv' BY <1>3, SnapshotStep
    <2> QED BY <1>3, <2>1, StoredFrame DEF SnapshotReturn, bufferVars, IdleInv, FlushInv
<1>4. CASE SnapshotFails
    <2>1. ~Usable' BY <1>4 DEF SnapshotFails, Usable, FailedSnap
    <2>2. SnapInv'
        BY <2>1 DEF SnapInv, HistoryIsHonest, TailIsKept, CutsAtBoundaries
    <2> QED BY <1>4, <2>2, StoredFrame DEF SnapshotFails, bufferVars, IdleInv, FlushInv
<1>5. CASE Close
    BY <1>5, StoredFrame, SnapFrame DEF Close, bufferVars, IdleInv, FlushInv
<1>6. CASE DrainIdle
    BY <1>6, StoredFrame, SnapFrame DEF DrainIdle, bufferVars, IdleInv, FlushInv
<1>7. CASE DrainExits
    BY <1>7, StoredFrame, SnapFrame DEF DrainExits, bufferVars, IdleInv, FlushInv
<1>8. CASE DrainTake
    BY <1>8, StoredFrame, SnapFrame DEF DrainTake, IdleInv, FlushInv
<1>9. CASE ProcessReturns
    BY <1>9, StoredFrame, SnapFrame DEF ProcessReturns, bufferVars, IdleInv, FlushInv
<1>10. CASE FlushStarts
    <2>1. FlushInv'
        BY <1>10 DEF FlushStarts, bufferVars, IsCut, Boundary, FlushInv
    <2> QED BY <1>10, <2>1, StoredFrame, SnapFrame DEF FlushStarts, bufferVars, IdleInv
<1>11. CASE FlushToHead
    BY <1>11, HeadStep, SnapFrame DEF FlushToHead, IdleInv, FlushInv
<1>12. CASE FlushToTail
    BY <1>12, TailStep, SnapFrame DEF FlushToTail, IdleInv, FlushInv
<1>13. CASE FlushFails
    <2>1. StoredInv' BY <1>13 DEF FlushFails, StoredInv
    <2> QED BY <1>13, <2>1, SnapFrame DEF FlushFails, IdleInv, FlushInv
<1>14. CASE Evict
    BY <1>14, EvictStep, SnapFrame DEF Evict, bufferVars, IdleInv, FlushInv
<1>15. CASE EvictReturns
    BY <1>15, StoredFrame, SnapFrame DEF EvictReturns, bufferVars, IdleInv, FlushInv
<1>17. CASE CloseReleases
    BY <1>17, StoredFrame, SnapFrame DEF CloseReleases, bufferVars, IdleInv, FlushInv
<1>16. CASE UNCHANGED vars
    BY <1>16, StoredFrame, SnapFrame DEF vars, bufferVars, IdleInv, FlushInv
<1> QED
    BY <1>1, <1>2, <1>3, <1>4, <1>5, <1>6, <1>7, <1>8, <1>9, <1>10, <1>11, <1>12, <1>13, <1>14,
       <1>15, <1>16, <1>17 DEF Next, Drain

\* The invariant holds of the store at all times.
LEMMA DrainInvariant == Spec => [](DrainInv /\ SnapInv)
BY InvInit, InvStep, PTL DEF Spec

\* However writers, drain, failures and evictions interleave, the lists tile
\* the stream up to chunkBuf and the counters say how far, until the backend
\* has failed.
THEOREM StoredInvariant == Spec => []StoredInv
<1>1. DrainInv => StoredInv BY DEF DrainInv
<1> QED BY <1>1, DrainInvariant, PTL

\* A usable snapshot accounts for every byte written before it was called, and
\* the truncation count is exactly the gap between head and tail.
THEOREM HonestHistory == Spec => []HistoryIsHonest
<1>1. SnapInv => HistoryIsHonest BY DEF SnapInv
<1> QED BY <1>1, DrainInvariant, PTL

\* The last TailSize bytes are in every usable snapshot: evict and the trim
\* together never discard them.
THEOREM TailKept == Spec => []TailIsKept
<1>1. SnapInv => TailIsKept BY DEF SnapInv
<1> QED BY <1>1, DrainInvariant, PTL

\* A snapshot is cut at ground and rune boundaries only, wherever those are.
THEOREM BoundaryCuts == Spec => []CutsAtBoundaries
<1>1. SnapInv => CutsAtBoundaries BY DEF SnapInv
<1> QED BY <1>1, DrainInvariant, PTL
=============================================================================
