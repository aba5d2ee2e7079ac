------------------------------- MODULE VTScan -------------------------------
(***************************************************************************)
(* vtscan.Scanner, the stateful scanner that finds where a stream of       *)
(* terminal output may be cut, and its callers: feedTerm (daemon/daemon.go) *)
(* with a scanner that follows the stream, boundaryCut and boundaryTrim    *)
(* (scrollback/store.go) with a fresh one.  Bytes are modelled by the      *)
(* classes the scanner tells apart.  The reference says, without a parser   *)
(* state, which positions of a stream stand outside sequences and runes.   *)
(***************************************************************************)
EXTENDS Integers, Sequences, SequencesExt

CONSTANTS
    Bytes,        \* the byte classes of the stream
    MaxStream,    \* bound: bytes of the stream
    MaxRead       \* bound: bytes of one read of the PTY

\* C0 controls, DEL and 0xF8-0xFF, which no sequence state acts on;
\* BEL; CAN and SUB; ESC; 0x20-0x2F; digits and ;  : < = > ? P [ ]  X ^ _;
\* the other final bytes; UTF-8 continuation and lead bytes.
ByteClasses ==
    {"skip", "bel", "can", "esc", "inter", "param", "colon", "priv", "P", "[", "]", "X",
     "final", "cont", "lead2", "lead3", "lead4"}

ASSUME BytesAssumption == Bytes \subseteq ByteClasses
ASSUME BoundAssumption == MaxStream \in Nat /\ MaxRead \in Nat \ {0}

Finals == {"P", "[", "]", "X", "final"}      \* 0x40-0x7E
Params == {"param", "colon", "priv"}         \* 0x30-0x3F

States ==
    {"ground", "escape", "escapeIntermediate", "csiEntry", "csiParam", "csiIntermediate",
     "csiIgnore", "dcsEntry", "dcsParam", "dcsIntermediate", "dcsPassthrough", "dcsIgnore",
     "oscString", "stringIgnore"}

VARIABLES
    stream,     \* the bytes read from the PTY
    fed,        \* how many of them feedTerm has rendered
    scan,       \* s.outScan
    flushed     \* the read failed and the rest was flushed

vars == <<stream, fed, scan, flushed>>

-----------------------------------------------------------------------------
(* Scanner.                                                                *)

Reset == [st |-> "ground", utf8Pending |-> 0]

AtGround(s) == s.st = "ground" /\ s.utf8Pending = 0

RuneStart(b) == b # "cont"

\* How many continuation bytes a lead byte announces.
RuneLength == [lead2 |-> 1, lead3 |-> 2, lead4 |-> 3]

\* A continuation byte the rune waits for, or else a byte that abandons it.
stepGround(s, b) ==
    IF s.utf8Pending > 0 /\ b = "cont" THEN [s EXCEPT !.utf8Pending = @ - 1]
    ELSE IF b = "esc" THEN [st |-> "escape", utf8Pending |-> 0]
    ELSE IF b \in DOMAIN RuneLength THEN [s EXCEPT !.utf8Pending = RuneLength[b]]
    ELSE [s EXCEPT !.utf8Pending = 0]

stepEscape(b) ==
    CASE b = "P" -> "dcsEntry"
      [] b = "[" -> "csiEntry"
      [] b = "]" -> "oscString"
      [] b = "X" -> "stringIgnore"
      [] b = "inter" -> "escapeIntermediate"
      [] b \in Params \cup {"final"} -> "ground"
      [] OTHER -> "escape"

\* Mutant: a private prefix after a parameter ends the sequence.
stepCSIPrivateEnds(st, b) ==
    CASE b \in Finals -> "ground"
      [] b = "inter" -> "csiIntermediate"
      [] b = "colon" -> "csiIgnore"
      [] b = "param" -> "csiParam"
      [] b = "priv" -> IF st = "csiEntry" THEN "csiParam" ELSE "ground"
      [] OTHER -> st

stepCSI(st, b) ==
    CASE b \in Finals -> "ground"
      [] b = "inter" -> "csiIntermediate"
      [] b = "colon" -> "csiIgnore"
      [] b = "param" -> "csiParam"
      [] b = "priv" -> IF st = "csiEntry" THEN "csiParam" ELSE "csiIgnore"
      [] OTHER -> st

stepCSIIntermediate(b) ==
    CASE b \in Finals -> "ground"
      [] b \in Params -> "csiIgnore"
      [] OTHER -> "csiIntermediate"

stepDCS(st, b) ==
    CASE b \in Finals -> "dcsPassthrough"
      [] b = "inter" -> "dcsIntermediate"
      [] b = "colon" -> "dcsIgnore"
      [] b = "param" -> IF st = "dcsIntermediate" THEN "dcsIgnore" ELSE "dcsParam"
      [] b = "priv" -> IF st = "dcsEntry" THEN "dcsParam" ELSE "dcsIgnore"
      [] OTHER -> st

\* The sequence states once CAN, SUB and ESC are dealt with.
stepSequence(st, b) ==
    CASE st = "escape" -> stepEscape(b)
      [] st = "escapeIntermediate" -> IF b \in Params \cup Finals THEN "ground" ELSE st
      [] st \in {"csiEntry", "csiParam"} -> stepCSI(st, b)
      [] st = "csiIntermediate" -> stepCSIIntermediate(b)
      [] st = "csiIgnore" -> IF b \in Finals THEN "ground" ELSE st
      [] st \in {"dcsEntry", "dcsParam", "dcsIntermediate"} -> stepDCS(st, b)
      [] st = "oscString" -> IF b = "bel" THEN "ground" ELSE st
      [] OTHER -> st

step(s, b) ==
    IF s.st = "ground" THEN stepGround(s, b)
    ELSE IF b = "can" THEN [s EXCEPT !.st = "ground"]
    ELSE IF b = "esc" THEN [s EXCEPT !.st = "escape"]
    ELSE [s EXCEPT !.st = stepSequence(@, b)]

\* The scanner's state after each number of bytes.
Scanned(s, bytes) ==
    LET after[i \in 0..Len(bytes)] == IF i = 0 THEN s ELSE step(after[i - 1], bytes[i])
    IN  after

Advance(s, bytes) == Scanned(s, bytes)[Len(bytes)]

\* The last offset up to target at ground that no continuation byte follows.
SafeCut(s, buf, target) ==
    LET offs == {off \in 0..Len(buf) :
                    /\ off <= target
                    /\ off \in {0, Len(buf)} \/ RuneStart(buf[off + 1])
                    /\ AtGround(Scanned(s, buf)[off])}
    IN  IF offs = {} THEN -1 ELSE Max(offs)

-----------------------------------------------------------------------------
(* scrollback: where a chunk is cut, and where a retained tail is trimmed. *)

\* Mutant: a boundary after target is taken although one before it is known.
CutLoopEager(buf, target, acc, off) ==
    LET sc == step(acc.sc, buf[off])
        cut == (off = Len(buf) \/ RuneStart(buf[off + 1])) /\ AtGround(sc)
    IN  IF acc.done THEN acc
        ELSE IF ~cut THEN [acc EXCEPT !.sc = sc]
        ELSE [sc |-> sc, best |-> off, done |-> off > target]

\* One turn of the loop of boundaryCut, with a scanner that starts fresh.
CutLoop(buf, target, acc, off) ==
    LET sc == step(acc.sc, buf[off])
        cut == (off = Len(buf) \/ RuneStart(buf[off + 1])) /\ AtGround(sc)
    IN  IF acc.done THEN acc
        ELSE IF ~cut THEN [acc EXCEPT !.sc = sc]
        ELSE IF off <= target THEN [sc |-> sc, best |-> off, done |-> FALSE]
        ELSE [sc |-> sc, best |-> IF acc.best > 0 THEN acc.best ELSE off, done |-> TRUE]

\* The loop's variables after each number of turns.
CutTurns(buf, target) ==
    LET turn[off \in 0..Len(buf)] ==
            IF off = 0 THEN [sc |-> Reset, best |-> -1, done |-> FALSE]
            ELSE CutLoop(buf, target, turn[off - 1], off)
    IN  turn

boundaryCut(buf, target) == CutTurns(buf, target)[Len(buf)].best

\* Mutant: the tail is trimmed to its size exactly.
boundaryTrimAtWant(buf, want) == IF want <= Len(buf) THEN want ELSE Len(buf)

boundaryTrim(buf, want) ==
    LET near == SafeCut(Reset, buf, want)
        any == SafeCut(Reset, buf, Len(buf))
    IN  IF near >= 0 THEN near ELSE IF any >= 0 THEN any ELSE 0

-----------------------------------------------------------------------------
(* feedTerm.                                                               *)

Init ==
    /\ stream = <<>> /\ fed = 0
    /\ scan = Reset /\ flushed = FALSE

\* A read: render up to the last safe cut of what is pending.
Read(data) ==
    /\ ~flushed /\ Len(stream) + Len(data) <= MaxStream
    /\ stream' = stream \o data
    /\ LET pending == SubSeq(stream', fed + 1, Len(stream'))
           cut == SafeCut(scan, pending, Len(pending))
       IN  IF cut <= 0 THEN UNCHANGED <<fed, scan>>
           ELSE fed' = fed + cut /\ scan' = Advance(scan, SubSeq(pending, 1, cut))
    /\ UNCHANGED flushed

\* The read failed: render everything.
Flush ==
    /\ ~flushed
    /\ flushed' = TRUE
    /\ fed' = Len(stream)
    /\ scan' = Advance(scan, SubSeq(stream, fed + 1, Len(stream)))
    /\ UNCHANGED stream

Next ==
    \/ \E n \in 1..MaxRead : \E data \in [1..n -> Bytes] : Read(data)
    \/ Flush

Spec == Init /\ [][Next]_vars

-----------------------------------------------------------------------------
(* Reference: which positions of a stream are boundaries.  The last ESC    *)
(* decides which sequence, if any, a position is inside of.                *)

LastEsc(s, p) == LET es == {i \in 1..p : s[i] = "esc"} IN IF es = {} THEN 0 ELSE Max(es)

\* Bytes that neither continue nor end the introduction of a sequence.
Idle == {"skip", "bel", "cont", "lead2", "lead3", "lead4"}

\* The byte after ESC that tells what kind of sequence it is.
Introducer(s, e, p) ==
    LET is == {i \in e + 1..p : s[i] \notin Idle} IN IF is = {} THEN 0 ELSE Min(is)

\* The bytes that end a sequence of the kind byte k introduces: CSI at a final
\* byte, OSC at BEL, nF escapes at a final or parameter byte, strings at none.
EndsKind(k) ==
    {"can"} \cup
    CASE k = "[" -> Finals
      [] k = "]" -> {"bel"}
      [] k = "inter" -> Finals \cup Params
      [] OTHER -> {}

\* Where the sequence the ESC at e starts is over, 0 if it is not by p.
SequenceEnd(s, e, p) ==
    LET k == Introducer(s, e, p)
        ends == {i \in k + 1..p : s[i] \in EndsKind(s[k])}
    IN  IF k = 0 THEN 0
        ELSE IF s[k] \in Params \cup {"final", "can"} THEN k
        ELSE IF ends = {} THEN 0 ELSE Min(ends)

\* Position p is inside a rune that began after position from: a lead byte
\* and too few continuation bytes stand before it.
InsideRune(s, from, p) ==
    \E k \in 0..2 :
        /\ p - k > from
        /\ \A j \in p - k + 1..p : s[j] = "cont"
        /\ s[p - k] \in <<{"lead2", "lead3", "lead4"}, {"lead3", "lead4"}, {"lead4"}>>[k + 1]

IsBoundary(s, p) ==
    LET e == LastEsc(s, p)
        from == IF e = 0 THEN 0 ELSE SequenceEnd(s, e, p)
    IN  (e = 0 \/ from # 0) /\ ~InsideRune(s, from, p)

\* Boundaries of s that no continuation byte follows.
Boundaries(s) == {p \in 1..Len(s) : IsBoundary(s, p) /\ (p = Len(s) \/ RuneStart(s[p + 1]))}

-----------------------------------------------------------------------------
(* Properties.                                                             *)

\* Types.
TypeOK ==
    /\ stream \in Seq(Bytes) /\ Len(stream) <= MaxStream
    /\ fed \in 0..Len(stream)
    /\ scan \in [st : States, utf8Pending : 0..3]
    /\ flushed \in BOOLEAN

\* However the stream was split into reads, output is rendered up to exactly the
\* last position outside every sequence and rune (feedTerm's comment): nothing
\* incomplete is rendered and nothing complete waits for the next read.  A scanner
\* started afresh there, as boundaryCut and boundaryTrim start theirs, agrees.
CutIsExact ==
    /\ ~flushed => IsBoundary(stream, fed) /\ AtGround(scan)
    /\ \A p \in Boundaries(stream) : p <= fed

\* boundaryCut takes the last boundary up to target, else the first after it.
CutIsNearest ==
    \A target \in 1..Len(stream) :
        LET cut == boundaryCut(stream, target)
            below == {p \in Boundaries(stream) : p <= target}
        IN  cut = IF below # {} THEN Max(below)
                  ELSE IF Boundaries(stream) # {} THEN Min(Boundaries(stream)) ELSE -1

\* boundaryTrim never trims into a sequence or a rune, nor more than asked.
TrimIsSafe ==
    \A want \in 0..Len(stream) :
        LET off == boundaryTrim(stream, want)
        IN  off <= want /\ IsBoundary(stream, off)
=============================================================================
