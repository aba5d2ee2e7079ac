---------------------------- MODULE SessionProof ----------------------------
(***************************************************************************)
(* Proofs about Session for any callers and operations, any bounds and any *)
(* faults.                                                                 *)
(***************************************************************************)
EXTENDS Session, TLAPS

-----------------------------------------------------------------------------
(* The inductive invariants.                                               *)

BeforeStart == {"init", "listening"}
SpawnPhases == {"spawnFailed", "spawnRecording", "spawnPersisted"}
EndPhases == {"closing", "draining", "ptyClosed", "drained", "recording", "persisted"}
Over == {"persisted", "spawnPersisted", "unlinked", "exited"}

\* How far run is tells what has become of the command.
PhaseInv ==
    /\ phase \in BeforeStart \cup SpawnPhases => child = "none"
    /\ phase \in {"serving"} \cup EndPhases => child # "none"
    /\ phase \in EndPhases => ended
    /\ phase \in BeforeStart => exit = "none"
    /\ phase \in SpawnPhases => exit = "spawn"
    /\ exit = "spawn" => child = "none"

\* Nothing is served, read or killed for a command that was never there.
UnstartedInv ==
    child = "none" => ~ptyOpen /\ ~killed /\ \A r \in Callers : at[r] \notin InFlight

\* The record is written last, from a history that no longer grows, and the
\* socket file goes after it.
FilesInv ==
    /\ phase \in {"drained", "recording", "persisted"} => outDone
    /\ phase \in {"recording", "spawnRecording"} => history = out
    /\ record # None => phase \in Over
    /\ phase \in Over => record # None \/ persistErr
    /\ ~sockFile => phase \in {"init", "unlinked", "exited"}

LifeInv == TypeOK /\ PhaseInv /\ UnstartedInv /\ FilesInv /\ RecordIsComplete

\* Whoever reports an ended session reports its outcome, which is final.
Told(a) ==
    a.kind = "info" /\ ~a.running =>
        a.exit = exit /\ a.killed = killed /\ (ended \/ exit = "spawn")

ToldInv ==
    /\ \A r \in Callers : Told(answer[r])
    /\ Told(record) /\ (record # None => ~record.running)
    /\ \A r \in Callers :
          op[r] \in {"wait", "kill"} /\ answer[r].kind = "info" => ~answer[r].running

\* The bytes that were written, and then those in the queue, are numbered from
\* one on, and the pump's copy is the front of the queue.
QueueInv ==
    /\ Len(written) + Len(inputBuf) = accepted
    /\ \A i \in 1..Len(written) : written[i] = i
    /\ \A i \in 1..Len(inputBuf) : inputBuf[i] = Len(written) + i
    /\ Len(chunk) <= Len(inputBuf)
    /\ \A i \in 1..Len(chunk) : chunk[i] = inputBuf[i]
    /\ Len(inputBuf) <= InputCap

-----------------------------------------------------------------------------
(* Types, in three groups.                                                 *)

LifeType ==
    /\ phase \in Phases
    /\ child \in {"none", "running", "zombie", "reaped"}
    /\ exit \in Exits
    /\ {hup, sigkill, ended, killed, closing, sockFile, outDone, storeErr, persistErr, ptyOpen} \subseteq BOOLEAN
    /\ ended <=> child = "reaped"
    /\ listener \in {"none", "open", "closed"}
    /\ history \in Nat \cup {NoHistory}
    /\ record \in Outcome \cup {None}
    /\ out \in 0..MaxOut

InputType ==
    /\ inputBuf \in Seq(1..accepted) /\ chunk \in Seq(1..accepted) /\ written \in Seq(1..accepted)
    /\ accepted \in 0..MaxIn
    /\ inPump \in {"idle", "writing", "done"}

CallType ==
    op \in [Callers -> AllOps] /\ at \in [Callers -> Stages] /\ answer \in [Callers -> Answers]

\* The groups are all of the type invariant.
LEMMA TypeGroups == TypeOK <=> LifeType /\ InputType /\ CallType
BY DEF TypeOK, LifeType, InputType, CallType

\* What info answers is an outcome, and of an ended session it is the outcome.
LEMMA InfoFacts ==
    ASSUME LifeType
    PROVE  /\ Info \in Outcome /\ Info \in Answers
           /\ Info.kind = "info" /\ (~Info.running <=> ended)
           /\ ended => Info.exit = exit /\ Info.killed = killed
<1>1. ended \in BOOLEAN /\ killed \in BOOLEAN /\ exit \in Exits
    BY DEF LifeType
<1>2. Info \in Outcome
    BY <1>1 DEF Info, Outcome, Exits
<1>3. Info.kind = "info" /\ (~Info.running <=> ended)
    BY <1>1 DEF Info
<1>4. ended => Info.exit = exit /\ Info.killed = killed
    BY <1>1 DEF Info
<1> QED BY <1>2, <1>3, <1>4 DEF Answers

\* The other answers.
LEMMA AnswerFacts ==
    /\ {None, Missing, Failed, Ok} \subseteq Answers
    /\ \A n \in 0..MaxOut : Bytes(n) \in Answers
    /\ Outcome \subseteq Answers
    /\ SpawnFailure \in Outcome
BY DEF Answers, SpawnFailure, Outcome, Exits

\* Of the callers' steps only those of the kill ladder touch the daemon.
LEMMA CallerFrame ==
    ASSUME NEW r \in Callers, Caller(r)
    PROVE  DaemonUnchanged \/ KillMarks(r) \/ KillHups(r) \/ KillEscalates(r)
BY DEF Caller, Dial, Accept, Answer, Handle, HandleInfo, HandleWait, HandleHistory, HandleSend,
       Kill, KillEnded, SignalFails, KillAnswers,
       Fallback, SendUnavailable, RecordFound, RecordMissing, StatSocket, PollTimesOut

\* The daemon's own steps keep its types.
LEMMA LifeTypeRun == LifeType /\ PhaseInv /\ Run => LifeType'
<1> SUFFICES ASSUME LifeType, PhaseInv, Run PROVE LifeType' OBVIOUS
<1> USE DEF LifeType, Phases, flagVars, fileVars, childVars, outVars
<1>1. CASE Listen BY <1>1 DEF Listen
<1>2. CASE Start BY <1>2 DEF Start, PhaseInv, BeforeStart
<1>3. CASE StartFails BY <1>3 DEF StartFails, Exits
<1>4. CASE StopServing BY <1>4 DEF StopServing
<1>5. CASE CloseListener BY <1>5 DEF CloseListener
<1>6. CASE ClosePty BY <1>6 DEF ClosePty
<1>7. CASE PumpsDone BY <1>7 DEF PumpsDone
<1>8. CASE WriteHistory BY <1>8 DEF WriteHistory
<1>9. CASE WriteRecord
    BY <1>9, InfoFacts, AnswerFacts DEF WriteRecord
<1>10. CASE PersistFails BY <1>10 DEF PersistFails
<1>11. CASE RemoveSocket BY <1>11 DEF RemoveSocket
<1>12. CASE Exit BY <1>12 DEF Exit
<1> QED BY <1>1, <1>2, <1>3, <1>4, <1>5, <1>6, <1>7, <1>8, <1>9, <1>10, <1>11, <1>12 DEF Run

\* So do the command, the input pump and the callers.
LEMMA LifeTypeStep == LifeType /\ PhaseInv /\ [Next]_vars => LifeType'
<1> SUFFICES ASSUME LifeType, PhaseInv, [Next]_vars PROVE LifeType' OBVIOUS
<1> USE DEF LifeType, flagVars, fileVars, childVars, outVars
<1>1. CASE Run BY <1>1, LifeTypeRun
<1>2. CASE Command
    <2>1. ASSUME NEW how \in {"natural", "hup", "kill"}, Dies(how) PROVE LifeType'
        BY <2>1 DEF Dies, Exits
    <2>2. CASE Reap BY <2>2 DEF Reap
    <2>3. CASE Output BY <2>3, BoundsAssumption DEF Output
    <2>4. CASE OutputEnds BY <2>4 DEF OutputEnds
    <2>5. CASE StoreFails BY <2>5 DEF StoreFails
    <2> QED BY <1>2, <2>1, <2>2, <2>3, <2>4, <2>5
            DEF Command, ChildExits, HupEndsChild, KillEndsChild
<1>3. CASE InputPump
    BY <1>3 DEF InputPump, TakeChunk, WriteChunk, WriteChunkFails, PumpInputReturns
<1>4. ASSUME NEW r \in Callers, Caller(r) PROVE LifeType'
    <2>1. CASE KillMarks(r) BY <2>1 DEF KillMarks
    <2>2. CASE KillHups(r) BY <2>2 DEF KillHups
    <2>3. CASE KillEscalates(r) BY <2>3 DEF KillEscalates
    <2>4. DaemonUnchanged => LifeType'
        BY DEF DaemonUnchanged
    <2> QED BY <1>4, <2>1, <2>2, <2>3, <2>4, CallerFrame
<1>5. CASE UNCHANGED vars BY <1>5 DEF vars
<1> QED BY <1>1, <1>2, <1>3, <1>4, <1>5 DEF Next

-----------------------------------------------------------------------------
(* The life of the session.                                                *)

LifeParts == PhaseInv /\ UnstartedInv /\ FilesInv /\ RecordIsComplete

\* Reset takes callers out of flight, never into it.
LEMMA ResetFacts ==
    ASSUME NEW stages, Reset(stages), NEW r \in Callers, at[r] \notin InFlight
    PROVE  at'[r] \notin InFlight
BY DEF Reset, InFlight

\* Each step of run goes to a phase whose conditions it has waited for.
LEMMA LifeRun == LifeType /\ LifeParts /\ Run => LifeParts'
<1> SUFFICES ASSUME LifeType, LifeParts, Run PROVE LifeParts' OBVIOUS
<1> USE DEF LifeType, LifeParts, PhaseInv, UnstartedInv, FilesInv, RecordIsComplete,
            BeforeStart, SpawnPhases, EndPhases, Over,
            flagVars, fileVars, childVars, outVars, callVars
<1>1. CASE Listen BY <1>1 DEF Listen
<1>2. CASE Start BY <1>2 DEF Start
<1>3. CASE StartFails BY <1>3 DEF StartFails
<1>4. CASE StopServing BY <1>4 DEF StopServing
<1>5. CASE CloseListener BY <1>5, ResetFacts DEF CloseListener
<1>6. CASE ClosePty BY <1>6 DEF ClosePty
<1>7. CASE PumpsDone BY <1>7 DEF PumpsDone
<1>8. CASE WriteHistory BY <1>8 DEF WriteHistory
<1>9. CASE WriteRecord
    <2>1. record' # None
        BY <1>9, InfoFacts, AnswerFacts DEF WriteRecord, None, Outcome
    <2> QED BY <1>9, <2>1 DEF WriteRecord
<1>10. CASE PersistFails BY <1>10 DEF PersistFails
<1>11. CASE RemoveSocket BY <1>11, ResetFacts DEF RemoveSocket
<1>12. CASE Exit BY <1>12, ResetFacts DEF Exit
<1> QED BY <1>1, <1>2, <1>3, <1>4, <1>5, <1>6, <1>7, <1>8, <1>9, <1>10, <1>11, <1>12 DEF Run

\* A caller in flight was in flight before, or is one that was just accepted.
LEMMA FlightFacts ==
    ASSUME NEW r \in Callers, Caller(r), at \in [Callers -> Stages], NEW q \in Callers,
           at'[q] \in InFlight
    PROVE  at[q] \in InFlight \/ phase \in {"serving", "closing"}
<1> USE DEF InFlight, Stage, Reply
<1>1. CASE \E o \in Ops[r] : Dial(r, o) BY <1>1 DEF Dial
<1>2. CASE Accept(r) BY <1>2 DEF Accept
<1>3. CASE Handle(r)
    <2>1. at[r] \in InFlight
        BY <1>3 DEF Handle, HandleInfo, HandleWait, HandleHistory, HandleSend, Handling,
                    Kill, KillEnded, KillMarks, KillHups, KillEscalates, SignalFails, KillAnswers
    <2>2. \A p \in Callers : p # r => at'[p] = at[p]
        BY <1>3 DEF Handle, HandleInfo, HandleWait, HandleHistory, HandleSend,
                    Kill, KillEnded, KillMarks, KillHups, KillEscalates, SignalFails, KillAnswers
    <2> QED BY <2>1, <2>2
<1>4. CASE Answer(r) BY <1>4 DEF Answer
<1>5. CASE Fallback(r)
    BY <1>5 DEF Fallback, SendUnavailable, RecordFound, RecordMissing, StatSocket, PollTimesOut
<1> QED BY <1>1, <1>2, <1>3, <1>4, <1>5 DEF Caller

\* The command, the input pump and the callers respect what run relies on.
LEMMA LifeStep == LifeType /\ CallType /\ LifeParts /\ [Next]_vars => LifeParts'
<1> SUFFICES ASSUME LifeType, CallType, LifeParts, [Next]_vars PROVE LifeParts' OBVIOUS
<1> USE DEF LifeType, LifeParts, PhaseInv, UnstartedInv, FilesInv, RecordIsComplete,
            BeforeStart, SpawnPhases, EndPhases, Over,
            flagVars, fileVars, childVars, outVars, callVars
<1>1. CASE Run BY <1>1, LifeRun
<1>2. CASE Command
    <2>1. ASSUME NEW how \in {"natural", "hup", "kill"}, Dies(how) PROVE LifeParts'
        BY <2>1 DEF Dies
    <2>2. CASE Reap BY <2>2 DEF Reap
    <2>3. CASE Output BY <2>3 DEF Output
    <2>4. CASE OutputEnds BY <2>4 DEF OutputEnds
    <2>5. CASE StoreFails BY <2>5 DEF StoreFails
    <2> QED BY <1>2, <2>1, <2>2, <2>3, <2>4, <2>5
            DEF Command, ChildExits, HupEndsChild, KillEndsChild
<1>3. CASE InputPump
    BY <1>3 DEF InputPump, TakeChunk, WriteChunk, WriteChunkFails, PumpInputReturns
<1>4. ASSUME NEW r \in Callers, Caller(r) PROVE LifeParts'
    <2>1. child = "none" => \A q \in Callers : at'[q] \notin InFlight
        BY <1>4, FlightFacts DEF CallType
    <2>2. CASE KillMarks(r)
        <3>1. at[r] \in InFlight BY <2>2 DEF KillMarks, Handling, InFlight
        <3> QED BY <2>1, <2>2, <3>1 DEF KillMarks
    <2>3. CASE KillHups(r) BY <2>1, <2>3 DEF KillHups
    <2>4. CASE KillEscalates(r) BY <2>1, <2>4 DEF KillEscalates
    <2>5. DaemonUnchanged => LifeParts'
        BY <2>1 DEF DaemonUnchanged
    <2> QED BY <1>4, <2>2, <2>3, <2>4, <2>5, CallerFrame
<1>5. CASE UNCHANGED vars BY <1>5 DEF vars
<1> QED BY <1>1, <1>2, <1>3, <1>4, <1>5 DEF Next

-----------------------------------------------------------------------------
(* The input queue.                                                        *)

\* A sequence stays well typed when more bytes have been accepted.
LEMMA SeqGrows ==
    ASSUME NEW m \in Nat, NEW n \in Nat, m <= n, NEW s \in Seq(1..m)
    PROVE  s \in Seq(1..n)
OBVIOUS

\* Dropping the first n elements.
LEMMA DropFacts ==
    ASSUME NEW S, NEW s \in Seq(S), NEW n \in 0..Len(s)
    PROVE  /\ Drop(n, s) \in Seq(S) /\ Len(Drop(n, s)) = Len(s) - n
           /\ \A i \in 1..Len(s) - n : Drop(n, s)[i] = s[n + i]
BY DEF Drop

\* The first n elements.
LEMMA FrontFacts ==
    ASSUME NEW S, NEW s \in Seq(S), NEW n \in 0..Len(s)
    PROVE  /\ SubSeq(s, 1, n) \in Seq(S) /\ Len(SubSeq(s, 1, n)) = n
           /\ \A i \in 1..n : SubSeq(s, 1, n)[i] = s[i]
OBVIOUS

\* Two sequences in a row.
LEMMA ConcatFacts ==
    ASSUME NEW S, NEW s \in Seq(S), NEW t \in Seq(S)
    PROVE  /\ s \o t \in Seq(S) /\ Len(s \o t) = Len(s) + Len(t)
           /\ \A i \in 1..Len(s) : (s \o t)[i] = s[i]
           /\ \A i \in 1..Len(t) : (s \o t)[Len(s) + i] = t[i]
OBVIOUS

\* Only the input pump and queueInput touch the input.
LEMMA InputFrame ==
    [Next]_vars => \/ UNCHANGED inputVars
                   \/ InputPump
                   \/ \E r \in Callers, n \in 0..MaxIn : HandleSend(r, n)
<1>1. Run => UNCHANGED inputVars
    BY DEF Run, Listen, Start, StartFails, StopServing, CloseListener, ClosePty, PumpsDone,
           WriteHistory, WriteRecord, PersistFails, RemoveSocket, Exit
<1>2. Command => UNCHANGED inputVars
    BY DEF Command, ChildExits, HupEndsChild, KillEndsChild, Dies, Reap, Output, OutputEnds, StoreFails
<1>3. ASSUME NEW r \in Callers, Caller(r)
      PROVE  UNCHANGED inputVars \/ \E n \in 0..MaxIn : HandleSend(r, n)
    BY <1>3 DEF Caller, Dial, Accept, Answer, Handle, HandleInfo, HandleWait, HandleHistory,
           Kill, KillEnded, KillMarks, KillHups, KillEscalates, SignalFails, KillAnswers,
           Fallback, SendUnavailable, RecordFound, RecordMissing, StatSocket, PollTimesOut
<1> QED BY <1>1, <1>2, <1>3 DEF Next, vars

\* Moving n of m elements keeps the sum of the lengths.
LEMMA Moved ==
    ASSUME NEW k \in Nat, NEW m \in Nat, NEW n \in Nat, n <= m, NEW cap \in Nat, m <= cap
    PROVE  (k + n) + (m - n) = k + m /\ m - n <= cap /\ 0 <= m - n
OBVIOUS

\* n bytes at the front of the queue go to the PTY.
LEMMA WrittenStep ==
    ASSUME InputType, QueueInv, NEW n \in 0..Len(chunk),
           accepted' = accepted, inPump' \in {"idle", "done"},
           written' = written \o SubSeq(chunk, 1, n), inputBuf' = Drop(n, inputBuf), chunk' = <<>>
    PROVE  InputType' /\ QueueInv'
<1> DEFINE S == 1..accepted
           front == SubSeq(chunk, 1, n)
<1>1. /\ written \in Seq(S) /\ inputBuf \in Seq(S) /\ chunk \in Seq(S)
      /\ accepted \in Nat /\ Len(written) \in Nat /\ Len(inputBuf) \in Nat /\ Len(chunk) \in Nat
      /\ n \in Nat /\ n <= Len(chunk) /\ InputCap \in Nat
    BY BoundsAssumption DEF InputType
<1>2. Len(chunk) <= Len(inputBuf) /\ n <= Len(inputBuf) /\ n \in 0..Len(inputBuf)
    BY <1>1 DEF QueueInv
<1> HIDE DEF S
<1>3. front \in Seq(S) /\ Len(front) = n /\ \A i \in 1..n : front[i] = chunk[i]
    BY <1>1, FrontFacts
<1>4. /\ inputBuf' \in Seq(S) /\ Len(inputBuf') = Len(inputBuf) - n
      /\ \A i \in 1..Len(inputBuf) - n : inputBuf'[i] = inputBuf[n + i]
    BY <1>1, <1>2, DropFacts
<1>5. /\ written' \in Seq(S) /\ Len(written') = Len(written) + n
      /\ \A i \in 1..Len(written) : written'[i] = written[i]
      /\ \A i \in 1..n : written'[Len(written) + i] = front[i]
    <2> HIDE DEF front
    <2>1. written' = written \o front BY DEF front
    <2> QED BY <1>1, <1>3, <2>1, ConcatFacts
<1>6. InputType'
    BY <1>4, <1>5, SMTT(20) DEF InputType, S
<1> HIDE DEF front
<1> DEFINE w == written'
           b == inputBuf'
           k == Len(written)
<1>7. /\ k \in Nat /\ Len(w) = k + n /\ Len(b) = Len(inputBuf) - n
      /\ \A i \in 1..k : w[i] = written[i]
      /\ \A i \in 1..n : w[k + i] = chunk[i]
      /\ \A i \in 1..Len(b) : b[i] = inputBuf[n + i]
    BY <1>1, <1>3, <1>4, <1>5
<1>8. /\ k + Len(inputBuf) = accepted /\ Len(inputBuf) <= InputCap
      /\ \A i \in 1..k : written[i] = i
      /\ \A i \in 1..Len(inputBuf) : inputBuf[i] = k + i
      /\ \A i \in 1..n : chunk[i] = k + i
    <2>1. \A i \in 1..n : i \in 1..Len(chunk) /\ i \in 1..Len(inputBuf) BY <1>1, <1>2
    <2> QED BY <2>1 DEF QueueInv
<1> HIDE DEF w, b, k
<1>9. ASSUME NEW i \in 1..Len(w) PROVE w[i] = i
    <2>1. CASE i <= k
        <3>1. i \in 1..k BY <1>7, <2>1
        <3>2. w[i] = written[i] /\ written[i] = i BY <1>7, <1>8, <3>1
        <3> QED BY <3>2
    <2>2. CASE i > k
        <3>1. i - k \in 1..n /\ i = k + (i - k) BY <1>1, <1>7, <2>2
        <3>2. w[k + (i - k)] = k + (i - k) BY <1>7, <1>8, <3>1
        <3> QED BY <3>1, <3>2
    <2> QED BY <1>7, <2>1, <2>2
<1>10. ASSUME NEW i \in 1..Len(b) PROVE b[i] = Len(w) + i
    <2>1. n + i \in 1..Len(inputBuf) BY <1>1, <1>2, <1>7, SMTT(20)
    <2>2. b[i] = k + (n + i) BY <1>7, <1>8, <2>1
    <2>3. k + (n + i) = Len(w) + i BY <1>1, <1>7
    <2> QED BY <2>2, <2>3
<1>11. Len(w) + Len(b) = accepted /\ Len(b) <= InputCap /\ 0 <= Len(b)
    <2>1. /\ k \in Nat /\ Len(w) = k + n /\ Len(b) = Len(inputBuf) - n
          /\ k + Len(inputBuf) = accepted /\ Len(inputBuf) <= InputCap
        BY <1>7, <1>8
    <2>2. /\ (k + n) + (Len(inputBuf) - n) = k + Len(inputBuf)
          /\ Len(inputBuf) - n <= InputCap /\ 0 <= Len(inputBuf) - n
        BY <1>1, <1>2, <2>1, Moved
    <2> QED BY <2>1, <2>2
<1>12. Len(chunk') = 0 /\ \A i \in 1..Len(chunk') : chunk'[i] = b[i]
    OBVIOUS
<1>13. Len(chunk') <= Len(b) BY <1>11, <1>12
<1>14. accepted' = accepted OBVIOUS
<1>15. QueueInv'
    BY <1>9, <1>10, <1>11, <1>12, <1>13, <1>14, Zenon DEF QueueInv, w, b
<1> QED BY <1>6, <1>15

\* queueInput appends the next bytes, within the cap.
LEMMA QueuedStep ==
    ASSUME InputType, QueueInv, NEW r \in Callers, NEW n \in 0..MaxIn, HandleSend(r, n)
    PROVE  InputType' /\ QueueInv'
<1>1. /\ accepted \in Nat /\ n \in Nat /\ accepted + n <= MaxIn /\ MaxIn \in Nat /\ InputCap \in Nat
      /\ inPump' = inPump /\ chunk' = chunk /\ written' = written
    BY BoundsAssumption DEF InputType, HandleSend
<1>2. CASE UNCHANGED <<inputBuf, accepted>>
    BY <1>1, <1>2 DEF InputType, QueueInv
<1>3. CASE ~UNCHANGED <<inputBuf, accepted>>
    <2> DEFINE S == 1..accepted + n
               more == [i \in 1..n |-> accepted + i]
    <2>1. /\ Len(inputBuf) + n <= InputCap
          /\ inputBuf' = inputBuf \o more /\ accepted' = accepted + n
        <3>1. ~(ended \/ closing \/ Len(inputBuf) + n > InputCap)
            BY <1>3 DEF HandleSend
        <3>2. Len(inputBuf) \in Nat BY DEF InputType
        <3>3. Len(inputBuf) + n <= InputCap BY <1>1, <3>1, <3>2
        <3>4. inputBuf' = inputBuf \o more /\ accepted' = accepted + n
            BY <3>1 DEF HandleSend
        <3> QED BY <3>3, <3>4
    <2>2. inputBuf \in Seq(S) /\ chunk \in Seq(S) /\ written \in Seq(S)
        BY <1>1, SeqGrows DEF InputType
    <2>3. more \in Seq(S) /\ Len(more) = n /\ \A i \in 1..n : more[i] = accepted + i
        BY <1>1
    <2> HIDE DEF more, S
    <2>4. /\ inputBuf \o more \in Seq(S) /\ Len(inputBuf \o more) = Len(inputBuf) + n
          /\ \A i \in 1..Len(inputBuf) : (inputBuf \o more)[i] = inputBuf[i]
          /\ \A i \in 1..n : (inputBuf \o more)[Len(inputBuf) + i] = more[i]
        <3>1. inputBuf \in Seq(S) /\ more \in Seq(S) /\ Len(more) = n BY <2>2, <2>3
        <3>2. /\ inputBuf \o more \in Seq(S) /\ Len(inputBuf \o more) = Len(inputBuf) + Len(more)
              /\ \A i \in 1..Len(inputBuf) : (inputBuf \o more)[i] = inputBuf[i]
              /\ \A i \in 1..Len(more) : (inputBuf \o more)[Len(inputBuf) + i] = more[i]
            BY <3>1
        <3> QED BY <3>1, <3>2
    <2> DEFINE b == inputBuf'
               m == Len(inputBuf)
    <2>5. /\ b \in Seq(S) /\ Len(b) = m + n /\ m \in Nat /\ m + n <= InputCap
          /\ \A i \in 1..m : b[i] = inputBuf[i]
          /\ \A i \in 1..n : b[m + i] = accepted + i
        BY <2>1, <2>2, <2>3, <2>4
    <2>6. /\ Len(written) \in Nat /\ Len(chunk) \in Nat
          /\ Len(written) + m = accepted /\ Len(chunk) <= m
          /\ \A i \in 1..Len(written) : written[i] = i
          /\ \A i \in 1..m : inputBuf[i] = Len(written) + i
          /\ \A i \in 1..Len(chunk) : chunk[i] = inputBuf[i]
        BY <2>2 DEF QueueInv
    <2>7. InputType'
        <3>1. accepted' \in 0..MaxIn BY <1>1, <2>1
        <3>2. 1..accepted' = S BY <2>1 DEF S
        <3> QED BY <1>1, <2>2, <2>5, <3>1, <3>2 DEF InputType
    <2> HIDE DEF b, m
    <2>8. ASSUME NEW i \in 1..Len(b) PROVE b[i] = Len(written) + i
        <3>1. CASE i <= m
            <4>1. i \in 1..m BY <2>5, <3>1
            <4> QED BY <2>5, <2>6, <4>1
        <3>2. CASE i > m
            <4>1. i - m \in 1..n /\ i = m + (i - m) BY <1>1, <2>5, <3>2
            <4>2. b[m + (i - m)] = accepted + (i - m) BY <2>5, <4>1
            <4>4. m \in Nat /\ Len(written) \in Nat /\ accepted = Len(written) + m BY <2>5, <2>6
            <4>5. i \in Nat BY <1>1, <2>5
            <4>3. accepted + (i - m) = Len(written) + i BY <4>4, <4>5
            <4> QED BY <4>1, <4>2, <4>3
        <3> QED BY <2>5, <3>1, <3>2
    <2>9. ASSUME NEW i \in 1..Len(chunk) PROVE chunk[i] = b[i]
        <3>1. i \in 1..m BY <2>5, <2>6
        <3> QED BY <2>5, <2>6, <3>1
    <2>10. Len(written) + Len(b) = accepted + n
        <3>1. /\ Len(b) = m + n /\ accepted = Len(written) + m
              /\ m \in Nat /\ Len(written) \in Nat
            BY <2>5, <2>6
        <3> QED BY <1>1, <3>1
    <2>11. Len(chunk) <= Len(b) /\ Len(b) <= InputCap
        BY <1>1, <2>5, <2>6
    <2>12. QueueInv'
        BY <1>1, <2>1, <2>6, <2>8, <2>9, <2>10, <2>11, Zenon DEF QueueInv, b
    <2> QED BY <2>7, <2>12
<1> QED BY <1>2, <1>3

\* Every step keeps the numbering.
LEMMA InputStep == InputType /\ QueueInv /\ [Next]_vars => InputType' /\ QueueInv'
<1> SUFFICES ASSUME InputType, QueueInv, [Next]_vars PROVE InputType' /\ QueueInv' OBVIOUS
<1>1. CASE UNCHANGED inputVars
    BY <1>1 DEF inputVars, InputType, QueueInv
<1>2. CASE TakeChunk
    BY <1>2 DEF TakeChunk, InputType, QueueInv
<1>3. CASE WriteChunk
    <2>1. chunk \in Seq(1..accepted) /\ Len(chunk) \in 0..Len(chunk) BY DEF InputType
    <2>2. SubSeq(chunk, 1, Len(chunk)) = chunk BY <2>1
    <2> QED BY <1>3, <2>1, <2>2, WrittenStep DEF WriteChunk
<1>4. ASSUME NEW n \in 0..MaxIn, WriteChunkFails(n) PROVE InputType' /\ QueueInv'
    <2>1. Len(chunk) \in Nat /\ n < Len(chunk) BY <1>4 DEF InputType, WriteChunkFails
    <2>2. n \in 0..Len(chunk) BY <2>1, BoundsAssumption
    <2> QED BY <1>4, <2>2, WrittenStep DEF WriteChunkFails
<1>5. CASE PumpInputReturns
    BY <1>5 DEF PumpInputReturns, InputType, QueueInv
<1> QED BY <1>1, <1>2, <1>3, <1>4, <1>5, InputFrame, QueuedStep DEF InputPump

\* Numbered in this way, the two sequences are the bytes in order.
LEMMA QueueOrder == InputType /\ QueueInv => InputInOrder
<1> SUFFICES ASSUME InputType, QueueInv PROVE InputInOrder OBVIOUS
<1> DEFINE S == 1..accepted
           m == Len(written)
           all == written \o inputBuf
<1>1. /\ written \in Seq(S) /\ inputBuf \in Seq(S) /\ accepted \in Nat
      /\ m \in Nat /\ Len(inputBuf) \in Nat
    BY DEF InputType
<1>2. /\ m + Len(inputBuf) = accepted /\ Len(inputBuf) <= InputCap
      /\ \A i \in 1..m : written[i] = i
      /\ \A i \in 1..Len(inputBuf) : inputBuf[i] = m + i
    BY DEF QueueInv
<1> HIDE DEF S, m
<1>3. /\ all \in Seq(S) /\ Len(all) = m + Len(inputBuf)
      /\ \A i \in 1..m : all[i] = written[i]
      /\ \A i \in 1..Len(inputBuf) : all[m + i] = inputBuf[i]
    BY <1>1, ConcatFacts DEF m
<1> HIDE DEF all
<1>4. ASSUME NEW i \in 1..accepted PROVE all[i] = i
    <2>1. CASE i <= m
        <3>1. i \in 1..m BY <1>1, <2>1
        <3> QED BY <1>2, <1>3, <3>1
    <2>2. CASE i > m
        <3>1. i - m \in 1..Len(inputBuf) /\ i = m + (i - m) BY <1>1, <1>2, <2>2
        <3>2. all[m + (i - m)] = m + (i - m) BY <1>2, <1>3, <3>1
        <3> QED BY <3>1, <3>2
    <2> QED BY <1>1, <2>1, <2>2
<1>5. all = [i \in 1..accepted |-> i]
    <2>1. all = [i \in 1..Len(all) |-> all[i]] BY <1>3
    <2>2. Len(all) = accepted BY <1>2, <1>3
    <2> QED BY <1>4, <2>1, <2>2
<1>6. accepted - m <= InputCap
    <2>1. m + Len(inputBuf) = accepted /\ Len(inputBuf) <= InputCap BY <1>2
    <2> QED BY <1>1, <2>1, BoundsAssumption
<1> QED BY <1>5, <1>6 DEF InputInOrder, all, m

-----------------------------------------------------------------------------
(* The answers.                                                            *)

\* A caller's step moves that caller only.
LEMMA StageStep ==
    ASSUME NEW r \in Callers, Caller(r)
    PROVE  \E stage \in Stages : at' = [at EXCEPT ![r] = stage]
BY DEF Stages, Stage, Reply, Caller, Dial, Accept, Answer, Handle, HandleInfo, HandleWait,
       HandleHistory, HandleSend,
       Kill, KillEnded, KillMarks, KillHups, KillEscalates, SignalFails, KillAnswers,
       Fallback, SendUnavailable, RecordFound, RecordMissing, StatSocket, PollTimesOut

\* What a caller may be told: nothing yet when it calls, the daemon's info (of
\* a session that has ended, unless it asked for info), the record, or no outcome.
LEMMA AnswerStep ==
    ASSUME NEW r \in Callers, Caller(r), LifeType, CallType, LifeParts
    PROVE  \/ UNCHANGED <<op, answer>>
           \/ \E o \in AllOps : /\ op' = [op EXCEPT ![r] = o]
                               /\ answer' = [answer EXCEPT ![r] = None]
           \/ \E a \in Answers :
                 /\ op' = op /\ answer' = [answer EXCEPT ![r] = a]
                 /\ \/ a = Info /\ (ended \/ op[r] = "info")
                    \/ a = record /\ record # None
                    \/ a.kind # "info"
<1> USE DEF Reply
<1>1. CASE \E o \in Ops[r] : Dial(r, o)
    BY <1>1, OpsAssumption DEF Dial
<1>2. CASE Accept(r) \/ Answer(r)
    BY <1>2 DEF Accept, Answer
<1>3. CASE HandleInfo(r)
    BY <1>3, InfoFacts DEF HandleInfo, Handling
<1>4. CASE HandleWait(r)
    BY <1>4, InfoFacts DEF HandleWait
<1>5. CASE HandleHistory(r)
    <2>1. out \in 0..MaxOut BY DEF LifeType
    <2>2. Failed \in Answers /\ Failed.kind # "info" BY AnswerFacts DEF Failed
    <2>3. Bytes(out) \in Answers /\ Bytes(out).kind # "info" BY <2>1, AnswerFacts DEF Bytes
    <2> QED BY <1>5, <2>2, <2>3 DEF HandleHistory
<1>6. ASSUME NEW n \in 0..MaxIn, HandleSend(r, n)
      PROVE  \E a \in Answers : /\ op' = op /\ answer' = [answer EXCEPT ![r] = a]
                               /\ a.kind # "info"
    <2>1. Ok \in Answers /\ Ok.kind # "info" BY AnswerFacts DEF Ok
    <2> QED BY <1>6, <2>1 DEF HandleSend
<1>7. CASE Kill(r)
    <2>1. Failed \in Answers /\ Failed.kind # "info" BY AnswerFacts DEF Failed
    <2>2. CASE KillEnded(r) \/ KillAnswers(r)
        BY <2>2, InfoFacts DEF KillEnded, KillAnswers
    <2>3. CASE KillMarks(r) \/ KillHups(r) \/ KillEscalates(r)
        BY <2>3 DEF KillMarks, KillHups, KillEscalates
    <2>4. CASE SignalFails(r)
        BY <2>1, <2>4 DEF SignalFails
    <2> QED BY <1>7, <2>2, <2>3, <2>4 DEF Kill
<1>8. CASE Fallback(r)
    <2>1. Missing \in Answers /\ Missing.kind # "info" BY AnswerFacts DEF Missing
    <2>2. CASE SendUnavailable(r) BY <2>1, <2>2 DEF SendUnavailable
    <2>3. CASE RecordFound(r)
        <3>1. record # None /\ record \in Answers
            BY <2>3, AnswerFacts DEF RecordFound, LifeType
        <3>2. history \in 0..MaxOut
            BY <3>1 DEF LifeType, LifeParts, RecordIsComplete
        <3>3. Bytes(history) \in Answers /\ Bytes(history).kind # "info"
            BY <3>2, AnswerFacts DEF Bytes
        <3> QED BY <2>3, <3>1, <3>3 DEF RecordFound
    <2>4. CASE RecordMissing(r) BY <2>1, <2>4 DEF RecordMissing
    <2>5. CASE StatSocket(r) BY <2>1, <2>5 DEF StatSocket
    <2>6. CASE PollTimesOut(r) BY <2>1, <2>6 DEF PollTimesOut
    <2> QED BY <1>8, <2>2, <2>3, <2>4, <2>5, <2>6 DEF Fallback
<1> QED BY <1>1, <1>2, <1>3, <1>4, <1>5, <1>6, <1>7, <1>8 DEF Caller, Handle

\* No other step answers anyone.
LEMMA AnswerFrame ==
    Run \/ Command \/ InputPump \/ UNCHANGED vars =>
        /\ UNCHANGED <<op, answer>>
        /\ at' = at \/ \E stages : Reset(stages)
<1> USE DEF callVars
<1>1. Run => UNCHANGED <<op, answer>> /\ (at' = at \/ \E stages : Reset(stages))
    BY DEF Run, Listen, Start, StartFails, StopServing, CloseListener, ClosePty, PumpsDone,
           WriteHistory, WriteRecord, PersistFails, RemoveSocket, Exit
<1>2. Command => UNCHANGED callVars
    BY DEF Command, ChildExits, HupEndsChild, KillEndsChild, Dies, Reap, Output, OutputEnds, StoreFails
<1>3. InputPump => UNCHANGED callVars
    BY DEF InputPump, TakeChunk, WriteChunk, WriteChunkFails, PumpInputReturns
<1> QED BY <1>1, <1>2, <1>3 DEF vars

\* Every step keeps the callers' types.
LEMMA CallTypeStep == LifeType /\ CallType /\ LifeParts /\ [Next]_vars => CallType'
<1> SUFFICES ASSUME LifeType, CallType, LifeParts, [Next]_vars PROVE CallType' OBVIOUS
<1>1. CASE Run \/ Command \/ InputPump \/ UNCHANGED vars
    BY <1>1, AnswerFrame DEF Reset, Stages, CallType
<1>2. ASSUME NEW r \in Callers, Caller(r) PROVE CallType'
    <2>1. at' \in [Callers -> Stages] BY <1>2, StageStep DEF CallType
    <2>2. None \in Answers BY AnswerFacts
    <2>3. op' \in [Callers -> AllOps] /\ answer' \in [Callers -> Answers]
        BY <1>2, <2>2, AnswerStep DEF CallType
    <2> QED BY <2>1, <2>3 DEF CallType
<1> QED BY <1>1, <1>2 DEF Next

\* Once the command was reaped, or failed to start, its outcome never changes.
LEMMA OutcomeIsFinal ==
    ASSUME LifeType, CallType, LifeParts, [Next]_vars, ended \/ exit = "spawn"
    PROVE  exit' = exit /\ killed' = killed /\ (ended' \/ exit' = "spawn")
<1> USE DEF LifeType, LifeParts, PhaseInv, UnstartedInv, childVars, flagVars
<1>1. child # "running" /\ phase # "listening"
    BY DEF BeforeStart
<1>2. CASE Run
    BY <1>1, <1>2 DEF Run, Listen, Start, StartFails, StopServing, CloseListener, ClosePty,
           PumpsDone, WriteHistory, WriteRecord, PersistFails, RemoveSocket, Exit
<1>3. CASE Command
    BY <1>1, <1>3 DEF Command, ChildExits, HupEndsChild, KillEndsChild, Dies, Reap, Output,
           OutputEnds, StoreFails
<1>4. CASE InputPump
    BY <1>4 DEF InputPump, TakeChunk, WriteChunk, WriteChunkFails, PumpInputReturns
<1>5. ASSUME NEW r \in Callers, Caller(r)
      PROVE  exit' = exit /\ killed' = killed /\ (ended' \/ exit' = "spawn")
    <2>1. ~KillMarks(r)
        BY DEF KillMarks, Handling, InFlight
    <2> QED BY <1>5, <2>1, CallerFrame DEF KillHups, KillEscalates, DaemonUnchanged
<1>6. CASE UNCHANGED vars BY <1>6 DEF vars
<1> QED BY <1>2, <1>3, <1>4, <1>5, <1>6 DEF Next

\* The record is written once, with the outcome.
LEMMA RecordStep ==
    ASSUME LifeType, CallType, LifeParts, [Next]_vars, Told(record),
           record # None => ~record.running
    PROVE  Told(record)' /\ (record' # None => ~record'.running)
<1>1. CASE record' = record
    BY <1>1, OutcomeIsFinal DEF Told
<1>2. CASE WriteRecord /\ phase = "recording"
    <2>1. ended BY <1>2 DEF LifeParts, PhaseInv, EndPhases
    <2>2. record' = Info /\ exit' = exit /\ killed' = killed /\ ended' = ended
        BY <1>2 DEF WriteRecord, childVars, flagVars
    <2>3. ~record'.running /\ record'.exit = exit /\ record'.killed = killed
        BY <2>1, <2>2, InfoFacts
    <2> QED BY <2>1, <2>2, <2>3 DEF Told
<1>3. CASE WriteRecord /\ phase = "spawnRecording"
    <2>1. exit = "spawn" /\ ~killed
        BY <1>3 DEF LifeParts, PhaseInv, UnstartedInv, SpawnPhases
    <2>2. killed = FALSE BY <2>1 DEF LifeType
    <2>3. record' = SpawnFailure /\ exit' = exit /\ killed' = killed
        BY <1>3 DEF WriteRecord, childVars, flagVars
    <2>4. ~record'.running /\ record'.exit = exit /\ record'.killed = killed
        BY <2>1, <2>2, <2>3 DEF SpawnFailure
    <2> QED BY <2>1, <2>3, <2>4 DEF Told
<1>4. record' = record \/ WriteRecord
    <2>1. Run => record' = record \/ WriteRecord
        BY DEF Run, Listen, Start, StartFails, StopServing, CloseListener, ClosePty,
               PumpsDone, WriteHistory, PersistFails, RemoveSocket, Exit, fileVars
    <2>2. Command => record' = record
        BY DEF Command, ChildExits, HupEndsChild, KillEndsChild, Dies, Reap, Output, OutputEnds,
               StoreFails, fileVars
    <2>3. InputPump => record' = record
        BY DEF InputPump, TakeChunk, WriteChunk, WriteChunkFails, PumpInputReturns, fileVars
    <2>4. ASSUME NEW r \in Callers, Caller(r) PROVE record' = record
        BY <2>4, CallerFrame DEF KillMarks, KillHups, KillEscalates, DaemonUnchanged, fileVars
    <2> QED BY <2>1, <2>2, <2>3, <2>4 DEF Next, vars, fileVars
<1> QED BY <1>1, <1>2, <1>3, <1>4 DEF WriteRecord

\* Every step keeps everyone told the same.
LEMMA ToldStep ==
    LifeType /\ CallType /\ LifeParts /\ ToldInv /\ [Next]_vars => ToldInv'
<1> SUFFICES ASSUME LifeType, CallType, LifeParts, ToldInv, [Next]_vars PROVE ToldInv'
    OBVIOUS
<1>1. Told(record)' /\ (record' # None => ~record'.running)
    BY RecordStep DEF ToldInv
<1> DEFINE Sync(o, a) == o \in {"wait", "kill"} /\ a.kind = "info" => ~a.running
<1> SUFFICES ASSUME NEW q \in Callers PROVE Told(answer[q])' /\ Sync(op'[q], answer'[q])
    BY <1>1 DEF ToldInv
<1>2. Told(answer[q]) /\ Sync(op[q], answer[q])
    BY DEF ToldInv
<1>3. CASE answer'[q] = answer[q] /\ op'[q] = op[q]
    BY <1>2, <1>3, OutcomeIsFinal DEF Told
<1>4. CASE answer'[q] = None
    BY <1>4 DEF Told, None
<1>5. CASE answer'[q].kind # "info"
    BY <1>5 DEF Told
<1>6. CASE op'[q] = op[q] /\ answer'[q] = Info /\ (ended \/ op[q] = "info")
    <2>1. CASE ended
        BY <1>6, <2>1, InfoFacts, OutcomeIsFinal DEF Told
    <2>2. CASE ~ended
        BY <1>6, <2>2, InfoFacts DEF Told
    <2> QED BY <2>1, <2>2
<1>7. CASE op'[q] = op[q] /\ answer'[q] = record /\ record # None
    <2>1. Told(record) /\ ~record.running
        BY <1>7 DEF ToldInv
    <2> QED BY <1>7, <2>1, OutcomeIsFinal DEF Told
<1>8. CASE Run \/ Command \/ InputPump \/ UNCHANGED vars
    BY <1>3, <1>8, AnswerFrame
<1>9. ASSUME NEW r \in Callers, Caller(r)
      PROVE  Told(answer[q])' /\ Sync(op'[q], answer'[q])
    <2>1. CASE q # r
        BY <1>3, <1>9, <2>1, AnswerStep DEF CallType
    <2>2. CASE q = r
        BY <1>3, <1>4, <1>5, <1>6, <1>7, <1>9, <2>2, AnswerStep DEF CallType
    <2> QED BY <2>1, <2>2
<1> QED BY <1>8, <1>9 DEF Next

-----------------------------------------------------------------------------
(* The invariants.                                                         *)

SessionInv == LifeInv /\ ToldInv /\ QueueInv

\* The session starts with nothing stored, queued or told.
LEMMA InvInit == Init => SessionInv
<1> SUFFICES ASSUME Init PROVE SessionInv OBVIOUS
<1>1. LifeType
    <2>1. {hup, sigkill, ended, killed, closing, sockFile, outDone, storeErr, persistErr, ptyOpen} \subseteq BOOLEAN
        BY DEF Init
    <2>2. history \in Nat \cup {NoHistory} /\ out \in 0..MaxOut /\ record \in Outcome \cup {None}
        BY BoundsAssumption DEF Init
    <2>3. phase \in Phases /\ exit \in Exits /\ (ended <=> child = "reaped")
        BY DEF Init, Phases, Exits
    <2> QED BY <2>1, <2>2, <2>3 DEF Init, LifeType
<1>2. InputType
    BY BoundsAssumption DEF Init, InputType
<1>3. CallType
    BY AnswerFacts DEF Init, CallType, AllOps, Stages
<1>4. LifeParts
    BY DEF Init, LifeParts, PhaseInv, UnstartedInv, FilesInv, RecordIsComplete, BeforeStart,
           SpawnPhases, EndPhases, Over, InFlight
<1>5. ToldInv
    BY DEF Init, ToldInv, Told, None
<1>6. QueueInv
    BY BoundsAssumption DEF Init, QueueInv
<1> QED BY <1>1, <1>2, <1>3, <1>4, <1>5, <1>6, TypeGroups DEF SessionInv, LifeInv, LifeParts

\* Every step keeps the invariant.
LEMMA InvStep == SessionInv /\ [Next]_vars => SessionInv'
<1> SUFFICES ASSUME SessionInv, [Next]_vars PROVE SessionInv' OBVIOUS
<1>1. LifeType /\ InputType /\ CallType /\ LifeParts /\ ToldInv /\ QueueInv
    BY TypeGroups DEF SessionInv, LifeInv, LifeParts
<1>2. LifeType' BY <1>1, LifeTypeStep DEF LifeParts
<1>3. CallType' /\ LifeParts' BY <1>1, CallTypeStep, LifeStep
<1>4. InputType' /\ QueueInv' BY <1>1, InputStep
<1>5. ToldInv' BY <1>1, ToldStep
<1>6. TypeOK' BY <1>2, <1>3, <1>4 DEF TypeOK, LifeType, InputType, CallType
<1> QED BY <1>3, <1>4, <1>5, <1>6 DEF SessionInv, LifeInv, LifeParts

\* The invariant holds at all times.
LEMMA SessionInvariant == Spec => []SessionInv
BY InvInit, InvStep, PTL DEF Spec

\* Whatever kills, exits, requests and failures do, every variable keeps its
\* type and s.ended says exactly that the command was reaped.
THEOREM TypeCorrect == Spec => []TypeOK
<1>1. SessionInv => TypeOK BY DEF SessionInv, LifeInv
<1> QED BY <1>1, SessionInvariant, PTL

\* Everyone who is told of an ended session, by the daemon or by its record, is
\* told the same exit and the same killed flag, and wait and kill never report
\* a running session.
THEOREM SameOutcome == Spec => []OutcomeAgrees
<1>1. SessionInv => OutcomeAgrees
    BY DEF SessionInv, ToldInv, Told, OutcomeAgrees
<1> QED BY <1>1, SessionInvariant, PTL

\* A record stands beside the complete history, whenever it is read.
THEOREM CompleteRecord == Spec => []RecordIsComplete
<1>1. SessionInv => RecordIsComplete BY DEF SessionInv, LifeInv
<1> QED BY <1>1, SessionInvariant, PTL

\* The input a session accepted reaches its PTY in order, once, within the cap.
THEOREM OrderedInput == Spec => []InputInOrder
<1>1. SessionInv => InputInOrder
    BY TypeGroups, QueueOrder DEF SessionInv, LifeInv
<1> QED BY <1>1, SessionInvariant, PTL

\* There is no moment at which a session that listened has neither a socket
\* file nor a record, unless persisting it failed.
THEOREM AlwaysMarked == Spec => []SocketUntilRecord
<1>1. SessionInv => SocketUntilRecord
    BY DEF SessionInv, LifeInv, FilesInv, SocketUntilRecord, Over
<1> QED BY <1>1, SessionInvariant, PTL
=============================================================================
