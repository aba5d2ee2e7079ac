------------------------------ MODULE Session ------------------------------
(***************************************************************************)
(* The life of one session: the daemon's Session.run from listen to exit,  *)
(* the command and the signals of the kill ladder, the PTY input pump, the *)
(* handlers of the one-shot requests (info, wait, kill, send, history of   *)
(* daemon/daemon.go), and the library calls that make those requests and   *)
(* fall back to the record on disk when the daemon does not answer         *)
(* (command_api.go).                                                       *)
(*                                                                         *)
(* Output is counted in bytes.  An input byte is the number of its place   *)
(* among the bytes the daemon accepted.  Exit codes are told apart by what *)
(* ended the command.                                                      *)
(***************************************************************************)
EXTENDS Integers, Sequences

CONSTANTS
    Callers,          \* processes that call the library
    Ops,              \* the operations each of them uses
    InputCap,         \* ptyInputCap
    MaxIn, MaxOut,    \* bounds: input bytes accepted, output bytes written
    SpawnMayFail,     \* whether the command may fail to start
    StorageMayFail,   \* whether scrollback or record files may fail
    SignalMayFail,    \* whether kill(2) may fail other than with ESRCH
    Slow,             \* callers whose requests may outlast connDrainGrace
    PollMayTimeOut    \* whether the poll for a record may expire

AllOps == {"info", "wait", "kill", "send", "history"}

ASSUME OpsAssumption == Ops \in [Callers -> SUBSET AllOps]
ASSUME BoundsAssumption == InputCap \in Nat /\ MaxIn \in Nat /\ MaxOut \in Nat
ASSUME FaultsAssumption ==
    {SpawnMayFail, StorageMayFail, SignalMayFail, PollMayTimeOut} \subseteq BOOLEAN
ASSUME SlowAssumption == Slow \subseteq Callers

VARIABLES
    phase,      \* where Session.run stands
    child,      \* the command
    exit,       \* what ended it
    hup,        \* a SIGHUP was sent
    sigkill,    \* a SIGKILL was sent
    ended, killed, closing,
    listener,
    sockFile,   \* the socket file exists
    history,    \* bytes in the history file, or None
    record,     \* the record file, or None
    persistErr, \* run's error from persist or persistSpawnError
    out,        \* bytes stored in the scrollback
    outDone,
    storeErr,   \* Store.Err
    ptyOpen,
    inputBuf,
    accepted,   \* input bytes queued so far
    inPump,     \* where pumpInputTo stands
    chunk,      \* the copy of inputBuf it is writing
    written,    \* the bytes the PTY took
    op, at,     \* each caller's operation and where it stands
    answer      \* what it was told

childVars == <<child, exit, hup, sigkill>>
flagVars == <<ended, killed, closing>>
fileVars == <<sockFile, history, record, persistErr>>
outVars == <<out, outDone, storeErr>>
inputVars == <<inputBuf, accepted, inPump, chunk, written>>
callVars == <<op, at, answer>>
vars == <<phase, childVars, flagVars, listener, fileVars, outVars, ptyOpen, inputVars, callVars>>

None == [kind |-> "none"]
Missing == [kind |-> "missing"]
Failed == [kind |-> "error"]
Ok == [kind |-> "ok"]
Bytes(n) == [kind |-> "history", bytes |-> n]

\* info(): exit state is reported only once s.ended is set.
Info == [kind |-> "info", running |-> ~ended,
         exit |-> IF ended THEN exit ELSE "none",
         killed |-> ended /\ killed]

Exits == {"none", "natural", "hup", "kill", "spawn"}
Outcome == [kind : {"info"}, running : BOOLEAN, exit : Exits, killed : BOOLEAN]
Answers == Outcome \cup {None, Missing, Failed, Ok} \cup {Bytes(n) : n \in 0..MaxOut}

Phases == {"init", "listening", "serving", "closing", "draining", "ptyClosed", "drained",
           "recording", "persisted", "spawnFailed", "spawnRecording", "spawnPersisted",
           "unlinked", "exited"}
Stages == {"idle", "queued", "handling", "hup", "grace", "dying", "replying", "answered",
           "fallback", "stat", "polling"}

NoHistory == -1

TypeOK ==
    /\ phase \in Phases
    /\ child \in {"none", "running", "zombie", "reaped"}
    /\ exit \in Exits
    /\ {hup, sigkill, ended, killed, closing, sockFile, outDone, storeErr, persistErr, ptyOpen} \subseteq BOOLEAN
    /\ ended <=> child = "reaped"
    /\ listener \in {"none", "open", "closed"}
    /\ history \in Nat \cup {NoHistory}
    /\ record \in Outcome \cup {None}
    /\ out \in 0..MaxOut
    /\ inputBuf \in Seq(1..accepted) /\ chunk \in Seq(1..accepted) /\ written \in Seq(1..accepted)
    /\ accepted \in 0..MaxIn
    /\ inPump \in {"idle", "writing", "done"}
    /\ op \in [Callers -> AllOps] /\ at \in [Callers -> Stages]
    /\ answer \in [Callers -> Answers]

\* newSession, before listen; a socket file may be left from a crash.
Init ==
    /\ phase = "init" /\ child = "none" /\ exit = "none" /\ hup = FALSE /\ sigkill = FALSE
    /\ ended = FALSE /\ killed = FALSE /\ closing = FALSE
    /\ listener = "none" /\ sockFile \in BOOLEAN /\ history = NoHistory
    /\ record = None /\ persistErr = FALSE
    /\ out = 0 /\ outDone = FALSE /\ storeErr = FALSE /\ ptyOpen = FALSE
    /\ inputBuf = <<>> /\ accepted = 0 /\ inPump = "idle" /\ chunk = <<>> /\ written = <<>>
    /\ op = [r \in Callers |-> "info"]
    /\ at = [r \in Callers |-> "idle"]
    /\ answer = [r \in Callers |-> None]

Alive == phase # "exited"

-----------------------------------------------------------------------------
(* Session.run: startup.                                                   *)

\* listen replaces any stale socket file.
Listen ==
    /\ phase = "init"
    /\ phase' = "listening"
    /\ listener' = "open"
    /\ sockFile' = TRUE
    /\ UNCHANGED <<childVars, flagVars, history, record, persistErr, outVars, ptyOpen, inputVars, callVars>>

\* start: the command runs in a PTY, the pumps and the accept loop start.
Start ==
    /\ phase = "listening"
    /\ phase' = "serving"
    /\ child' = "running"
    /\ ptyOpen' = TRUE
    /\ UNCHANGED <<exit, hup, sigkill, flagVars, listener, fileVars, outVars, inputVars, callVars>>

StartFails ==
    /\ phase = "listening" /\ SpawnMayFail
    /\ phase' = "spawnFailed"
    /\ exit' = "spawn"
    /\ UNCHANGED <<child, hup, sigkill, flagVars, listener, fileVars, outVars, ptyOpen, inputVars, callVars>>

-----------------------------------------------------------------------------
(* The command.                                                            *)

Dies(how) ==
    /\ child = "running"
    /\ child' = "zombie"
    /\ exit' = how
    /\ UNCHANGED <<phase, hup, sigkill, flagVars, listener, fileVars, outVars, ptyOpen, inputVars, callVars>>

ChildExits == Alive /\ Dies("natural")
HupEndsChild == Alive /\ hup /\ Dies("hup")
KillEndsChild == Alive /\ sigkill /\ Dies("kill")

\* reap: cmd.Wait returned; s.ended is set and waiters are woken.
Reap ==
    /\ Alive /\ child = "zombie"
    /\ child' = "reaped"
    /\ ended' = TRUE
    /\ UNCHANGED <<phase, exit, hup, sigkill, killed, closing, listener, fileVars, outVars,
                   ptyOpen, inputVars, callVars>>

\* The output pump stores a chunk; the command's descendants may write on.
Output ==
    /\ Alive /\ ptyOpen /\ ~outDone /\ out < MaxOut
    /\ out' = out + 1
    /\ UNCHANGED <<phase, childVars, flagVars, listener, fileVars, outDone, storeErr,
                   ptyOpen, inputVars, callVars>>

\* The PTY read fails: the last holder of the slave closed it, or ptmx was closed.
OutputEnds ==
    /\ Alive /\ child # "none" /\ ~outDone
    /\ outDone' = TRUE
    /\ UNCHANGED <<phase, childVars, flagVars, listener, fileVars, out, storeErr,
                   ptyOpen, inputVars, callVars>>

\* The store's drain goroutine could not keep a chunk.
StoreFails ==
    /\ Alive /\ StorageMayFail /\ out > 0 /\ ~storeErr
    /\ storeErr' = TRUE
    /\ UNCHANGED <<phase, childVars, flagVars, listener, fileVars, out, outDone,
                   ptyOpen, inputVars, callVars>>

-----------------------------------------------------------------------------
(* pumpInputTo.                                                            *)

\* Copy the queue, leaving its bytes in it until they are written.
TakeChunk ==
    /\ Alive /\ child # "none" /\ inPump = "idle" /\ inputBuf # <<>>
    /\ chunk' = inputBuf
    /\ inPump' = "writing"
    /\ UNCHANGED <<phase, childVars, flagVars, listener, fileVars, outVars, ptyOpen,
                   inputBuf, accepted, written, callVars>>

Drop(n, s) == SubSeq(s, n + 1, Len(s))

\* Mutant: the whole queue is cleared, with what was queued meanwhile.
WriteChunkClears ==
    /\ Alive /\ inPump = "writing" /\ ptyOpen
    /\ written' = written \o chunk
    /\ inputBuf' = <<>>
    /\ chunk' = <<>>
    /\ inPump' = "idle"
    /\ UNCHANGED <<phase, childVars, flagVars, listener, fileVars, outVars, ptyOpen,
                   accepted, callVars>>

\* The command read everything: the written bytes leave the queue.
WriteChunk ==
    /\ Alive /\ inPump = "writing" /\ ptyOpen
    /\ written' = written \o chunk
    /\ inputBuf' = Drop(Len(chunk), inputBuf)
    /\ chunk' = <<>>
    /\ inPump' = "idle"
    /\ UNCHANGED <<phase, childVars, flagVars, listener, fileVars, outVars, ptyOpen,
                   accepted, callVars>>

\* The write fails after n bytes (ptmx closed, or no reader is left).
WriteChunkFails(n) ==
    /\ Alive /\ inPump = "writing" /\ n < Len(chunk)
    /\ ~ptyOpen \/ child # "running"
    /\ written' = written \o SubSeq(chunk, 1, n)
    /\ inputBuf' = Drop(n, inputBuf)
    /\ chunk' = <<>>
    /\ inPump' = "done"
    /\ UNCHANGED <<phase, childVars, flagVars, listener, fileVars, outVars, ptyOpen,
                   accepted, callVars>>

PumpInputReturns ==
    /\ Alive /\ inPump = "idle" /\ inputBuf = <<>> /\ ended
    /\ inPump' = "done"
    /\ UNCHANGED <<phase, childVars, flagVars, listener, fileVars, outVars, ptyOpen,
                   inputBuf, accepted, chunk, written, callVars>>

-----------------------------------------------------------------------------
(* Requests.  A caller's operation goes from the dial to its answer.       *)

Stage(r, stage) == at' = [at EXCEPT ![r] = stage]

Reply(r, what) ==
    /\ answer' = [answer EXCEPT ![r] = what]
    /\ Stage(r, "replying")

DaemonUnchanged == UNCHANGED <<phase, childVars, flagVars, listener, fileVars, outVars, ptyOpen>>

\* Dial: the connection waits in the listener's backlog, or is refused.
Dial(r, o) ==
    /\ phase # "init" /\ at[r] \in {"idle", "answered"}
    /\ op' = [op EXCEPT ![r] = o]
    /\ answer' = [answer EXCEPT ![r] = None]
    /\ Stage(r, IF listener = "open" THEN "queued" ELSE "fallback")
    /\ DaemonUnchanged /\ UNCHANGED inputVars

\* acceptLoop: a connection accepted while closing is closed at once.
Accept(r) ==
    /\ phase \in {"serving", "closing"} /\ at[r] = "queued"
    /\ Stage(r, IF closing THEN "fallback" ELSE "handling")
    /\ DaemonUnchanged /\ UNCHANGED <<inputVars, op, answer>>

Handling(r, o) == Alive /\ at[r] = "handling" /\ op[r] = o

HandleInfo(r) ==
    /\ Handling(r, "info")
    /\ Reply(r, Info)
    /\ DaemonUnchanged /\ UNCHANGED <<inputVars, op>>

\* Mutant: the wait handler checks once and misses the wakeup.
HandleWaitDeaf(r) ==
    /\ Handling(r, "wait") /\ ended /\ phase = "serving"
    /\ Reply(r, Info)
    /\ DaemonUnchanged /\ UNCHANGED <<inputVars, op>>

\* waitForExit, then info.
HandleWait(r) ==
    /\ Handling(r, "wait") /\ ended
    /\ Reply(r, Info)
    /\ DaemonUnchanged /\ UNCHANGED <<inputVars, op>>

HandleHistory(r) ==
    /\ Handling(r, "history")
    /\ Reply(r, IF storeErr THEN Failed ELSE Bytes(out))
    /\ DaemonUnchanged /\ UNCHANGED <<inputVars, op>>

\* queueInput of n bytes: all or none of them; the answer is OK either way.
HandleSend(r, n) ==
    /\ Handling(r, "send")
    /\ accepted + n <= MaxIn
    /\ IF ended \/ closing \/ Len(inputBuf) + n > InputCap
       THEN UNCHANGED <<inputBuf, accepted>>
       ELSE /\ inputBuf' = inputBuf \o [i \in 1..n |-> accepted + i]
            /\ accepted' = accepted + n
    /\ Reply(r, Ok)
    /\ DaemonUnchanged /\ UNCHANGED <<inPump, chunk, written, op>>

\* kill on a session that has ended: nothing to do.
KillEnded(r) ==
    /\ Handling(r, "kill") /\ ended
    /\ Reply(r, Info)
    /\ DaemonUnchanged /\ UNCHANGED <<inputVars, op>>

\* Mutant: kill does not look whether the session has ended.
KillAlways(r) ==
    /\ Handling(r, "kill")
    /\ killed' = TRUE
    /\ Stage(r, "hup")
    /\ UNCHANGED <<phase, childVars, ended, closing, listener, fileVars, outVars, ptyOpen,
                   inputVars, op, answer>>

\* kill marks the session killed and releases s.mu before it signals.
KillMarks(r) ==
    /\ Handling(r, "kill") /\ ~ended
    /\ killed' = TRUE
    /\ Stage(r, "hup")
    /\ UNCHANGED <<phase, childVars, ended, closing, listener, fileVars, outVars, ptyOpen,
                   inputVars, op, answer>>

\* SIGHUP to the process group; a group that is gone (ESRCH) is no error.
KillHups(r) ==
    /\ Alive /\ at[r] = "hup"
    /\ hup' = TRUE
    /\ Stage(r, "grace")
    /\ UNCHANGED <<phase, child, exit, sigkill, flagVars, listener, fileVars, outVars,
                   ptyOpen, inputVars, op, answer>>

\* Mutant: after the grace the ladder only waits.
KillPatient(r) ==
    /\ Alive /\ at[r] = "grace"
    /\ Stage(r, "dying")
    /\ DaemonUnchanged /\ UNCHANGED <<inputVars, op, answer>>

\* killGrace passed: SIGKILL.
KillEscalates(r) ==
    /\ Alive /\ at[r] = "grace"
    /\ sigkill' = TRUE
    /\ Stage(r, "dying")
    /\ UNCHANGED <<phase, child, exit, hup, flagVars, listener, fileVars, outVars,
                   ptyOpen, inputVars, op, answer>>

SignalFails(r) ==
    /\ Alive /\ at[r] \in {"hup", "grace"} /\ SignalMayFail
    /\ Reply(r, Failed)
    /\ DaemonUnchanged /\ UNCHANGED <<inputVars, op>>

\* <-s.done, then waitForExit and info.
KillAnswers(r) ==
    /\ Alive /\ at[r] \in {"grace", "dying"} /\ ended
    /\ Reply(r, Info)
    /\ DaemonUnchanged /\ UNCHANGED <<inputVars, op>>

\* The response is written and read.
Answer(r) ==
    /\ Alive /\ at[r] = "replying"
    /\ Stage(r, "answered")
    /\ DaemonUnchanged /\ UNCHANGED <<inputVars, op, answer>>

-----------------------------------------------------------------------------
(* The callers' fallback when the daemon does not answer (Info, Wait, Kill, *)
(* Send and History of command_api.go).                                    *)

\* Send is for live sessions only.
SendUnavailable(r) ==
    /\ at[r] = "fallback" /\ op[r] = "send"
    /\ answer' = [answer EXCEPT ![r] = Missing]
    /\ Stage(r, "answered")
    /\ DaemonUnchanged /\ UNCHANGED <<inputVars, op>>

\* EndedRecord found: its content is the answer (History reads the history).
RecordFound(r) ==
    /\ at[r] \in {"fallback", "polling"} /\ op[r] # "send" /\ record # None
    /\ answer' = [answer EXCEPT ![r] =
                    IF op[r] = "history" THEN Bytes(history) ELSE record]
    /\ Stage(r, "answered")
    /\ DaemonUnchanged /\ UNCHANGED <<inputVars, op>>

\* No record: only Wait looks further.
RecordMissing(r) ==
    /\ at[r] = "fallback" /\ op[r] # "send" /\ record = None
    /\ IF op[r] = "wait"
       THEN Stage(r, "stat") /\ UNCHANGED answer
       ELSE Stage(r, "answered") /\ answer' = [answer EXCEPT ![r] = Missing]
    /\ DaemonUnchanged /\ UNCHANGED <<inputVars, op>>

\* Wait polls for the record as long as the socket file is there.
StatSocket(r) ==
    /\ at[r] = "stat"
    /\ IF sockFile
       THEN Stage(r, "polling") /\ UNCHANGED answer
       ELSE Stage(r, "answered") /\ answer' = [answer EXCEPT ![r] = Missing]
    /\ DaemonUnchanged /\ UNCHANGED <<inputVars, op>>

PollTimesOut(r) ==
    /\ at[r] = "polling" /\ PollMayTimeOut
    /\ answer' = [answer EXCEPT ![r] = Missing]
    /\ Stage(r, "answered")
    /\ DaemonUnchanged /\ UNCHANGED <<inputVars, op>>

-----------------------------------------------------------------------------
(* Session.run: shutdown.                                                  *)

\* <-s.done; no connection is served from here on.
StopServing ==
    /\ phase = "serving" /\ ended
    /\ phase' = "closing"
    /\ closing' = TRUE
    /\ UNCHANGED <<childVars, ended, killed, listener, fileVars, outVars, ptyOpen, inputVars, callVars>>

\* Callers in a closed listener's backlog are reset.
Reset(stages) == at' = [r \in Callers |-> IF at[r] \in stages THEN "fallback" ELSE at[r]]

\* Mutant: closing the listener unlinks the socket file (Go's default).
CloseListenerUnlinks ==
    /\ phase = "closing"
    /\ phase' = "draining"
    /\ listener' = "closed"
    /\ sockFile' = FALSE
    /\ Reset({"queued"})
    /\ UNCHANGED <<childVars, flagVars, history, record, persistErr, outVars, ptyOpen, inputVars, op, answer>>

\* listener.Close leaves the socket file in place; <-s.acceptDone.
CloseListener ==
    /\ phase = "closing"
    /\ phase' = "draining"
    /\ listener' = "closed"
    /\ Reset({"queued"})
    /\ UNCHANGED <<childVars, flagVars, fileVars, outVars, ptyOpen, inputVars, op, answer>>

\* Mutant: the input pump is awaited while the PTY is still open.
ClosePtyLate ==
    /\ phase = "draining" /\ inPump = "done"
    /\ phase' = "ptyClosed"
    /\ ptyOpen' = FALSE
    /\ UNCHANGED <<childVars, flagVars, listener, fileVars, outVars, inputVars, callVars>>

\* outDone or outputDrainGrace; then ptmx.Close.
ClosePty ==
    /\ phase = "draining"
    /\ phase' = "ptyClosed"
    /\ ptyOpen' = FALSE
    /\ UNCHANGED <<childVars, flagVars, listener, fileVars, outVars, inputVars, callVars>>

\* Mutant: persist does not wait for the output pump.
PumpsDoneEarly ==
    /\ phase = "ptyClosed" /\ inPump = "done"
    /\ phase' = "drained"
    /\ UNCHANGED <<childVars, flagVars, listener, fileVars, outVars, ptyOpen, inputVars, callVars>>

\* <-s.outDone and <-s.inputDone; endAttachers.
PumpsDone ==
    /\ phase = "ptyClosed" /\ outDone /\ inPump = "done"
    /\ phase' = "drained"
    /\ UNCHANGED <<childVars, flagVars, listener, fileVars, outVars, ptyOpen, inputVars, callVars>>

\* writeRecord: the history file first.
WriteHistory ==
    /\ phase \in {"drained", "spawnFailed"} /\ ~storeErr
    /\ history' = out
    /\ phase' = IF phase = "drained" THEN "recording" ELSE "spawnRecording"
    /\ UNCHANGED <<childVars, flagVars, listener, sockFile, record, persistErr, outVars, ptyOpen, inputVars, callVars>>

SpawnFailure == [kind |-> "info", running |-> FALSE, exit |-> "spawn", killed |-> FALSE]

\* writeRecord: the record makes the session visible as ended.
WriteRecord ==
    /\ phase \in {"recording", "spawnRecording"}
    /\ record' = IF phase = "recording" THEN Info ELSE SpawnFailure
    /\ phase' = IF phase = "recording" THEN "persisted" ELSE "spawnPersisted"
    /\ UNCHANGED <<childVars, flagVars, listener, sockFile, history, persistErr, outVars, ptyOpen, inputVars, callVars>>

\* persist fails: on a store error before anything is written, or while a
\* file is written.  The shutdown goes on without a record.
PersistFails ==
    /\ phase \in {"drained", "recording", "spawnFailed", "spawnRecording"} /\ StorageMayFail
    /\ phase' = IF phase \in {"drained", "recording"} THEN "persisted" ELSE "spawnPersisted"
    /\ persistErr' = TRUE
    /\ UNCHANGED <<childVars, flagVars, listener, sockFile, history, record, outVars, ptyOpen, inputVars, callVars>>

\* removeSocket; after a failed start the listener is closed first.
RemoveSocket ==
    /\ phase \in {"persisted", "spawnPersisted"}
    /\ phase' = "unlinked"
    /\ listener' = "closed"
    /\ sockFile' = FALSE
    /\ Reset({"queued"})
    /\ UNCHANGED <<childVars, flagVars, history, record, persistErr, outVars, ptyOpen, inputVars, op, answer>>

InFlight == {"handling", "hup", "grace", "dying", "replying"}

\* waitConns: no handler is left, or connDrainGrace is over; then the process
\* exits and cuts the connections still open.
Exit ==
    /\ phase = "unlinked"
    /\ \A r \in Callers \ Slow : at[r] \notin InFlight
    /\ phase' = "exited"
    /\ Reset(InFlight)
    /\ UNCHANGED <<childVars, flagVars, listener, fileVars, outVars, ptyOpen, inputVars, op, answer>>

-----------------------------------------------------------------------------
Command == ChildExits \/ HupEndsChild \/ KillEndsChild \/ Reap \/ Output \/ OutputEnds \/ StoreFails

InputPump ==
    \/ TakeChunk \/ WriteChunk \/ PumpInputReturns
    \/ \E n \in 0..MaxIn : WriteChunkFails(n)

Kill(r) ==
    \/ KillEnded(r) \/ KillMarks(r) \/ KillHups(r) \/ KillEscalates(r)
    \/ SignalFails(r) \/ KillAnswers(r)

Handle(r) ==
    \/ HandleInfo(r) \/ HandleWait(r) \/ HandleHistory(r)
    \/ \E n \in 0..MaxIn : HandleSend(r, n)
    \/ Kill(r)

Fallback(r) ==
    \/ SendUnavailable(r) \/ RecordFound(r) \/ RecordMissing(r)
    \/ StatSocket(r) \/ PollTimesOut(r)

Caller(r) ==
    \/ \E o \in Ops[r] : Dial(r, o)
    \/ Accept(r) \/ Handle(r) \/ Answer(r) \/ Fallback(r)

Run ==
    \/ Listen \/ Start \/ StartFails
    \/ StopServing \/ CloseListener \/ ClosePty \/ PumpsDone
    \/ WriteHistory \/ WriteRecord \/ PersistFails \/ RemoveSocket \/ Exit

Next ==
    \/ Run
    \/ Command
    \/ InputPump
    \/ \E r \in Callers : Caller(r)

Spec == Init /\ [][Next]_vars

\* The daemon's goroutines run; a read or write on the PTY returns once ptmx
\* is closed; SIGKILL ends the command.  The command itself never has to read
\* its input, to write, to mind SIGHUP or to exit.
DaemonFairness ==
    /\ WF_vars(StopServing \/ CloseListener \/ ClosePty \/ PumpsDone
                \/ WriteHistory \/ WriteRecord \/ PersistFails \/ RemoveSocket \/ Exit)
    /\ WF_vars(KillEndsChild) /\ WF_vars(Reap)
    /\ WF_vars(TakeChunk \/ PumpInputReturns)
    /\ WF_vars(~ptyOpen /\ OutputEnds)
    /\ WF_vars(~ptyOpen /\ \E n \in 0..MaxIn : WriteChunkFails(n))
    /\ \A r \in Callers : WF_vars(KillHups(r) \/ KillEscalates(r))

\* A caller that is not slow takes its answer, so its handler runs through.
FairSpec ==
    /\ Spec /\ DaemonFairness
    /\ \A r \in Callers \ Slow : WF_vars(Accept(r) \/ Handle(r) \/ Answer(r))


-----------------------------------------------------------------------------
(* Properties.                                                             *)

\* However a kill, the command's own exit and the requests interleave,
\* everyone is told the same outcome, and the record on disk says the same; and
\* wait and kill are synchronous, never telling of a session still running.
OutcomeAgrees ==
    /\ \A a \in {answer[r] : r \in Callers} \cup {record} :
          a.kind = "info" /\ ~a.running => a.exit = exit /\ a.killed = killed
    /\ \A r \in Callers :
          op[r] \in {"wait", "kill"} /\ answer[r].kind = "info" => ~answer[r].running

\* Accepted input reaches the PTY in order, without loss or repetition: what
\* was written and what is queued are together what was accepted, also when
\* more is queued during a write and when a write fails half way (pumpInputTo).
\* What is held stays within the cap, counting what a blocked write has in
\* flight ("bounds total retained input").
InputInOrder ==
    /\ written \o inputBuf = [i \in 1..accepted |-> i]
    /\ inPump # "done" => accepted - Len(written) <= InputCap

\* A record on disk stands for a finished history: every byte the pump read
\* is in it, and it is never changed by a late write.
RecordIsComplete == record # None => history = out /\ (outDone \/ exit = "spawn")

\* Until the record is written the socket file marks the session, so that
\* Wait keeps polling for it; only a failed persist leaves neither.
SocketUntilRecord == phase # "init" /\ ~sockFile => record # None \/ persistErr

\* The command's exit always leads to the daemon's, even if nobody reads the
\* input queued for it, a descendant holds the PTY open, or a caller hangs.
ShutdownCompletes == ended ~> (phase = "exited")

\* kill ends even a command that ignores SIGHUP.
KillTerminates == \A r \in Callers : (at[r] = "hup") ~> ended

\* Whoever the daemon accepted is answered, also when it shuts down meanwhile
\* ("still need to deliver their responses") and another caller hangs.
AcceptedIsAnswered ==
    \A r \in Callers \ Slow :
        (at[r] = "handling" /\ (op[r] = "wait" => ended)) ~> (at[r] = "answered")

\* What comments promise of lookups, for the runs that show where the code
\* departs from it: a session that started is always found.
NotMissing(o) == \A r \in Callers : op[r] = o => answer[r].kind # "missing"

\* listen: no "window where a client sees neither a live socket nor the
\* record it would fall back to".
InfoFindsSession == NotMissing("info")

\* Wait: "waits for a live session to exit or returns the exit result retained
\* for an already-ended session".
WaitFindsSession == NotMissing("wait")
=============================================================================
