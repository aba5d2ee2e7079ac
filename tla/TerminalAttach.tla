--------------------------- MODULE TerminalAttach ---------------------------
(***************************************************************************)
(* How an attachment of a terminal begins and ends: Client.Attach and      *)
(* runTerminalAttach (client_attach.go) with their goroutines, over the    *)
(* session's socket or over a transport process (attach.go) whose far end  *)
(* runs Bridge (transport.go).  The session is serveAttach as its clients  *)
(* see it; its queues are module Attach's.  What an attachment shows is     *)
(* Presentation's, how keys are scanned KeyScan's.                         *)
(*                                                                         *)
(* A pipe is one direction of a stream.  A message is a request, a         *)
(* response or a frame; a write takes one message and blocks while the     *)
(* pipe is full, so send's mutex adds nothing.  Errors are kinds: "eof",    *)
(* "reset" (the peer closed a socket without reading all), "closed" (our   *)
(* own end), "broken" (the reader is gone), "canceled", "local" (the        *)
(* terminal or the emulator failed).  The terminal knows its size; one that *)
(* does not sends no FrameResize.                                          *)
(***************************************************************************)
EXTENDS Naturals, Sequences, FiniteSets

CONSTANTS
    Routes,       \* subset of {"socket", "bridge"}
    Transports,   \* subset of {"killable", "unkillable", "held"}: the transport
                  \* processes; one that may not be killed, and one whose
                  \* descendant keeps its stderr open
    Faults,       \* subset of {"cancel", "local", "crash", "transport"}
    MaxFaults,    \* bound: faults of a behaviour
    PipeCap,      \* messages a pipe holds
    MaxOut,       \* bound: frames the session writes before the last
    MaxEvents     \* bound: keys typed, the detach key excepted, and changes of the window

ASSUME RoutesAssumption == Routes \subseteq {"socket", "bridge"}
ASSUME TransportsAssumption == Transports \subseteq {"killable", "unkillable", "held"}
ASSUME FaultsAssumption == Faults \subseteq {"cancel", "local", "crash", "transport"}
ASSUME BoundsAssumption ==
    /\ MaxFaults \in Nat /\ PipeCap \in Nat \ {0}
    /\ MaxOut \in Nat /\ MaxEvents \in Nat

VARIABLES
    route,     \* how this attachment reaches the session
    pipe,      \* the four directions
    sess,      \* the session's end: "listening", "serving", "leaving", "gone"
    out,       \* frames the session has written, FrameEnded excepted
    endSent,   \* it has written FrameEnded
    bridge,    \* the transport process: Bridge's outbound and inbound copies
    ctx,       \* the caller's context is canceled
    stopped,   \* stopAttach was called
    closer,    \* streamCloser: "open", "closing", "closed"
    main,      \* runTerminalAttach, with its local variables
    frame,     \* the frame reader, and frameErr
    input,     \* the input goroutine, and inputErr
    resize,    \* the resize goroutine, and resizeErr
    viewErr,   \* a painting failure was reported
    shown,     \* frames the client has handled, FrameEnded excepted
    flags,     \* the atomic booleans detached and sessionEnded
    events,    \* keys typed and changes of the window
    hit        \* history: what befell the attachment

vars == <<route, pipe, sess, out, endSent, bridge, ctx, stopped, closer, main, frame, input,
          resize, viewErr, shown, flags, events, hit>>

session == <<sess, out, endSent>>
workers == <<frame, input, resize, viewErr, shown, flags, events>>
outer == <<ctx, stopped, closer, main>>

-----------------------------------------------------------------------------
(* Pipes *)

PipeNames == {"stdin", "stdout", "sockUp", "sockDown"}
\* "data": FrameInput or FrameResize, which the session treats alike here.
Messages == {"request", "data", "detach", "ok", "refused", "output", "size", "ended"}

\* Where the client writes and reads.
Up == IF route = "bridge" THEN "stdin" ELSE "sockUp"
Down == IF route = "bridge" THEN "stdout" ELSE "sockDown"

Empty == [q |-> <<>>, eof |-> FALSE, gone |-> FALSE, reset |-> FALSE]

\* eof: the writing end is closed; gone: the reading end is; reset: what the
\* writer of a socket had not read when it closed was lost.
CanWrite(p) == ~pipe[p].eof /\ ~pipe[p].gone /\ Len(pipe[p].q) < PipeCap
WriteFails(p) == pipe[p].eof \/ pipe[p].gone
WriteError(p) == IF pipe[p].eof THEN "closed" ELSE "broken"
CanRead(p) == ~pipe[p].gone /\ pipe[p].q # <<>>
AtEOF(p) == ~pipe[p].gone /\ pipe[p].q = <<>> /\ pipe[p].eof
ReadFails(p) == pipe[p].gone \/ AtEOF(p)
ReadError(p) == IF pipe[p].gone THEN "closed" ELSE IF pipe[p].reset THEN "reset" ELSE "eof"

Put(ps, p, m) == [ps EXCEPT ![p].q = Append(@, m)]
Pop(ps, p) == [ps EXCEPT ![p].q = Tail(@)]

\* One end closes a connection of which it reads r and writes w; what it has not
\* read is lost, of which a socket tells the peer.
Close(ps, r, w) ==
    [ps EXCEPT ![r].gone = TRUE, ![r].q = <<>>, ![w].eof = TRUE,
               ![w].reset = @ \/ (r \in {"sockUp", "sockDown"} /\ ps[r].q # <<>>)]

\* A write of the client failed because nobody reads any more.
Broken == IF WriteError(Up) = "broken" THEN hit \cup {"broken"} ELSE hit

-----------------------------------------------------------------------------
(* Errors *)

\* Mutant of Unexpected: the end of the stream is always expected.
UnexpectedButEOF(err, includeEOF) == {err} \ {"none", "nil", "closed", "canceled", "eof"}

\* withoutExpectedAttachShutdownErrors.
Unexpected(err, includeEOF) ==
    {err} \ ({"none", "nil", "closed", "canceled"} \cup (IF includeEOF THEN {"eof"} ELSE {}))

Done(err) == [pc |-> "done", err |-> err]

\* Fault f happens.
Fault(f) ==
    /\ f \in Faults /\ Cardinality(hit \cap Faults) < MaxFaults
    /\ hit' = hit \cup {f}

-----------------------------------------------------------------------------
Init ==
    /\ route \in Routes
    /\ pipe = [p \in PipeNames |-> Empty]
    /\ sess = "listening" /\ out = 0 /\ endSent = FALSE
    /\ bridge \in IF route = "bridge"
                  THEN [out : {"dial"}, in : {"idle"}, shut : {FALSE}, failed : {FALSE}, kind : Transports]
                  ELSE [out : {"exited"}, in : {"done"}, shut : {FALSE}, failed : {FALSE},
                        kind : {"killable"}]
    /\ ctx = FALSE /\ stopped = FALSE /\ closer = "open"
    /\ main = [pc |-> "request", result |-> {}, shuttingDown |-> FALSE, frameDone |-> FALSE,
               inputDone |-> FALSE, resizeTaken |-> FALSE, terminated |-> FALSE, outcome |-> "none"]
    /\ frame = [pc |-> "idle", err |-> "none"]
    /\ input = [pc |-> "idle", err |-> "none"]
    /\ resize = [pc |-> "idle", err |-> "none"]
    /\ viewErr = FALSE /\ shown = 0
    /\ flags = [detached |-> FALSE, sessionEnded |-> FALSE]
    /\ events = 0 /\ hit = {}

-----------------------------------------------------------------------------
(* The session: serveAttach and the attachWriter of this client *)

\* The socket is accepted directly, or once the bridge has dialled.
Connected == route = "socket" \/ bridge.in # "idle"

\* The request is answered; after the end it is refused and the connection closed.
SessionAccepts ==
    /\ sess = "listening" /\ Connected /\ CanRead("sockUp")
    /\ \/ /\ sess' = "serving"
          /\ pipe' = Put(Pop(pipe, "sockUp"), "sockDown", "ok")
       \/ /\ sess' = "gone"
          /\ pipe' = Close(Put(Pop(pipe, "sockUp"), "sockDown", "refused"), "sockUp", "sockDown")
    /\ UNCHANGED <<route, out, endSent, bridge, outer, workers, hit>>

\* The snapshot, the request for the window's size, and output.
SessionWrites ==
    /\ sess = "serving" /\ CanWrite("sockDown") /\ out < MaxOut
    /\ out' = out + 1
    /\ \E msg \in {"output", "size"} : pipe' = Put(pipe, "sockDown", msg)
    /\ UNCHANGED <<route, sess, endSent, bridge, outer, workers, hit>>

\* The last frame of a session that ends; the writer then closes the connection.
SessionEnds ==
    /\ sess = "serving" /\ CanWrite("sockDown")
    /\ endSent' = TRUE /\ sess' = "gone"
    /\ pipe' = Close(Put(pipe, "sockDown", "ended"), "sockUp", "sockDown")
    /\ UNCHANGED <<route, out, bridge, outer, workers, hit>>

\* The read loop stops at FrameDetach and at the end of the stream.
SessionReads ==
    /\ sess = "serving"
    /\ \/ /\ CanRead("sockUp")
          /\ sess' = IF Head(pipe["sockUp"].q) = "detach" THEN "leaving" ELSE sess
          /\ pipe' = Pop(pipe, "sockUp")
       \/ /\ AtEOF("sockUp")
          /\ sess' = "leaving" /\ UNCHANGED pipe
    /\ UNCHANGED <<route, out, endSent, bridge, outer, workers, hit>>

SessionLeaves ==
    /\ sess = "leaving" \/ (sess = "listening" /\ AtEOF("sockUp"))
    /\ sess' = "gone"
    /\ pipe' = Close(pipe, "sockUp", "sockDown")
    /\ UNCHANGED <<route, out, endSent, bridge, outer, workers, hit>>

\* The daemon dies.
SessionCrashes ==
    /\ sess # "gone" /\ Fault("crash")
    /\ sess' = "gone"
    /\ pipe' = Close(pipe, "sockUp", "sockDown")
    /\ UNCHANGED <<route, out, endSent, bridge, outer, workers>>

-----------------------------------------------------------------------------
(* The transport process: Bridge on its stdin and stdout *)

BridgeDials ==
    /\ bridge.out = "dial"
    /\ \/ /\ sess # "gone"
          /\ bridge' = [bridge EXCEPT !.out = "copy", !.in = "copy"]
          /\ UNCHANGED pipe
       \/ /\ sess = "gone"
          /\ bridge' = [bridge EXCEPT !.out = "exited", !.in = "done", !.failed = TRUE]
          /\ pipe' = Close(pipe, "stdin", "stdout")
    /\ UNCHANGED <<route, session, outer, workers, hit>>

\* io.Copy(conn, rw): at EOF the write side is closed, after an error that is not
\* of Bridge's own making the whole connection.
BridgeInbound ==
    /\ bridge.in = "copy"
    /\ \/ /\ CanRead("stdin") /\ CanWrite("sockUp")
          /\ pipe' = Pop(Put(pipe, "sockUp", Head(pipe["stdin"].q)), "stdin")
          /\ UNCHANGED <<bridge, hit>>
       \/ /\ AtEOF("stdin") \/ (ReadFails("stdin") /\ bridge.shut)
          /\ pipe' = [pipe EXCEPT !["sockUp"].eof = TRUE]
          /\ bridge' = [bridge EXCEPT !.in = "done"]
          /\ UNCHANGED hit
       \/ /\ CanRead("stdin") /\ WriteFails("sockUp")
          /\ pipe' = IF bridge.shut THEN [pipe EXCEPT !["sockUp"].eof = TRUE]
                     ELSE Close(pipe, "sockDown", "sockUp")
          /\ bridge' = [bridge EXCEPT !.in = "done", !.failed = @ \/ ~bridge.shut]
          /\ hit' = IF bridge.shut THEN hit ELSE hit \cup {"broken"}
    /\ UNCHANGED <<route, session, outer, workers>>

\* io.Copy(rw, conn); when it ends the caller's stream is closed, which
\* unblocks the inbound copy.  Only the end of the stream is no error.
BridgeOutbound ==
    /\ bridge.out = "copy"
    /\ \/ /\ CanRead("sockDown") /\ CanWrite("stdout")
          /\ pipe' = Pop(Put(pipe, "stdout", Head(pipe["sockDown"].q)), "sockDown")
          /\ UNCHANGED bridge
       \/ /\ ReadFails("sockDown") \/ (CanRead("sockDown") /\ WriteFails("stdout"))
          /\ pipe' = Close(pipe, "stdin", "stdout")
          /\ bridge' = [bridge EXCEPT !.out = "join", !.shut = TRUE,
                                      !.failed = @ \/ CanRead("sockDown") \/ ReadError("sockDown") # "eof"]
    /\ UNCHANGED <<route, session, outer, workers, hit>>

\* An error of Bridge is the exit status of the process.
BridgeReturns ==
    /\ bridge.out = "join" /\ bridge.in = "done"
    /\ bridge' = [bridge EXCEPT !.out = "exited"]
    /\ pipe' = Close(pipe, "sockDown", "sockUp")
    /\ UNCHANGED <<route, session, outer, workers, hit>>

\* The process is gone, and what it held open with it.
ProcessDies ==
    /\ bridge.out # "exited"
    /\ bridge' = [bridge EXCEPT !.out = "exited", !.in = "done", !.shut = TRUE, !.failed = TRUE]
    /\ pipe' = Close(Close(pipe, "stdin", "stdout"), "sockDown", "sockUp")

\* cmd.Process.Kill; of a process that may not be killed it is an error, and trying
\* again changes nothing more.
Kill ==
    \/ bridge.kind # "unkillable" /\ ProcessDies
    \/ /\ bridge.kind = "unkillable" /\ bridge.out # "exited"
       /\ bridge' = [bridge EXCEPT !.failed = TRUE]
       /\ UNCHANGED pipe

\* Mutant of Reaped: the copy of stderr is not joined.
ReapedProcess == bridge.out = "exited"

\* cmd.Wait returns: it waits for the process, and for the copy of its stderr, which
\* ends when the last process that holds the other end does.
Reaped == bridge.out = "exited" /\ bridge.kind # "held"

TransportFails ==
    /\ ProcessDies /\ Fault("transport")
    /\ UNCHANGED <<route, session, outer, workers>>

-----------------------------------------------------------------------------
(* streamCloser, run once by whoever comes first *)

StartClose(c) == IF c = "open" THEN "closing" ELSE c

\* net.Conn.Close.
CloseSocket ==
    /\ route = "socket" /\ closer = "closing"
    /\ closer' = "closed"
    /\ pipe' = Close(pipe, "sockDown", "sockUp")
    /\ UNCHANGED <<route, session, bridge, ctx, stopped, main, workers, hit>>

\* transportConn.Close: stdin first, then the process has a grace period to exit
\* and be reaped, then it is killed and waited for without a bound, then stdout.
CloseStdin ==
    /\ route = "bridge" /\ closer = "closing" /\ ~pipe["stdin"].eof
    /\ pipe' = [pipe EXCEPT !["stdin"].eof = TRUE]
    /\ UNCHANGED <<route, session, bridge, outer, workers, hit>>

CloseStdout ==
    /\ route = "bridge" /\ closer = "closing" /\ pipe["stdin"].eof
    /\ Reaped
    /\ closer' = "closed"
    /\ pipe' = [pipe EXCEPT !["stdout"].gone = TRUE, !["stdout"].q = <<>>]
    /\ UNCHANGED <<route, session, bridge, ctx, stopped, main, workers, hit>>

\* Mutant of ShutdownGraceExpires: the process is waited for.
ShutdownGraceEndless == FALSE /\ UNCHANGED vars

ShutdownGraceExpires ==
    /\ route = "bridge" /\ closer = "closing" /\ pipe["stdin"].eof
    /\ Kill
    /\ hit' = hit \cup {"killed"}
    /\ UNCHANGED <<route, session, outer, workers>>

\* exec.CommandContext kills the process of a canceled attachment.
CommandCanceled ==
    /\ ctx /\ Kill
    /\ UNCHANGED <<route, session, outer, workers, hit>>

\* The caller cancels; context.AfterFunc closes the stream.
Cancel ==
    /\ ~ctx /\ main.pc # "returned" /\ Fault("cancel")
    /\ ctx' = TRUE /\ closer' = StartClose(closer)
    /\ UNCHANGED <<route, pipe, session, bridge, stopped, main, workers>>

-----------------------------------------------------------------------------
(* Client.Attach up to the loop of runTerminalAttach *)

\* The deferred close of the stream follows every return.
EarlyReturn(err, outcome) ==
    /\ main' = [main EXCEPT !.pc = "defer", !.outcome = outcome,
                            !.result = IF ctx /\ main.pc # "start" THEN {"ctx"} ELSE {err}]
    /\ closer' = StartClose(closer)
    /\ UNCHANGED <<pipe, workers>>

SendRequest ==
    /\ main.pc = "request"
    /\ \/ /\ CanWrite(Up)
          /\ pipe' = Put(pipe, Up, "request")
          /\ main' = [main EXCEPT !.pc = "response"]
          /\ UNCHANGED <<closer, workers>>
       \/ WriteFails(Up) /\ EarlyReturn("protocol", "none")
    /\ UNCHANGED <<route, session, bridge, ctx, stopped, hit>>

ReadResponse ==
    /\ main.pc = "response"
    /\ \/ /\ CanRead(Down) /\ Head(pipe[Down].q) = "ok"
          /\ pipe' = Pop(pipe, Down)
          /\ main' = [main EXCEPT !.pc = "start"]
          /\ UNCHANGED <<closer, workers>>
       \/ CanRead(Down) /\ Head(pipe[Down].q) = "refused" /\ EarlyReturn("refused", "none")
       \/ ReadFails(Down) /\ EarlyReturn("protocol", "none")
    /\ UNCHANGED <<route, session, bridge, ctx, stopped, hit>>

\* Raw mode, the emulator, the presentation and the first sendSize; then the
\* goroutines start.
Start ==
    /\ main.pc = "start"
    /\ \/ /\ CanWrite(Up) /\ pipe' = Put(pipe, Up, "data")
          /\ main' = [main EXCEPT !.pc = "select"]
          /\ frame' = [frame EXCEPT !.pc = "reading"]
          /\ input' = [input EXCEPT !.pc = "reading"]
          /\ resize' = [resize EXCEPT !.pc = "waiting"]
          /\ UNCHANGED <<closer, viewErr, shown, flags, events, hit>>
       \/ WriteFails(Up) /\ EarlyReturn(WriteError(Up), "aborted") /\ hit' = Broken
       \/ Fault("local") /\ EarlyReturn("local", "aborted")
    /\ UNCHANGED <<route, session, bridge, ctx, stopped>>

-----------------------------------------------------------------------------
(* The goroutines *)

rest == <<route, session, bridge, outer>>

\* send of message m by goroutine g, which goes on as next; a failure ends it.
Send(m, g, next) ==
    \/ /\ CanWrite(Up)
       /\ pipe' = Put(pipe, Up, m)
       /\ g' = next /\ UNCHANGED hit
    \/ /\ WriteFails(Up)
       /\ g' = Done(WriteError(Up))
       /\ hit' = Broken
       /\ UNCHANGED pipe

\* sendSize; reading the size or resizing the emulator may fail.
SendSize(g, next) ==
    \/ Send("data", g, next)
    \/ Fault("local") /\ g' = Done("local") /\ UNCHANGED pipe

\* The stream ended under the reader before this side began to close it.
StreamEnded == IF closer = "open" /\ ~stopped THEN hit \cup {"stream"} ELSE hit

FrameReads ==
    /\ frame.pc = "reading"
    /\ \/ /\ CanRead(Down) /\ Head(pipe[Down].q) \in {"output", "size"}
          /\ pipe' = Pop(pipe, Down)
          /\ shown' = shown + 1
          /\ \/ frame' = [frame EXCEPT !.pc = "sizing"] /\ UNCHANGED hit
             \/ Head(pipe[Down].q) = "output" /\ UNCHANGED <<frame, hit>>
             \/ Head(pipe[Down].q) = "output" /\ Fault("local") /\ frame' = Done("local")
          /\ UNCHANGED flags
       \/ /\ CanRead(Down) /\ Head(pipe[Down].q) = "ended"
          /\ pipe' = Pop(pipe, Down)
          /\ flags' = [flags EXCEPT !.sessionEnded = TRUE]
          /\ frame' = Done("nil")
          /\ UNCHANGED <<shown, hit>>
       \/ /\ ReadFails(Down)
          /\ frame' = Done(ReadError(Down)) /\ hit' = StreamEnded
          /\ UNCHANGED <<pipe, shown, flags>>
    /\ UNCHANGED <<rest, input, resize, viewErr, events>>

FrameSizes ==
    /\ frame.pc = "sizing"
    /\ SendSize(frame, [frame EXCEPT !.pc = "reading"])
    /\ UNCHANGED <<rest, input, resize, viewErr, shown, flags, events>>

WindowChanges ==
    /\ resize.pc = "waiting" /\ events < MaxEvents
    /\ events' = events + 1
    /\ resize' = [resize EXCEPT !.pc = "sizing"]
    /\ UNCHANGED <<rest, pipe, frame, input, viewErr, shown, flags, hit>>

ResizeSizes ==
    /\ resize.pc = "sizing"
    /\ SendSize(resize, [resize EXCEPT !.pc = "waiting"])
    /\ UNCHANGED <<rest, frame, input, viewErr, shown, flags, events>>

\* ResizeEvents closes its channel with the context.
ResizeStops ==
    /\ resize.pc = "waiting" /\ (ctx \/ stopped)
    /\ resize' = [resize EXCEPT !.pc = "done"]
    /\ UNCHANGED <<rest, pipe, frame, input, viewErr, shown, flags, events, hit>>

\* The terminal delivers a key, the detach key, the end of its input or an error.
InputReads ==
    /\ input.pc = "reading"
    /\ \/ /\ events < MaxEvents /\ events' = events + 1
          /\ input' = [input EXCEPT !.pc = "sending"] /\ UNCHANGED hit
       \/ input' = [input EXCEPT !.pc = "detaching"] /\ hit' = hit \cup {"key"} /\ UNCHANGED events
       \/ input' = Done("nil") /\ hit' = hit \cup {"eof"} /\ UNCHANGED events
       \/ Fault("local") /\ input' = Done("local") /\ UNCHANGED events
    /\ UNCHANGED <<rest, pipe, frame, resize, viewErr, shown, flags>>

InputCanceled ==
    /\ input.pc = "reading" /\ (ctx \/ stopped)
    /\ input' = Done("canceled")
    /\ UNCHANGED <<rest, pipe, frame, resize, viewErr, shown, flags, events, hit>>

InputSends ==
    /\ \/ input.pc = "sending" /\ Send("data", input, [input EXCEPT !.pc = "reading"])
       \/ input.pc = "detaching" /\ Send("detach", input, Done("detached"))
    /\ flags' = [flags EXCEPT !.detached = input'.err = "detached"]
    /\ UNCHANGED <<rest, frame, resize, viewErr, shown, events>>

\* The painter of the isolated presentation reports a failure.
ViewFails ==
    /\ main.pc = "select" /\ Fault("local")
    /\ viewErr' = TRUE
    /\ UNCHANGED <<rest, pipe, frame, input, resize, shown, flags, events>>

-----------------------------------------------------------------------------
(* The loop of runTerminalAttach *)

\* The select and the look at ctx after it.
Select ==
    /\ main.pc = "select"
    /\ \E c \in {"ctx", "resize", "frame", "input", "view"} :
         LET err == CASE c = "resize" -> resize.err [] c = "input" -> input.err
                      [] c = "view" -> "local" [] OTHER -> "nil"
         IN /\ CASE c = "ctx" -> ctx [] c = "resize" -> resize.err # "none"
                 [] c = "frame" -> frame.err # "none" [] c = "input" -> input.err # "none"
                 [] c = "view" -> viewErr
            /\ main' = [main EXCEPT
                 !.pc = "pickFrame", !.shuttingDown = ctx, !.frameDone = c = "frame",
                 !.inputDone = c = "input", !.resizeTaken = c = "resize",
                 !.result = IF ctx THEN {"ctx"} \cup Unexpected(err, TRUE) ELSE {err} \ {"nil"}]
    /\ UNCHANGED <<route, pipe, session, bridge, ctx, stopped, closer, workers, hit>>

PickFrame ==
    /\ main.pc = "pickFrame"
    /\ main' = [main EXCEPT !.pc = "pickInput", !.frameDone = @ \/ frame.err # "none"]
    /\ UNCHANGED <<route, pipe, session, bridge, ctx, stopped, closer, workers, hit>>

\* Mutant of RemoteStreamTerminated: whatever ended the loop.
RemoteStreamAssumed == ~main.shuttingDown

RemoteStreamTerminated == main.frameDone /\ ~main.shuttingDown

\* Then remoteStreamTerminated, stopAttach and closeStream.
PickInput ==
    /\ main.pc = "pickInput"
    /\ main' = [main EXCEPT
         !.pc = "join", !.inputDone = @ \/ input.err # "none",
         !.result = IF main.inputDone THEN @ ELSE @ \cup Unexpected(input.err, main.shuttingDown),
         !.terminated = RemoteStreamTerminated]
    /\ stopped' = TRUE /\ closer' = StartClose(closer)
    /\ UNCHANGED <<route, pipe, session, bridge, ctx, workers, hit>>

\* Mutant of WorkersEnded: resizeStopped is not waited for.
WorkersEndedButResize == \A g \in {frame, input} : g.pc = "done"

WorkersEnded == \A g \in {frame, input, resize} : g.pc = "done"

\* The stream is closed and every goroutine has ended; models.finish is told why.
Join ==
    /\ main.pc = "join" /\ closer = "closed" /\ WorkersEnded
    /\ main' = [main EXCEPT
         !.pc = "defer",
         !.result = @ \cup (IF main.resizeTaken THEN {} ELSE Unexpected(resize.err, TRUE))
                      \cup (IF main.inputDone THEN {} ELSE Unexpected(input.err, TRUE))
                      \cup Unexpected(frame.err, main.shuttingDown \/ ~main.frameDone \/ flags.detached),
         !.outcome = IF flags.detached THEN "detached" ELSE IF flags.sessionEnded THEN "ended"
                     ELSE IF main.terminated THEN "disconnected" ELSE "aborted"]
    /\ UNCHANGED <<route, pipe, session, bridge, ctx, stopped, closer, workers, hit>>

\* withoutAttachDetached, and the error of closing the stream.
Return ==
    /\ main.pc = "defer" /\ closer = "closed"
    /\ main' = [main EXCEPT !.pc = "returned",
         !.result = (@ \ {"detached"}) \cup (IF bridge.failed THEN {"transport"} ELSE {})]
    /\ UNCHANGED <<route, pipe, session, bridge, ctx, stopped, closer, workers, hit>>

-----------------------------------------------------------------------------
Reader == SessionAccepts \/ SessionReads \/ SessionLeaves
Writer == SessionWrites \/ SessionEnds
Outbound == BridgeDials \/ BridgeOutbound \/ BridgeReturns
Closer == CloseSocket \/ CloseStdin \/ CloseStdout \/ ShutdownGraceExpires
Main == SendRequest \/ ReadResponse \/ Start \/ Select \/ PickFrame \/ PickInput \/ Join \/ Return
Frames == FrameReads \/ FrameSizes
Resizes == ResizeSizes \/ ResizeStops
Inputs == InputCanceled \/ InputSends
Happens ==
    \/ SessionCrashes \/ TransportFails \/ Cancel \/ CommandCanceled
    \/ WindowChanges \/ InputReads \/ ViewFails

\* A transport whose stderr is held open is waited for as long as it is.
Finished ==
    /\ main.pc = "returned" \/ (bridge.out = "exited" /\ bridge.kind = "held")
    /\ UNCHANGED vars

Next ==
    \/ Reader \/ Writer \/ Outbound \/ BridgeInbound \/ Closer
    \/ Main \/ Frames \/ Resizes \/ Inputs \/ Happens \/ Finished

\* Every goroutine of both processes runs, the terminal takes what is written to
\* it, the daemon reads and closes its connections, and the grace timer fires.
\* Nobody has to type, to write output, to fail or to end.
Fairness ==
    /\ WF_vars(Reader) /\ WF_vars(Outbound) /\ WF_vars(BridgeInbound) /\ WF_vars(Closer)
    /\ WF_vars(Main) /\ WF_vars(Frames) /\ WF_vars(Resizes) /\ WF_vars(Inputs)

Spec == Init /\ [][Next]_vars

\* A bound for TLC on attachments over a transport that does not end when killed.
StuckBound == bridge.kind # "killable" => events = 0 /\ hit \cap Faults \subseteq {"local"}

FairSpec == Spec /\ Fairness

-----------------------------------------------------------------------------
(* Properties *)

Returned == main.pc = "returned"

\* What the user is told on the way out.  "Session ended" comes after every frame
\* the session wrote has been handled.  "Disconnected" comes only when the frame
\* reader stopped first: the stream ended under it before the client closed it, it
\* could not write or failed itself over a frame (which is no disconnection: see
\* DisconnectedIsRemote), or the caller canceled in the moment after the loop had
\* looked; never for what the keyboard, the window or the painter met.  A session
\* that announced its end is reported as ended unless the user, the caller or a
\* failure ended the attachment first.
OutcomeIsTrue ==
    Returned =>
        /\ main.outcome = "ended" => endSent /\ shown = out
        /\ main.outcome = "disconnected" =>
              "stream" \in hit \/ frame.err \in {"broken", "local"} \/ ctx
        /\ (endSent /\ main.outcome # "ended") =>
              hit \cap {"key", "eof", "cancel", "local", "broken", "transport", "killed"} # {}

\* Attach returns no error only when the session ended, the user detached or the
\* terminal's input closed: a lost connection, a failure and a canceled context
\* are never swallowed by the filters that drop the errors of its own teardown.
NilMeansOver ==
    Returned /\ main.result = {} =>
        /\ main.outcome \in {"ended", "detached"} \/ "eof" \in hit
        /\ main.outcome = "disconnected" => "cancel" \in hit

\* Attach returns only when its goroutines have ended, the stream is closed and
\* the transport process is gone and reaped.
NothingLeftBehind ==
    Returned =>
        /\ closer = "closed" /\ bridge.out = "exited" /\ bridge.kind # "held"
        /\ \A g \in {frame, input, resize} : g.pc \in {"idle", "done"}

\* Whatever ends an attachment, Attach returns, over the socket or over a transport
\* that can be killed and reaped.
Over ==
    \/ ctx \/ sess = "gone" \/ viewErr
    \/ frame.pc = "done" \/ input.pc \in {"detaching", "done"} \/ resize.err # "none"
AttachReturns == (Over /\ bridge.kind = "killable") ~> Returned

\* transportConn.Close "gives it a grace period to exit [...], then kills it": over
\* any transport.
AttachAlwaysReturns == Over ~> Returned

\* attachOutcomeAborted "is a local failure: tear down silently": the user is not
\* told of a disconnection when the client itself failed over a frame.
DisconnectedIsRemote == Returned /\ main.outcome = "disconnected" => frame.err # "local"

\* A client is told that the session ended and shown everything it wrote, unless
\* the user, the caller or the transport ended the attachment first.
EndIsTold ==
    Returned /\ endSent /\ hit \cap {"key", "eof", "cancel", "local", "transport", "killed"} = {}
        => main.outcome = "ended"
=============================================================================
