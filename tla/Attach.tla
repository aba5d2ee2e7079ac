------------------------------- MODULE Attach -------------------------------
(***************************************************************************)
(* The multi-client output path of one session daemon: the output pump     *)
(* (pumpOutputFrom, feedTerm, fanout, deliverOutput of daemon/daemon.go     *)
(* and daemon/attach.go), the attach handler and the writer goroutine of   *)
(* every client (serveAttach, attachWriter), and the tail of Session.run   *)
(* that ends the session.                                                  *)
(*                                                                         *)
(* PTY output is a stream of bytes known by their positions.  A chunk is a *)
(* half-open interval [from, to); a snapshot of the rendered terminal is   *)
(* the position up to which the terminal had been fed when it was taken.   *)
(* A client's screen is the position its own terminal shows.  Control      *)
(* frames carry no bytes: their from = to is the position at which they    *)
(* stand in the client's stream.                                           *)
(***************************************************************************)
EXTENDS Integers, Sequences

CONSTANTS
    Clients,          \* connections that may attach
    Cap,              \* attachQueue, the per-client output backlog
    MaxOut,           \* bound: bytes the command writes
    Ground,           \* positions at a VT ground and UTF-8 rune boundary
    SnapshotMayFail   \* whether the emulator may fail to dump its screen

ASSUME CapAssumption == Cap \in Nat \ {0}
ASSUME MaxOutAssumption == MaxOut \in Nat
ASSUME GroundAssumption == Ground \subseteq Nat /\ 0 \in Ground
ASSUME FaultAssumption == SnapshotMayFail \in BOOLEAN

VARIABLES
    read,             \* bytes read from the PTY (and stored in the scrollback)
    rendered,         \* bytes written to the emulated terminal
    pump,             \* where the output pump stands
    eof,              \* the PTY read failed: this feedTerm flushes
    feedFrom,         \* where the chunk being fanned out starts
    targets,          \* clients fanout has still to deliver the chunk to
    phase,            \* where Session.run stands
    ptyOpen,          \* ptmx has not been closed
    endTargets,       \* clients endAttachers has still to tell
    handler,          \* where each connection's serveAttach stands
    writer,           \* where each attachWriter stands
    buf,              \* attacher.buf
    pendingSnapshot,  \* attacher.pendingSnapshot
    inflight,         \* the frame an attachWriter is writing
    conn,             \* state of each connection
    screen,           \* what each client's terminal shows
    gotEnded,         \* the client has received FrameEnded
    handlerErr        \* errors recorded about this client

pumpVars == <<read, rendered, pump, eof, feedFrom, targets>>
runVars == <<phase, ptyOpen, endTargets>>
queueVars == <<buf, pendingSnapshot>>
writerVars == <<writer, inflight>>
clientVars == <<conn, screen, gotEnded>>
vars == <<pumpVars, runVars, handler, writerVars, queueVars, clientVars, handlerErr>>

Garbled == -1         \* a screen fed output that does not continue it
NoSnapshot == -1      \* pendingSnapshot = nil

Position == Nat \cup {Garbled}
Tags == {"output", "snapshot", "resize", "ended"}
Frame == [tag : Tags, from : Position, to : Position]
QueuedFrame == [tag : Tags \ {"snapshot"}, from : Position, to : Position]
NoFrame == [tag |-> "none", from |-> 0, to |-> 0]
OutputFrame(from, to) == [tag |-> "output", from |-> from, to |-> to]
SnapshotFrame(at) == [tag |-> "snapshot", from |-> at, to |-> at]

TypeOK ==
    /\ read \in 0..MaxOut /\ rendered \in 0..read /\ feedFrom \in 0..rendered
    /\ pump \in {"read", "feed", "fan", "done"}
    /\ eof \in BOOLEAN
    /\ targets \in SUBSET Clients
    /\ phase \in {"serving", "ended", "draining", "closed", "ending", "persisted", "exited"}
    /\ ptyOpen \in BOOLEAN
    /\ endTargets \in SUBSET Clients
    /\ handler \in [Clients -> {"none", "accepted", "acked", "joined", "reading",
                                "leaving", "signalled", "done", "refused"}]
    /\ writer \in [Clients -> {"none", "idle", "writing", "done"}]
    /\ buf \in [Clients -> Seq(QueuedFrame)]
    /\ pendingSnapshot \in [Clients -> Nat \cup {NoSnapshot}]
    /\ inflight \in [Clients -> Frame \cup {NoFrame}]
    /\ conn \in [Clients -> {"none", "open", "left", "closed", "cut"}]
    /\ screen \in [Clients -> Position]
    /\ gotEnded \in [Clients -> BOOLEAN]
    /\ handlerErr \in [Clients -> SUBSET {"join", "skip", "resize"}]

\* newSession and start: a running command, no client.
Init ==
    /\ read = 0 /\ rendered = 0 /\ feedFrom = 0
    /\ pump = "read" /\ eof = FALSE /\ targets = {}
    /\ phase = "serving" /\ ptyOpen = TRUE /\ endTargets = {}
    /\ handler = [c \in Clients |-> "none"]
    /\ writer = [c \in Clients |-> "none"]
    /\ buf = [c \in Clients |-> <<>>]
    /\ pendingSnapshot = [c \in Clients |-> NoSnapshot]
    /\ inflight = [c \in Clients |-> NoFrame]
    /\ conn = [c \in Clients |-> "none"]
    /\ screen = [c \in Clients |-> 0]
    /\ gotEnded = [c \in Clients |-> FALSE]
    /\ handlerErr = [c \in Clients |-> {}]

Alive == phase # "exited"

\* The keys of s.attachers: serveAttach adds itself under outMu and deletes
\* itself when its read loop ends.
Attachers == {c \in Clients : handler[c] \in {"joined", "reading"}}

\* feedTerm and fanout run, and a client joins, with outMu held.
OutMuFree == pump # "fan"

-----------------------------------------------------------------------------
(* The position the client's stream has reached once everything queued for *)
(* it is written: first what its writer holds, then a pending snapshot,    *)
(* then the backlog.                                                       *)

Shown(c) == IF inflight[c].tag = "none" THEN screen[c] ELSE inflight[c].to

Base(c) == IF pendingSnapshot[c] = NoSnapshot THEN Shown(c) ELSE pendingSnapshot[c]

EndOf(base, frames) == IF frames = <<>> THEN base ELSE frames[Len(frames)].to

QueueEnd(c) == EndOf(Base(c), buf[c])

ControlFrame(tag, c) == [tag |-> tag, from |-> QueueEnd(c), to |-> QueueEnd(c)]

-----------------------------------------------------------------------------
(* The output pump.                                                        *)

\* r.Read(buf) returned n > 0 bytes.
ReadOutput(n) ==
    /\ Alive /\ pump = "read" /\ ptyOpen
    /\ read + n <= MaxOut
    /\ read' = read + n
    /\ pump' = "feed"
    /\ UNCHANGED <<rendered, eof, feedFrom, targets, runVars, handler, writerVars,
                   queueVars, clientVars, handlerErr>>

\* r.Read failed: every holder of the PTY slave is gone, or ptmx was closed.
ReadFails ==
    /\ Alive /\ pump = "read"
    /\ eof' = TRUE
    /\ pump' = "feed"
    /\ UNCHANGED <<read, rendered, feedFrom, targets, runVars, handler, writerVars,
                   queueVars, clientVars, handlerErr>>

\* Mutant: feed whatever was read, without looking for a boundary.
SafeCutIgnored(cut) == cut = read

\* Scanner.SafeCut: the latest ground boundary among the bytes read.
IsSafeCut(cut) ==
    /\ cut \in Ground /\ cut <= read
    /\ \A g \in Ground : g <= read => g <= cut

IsFeedCut(cut) == IF eof THEN cut = read ELSE IsSafeCut(cut)

PumpContinues == IF eof THEN "done" ELSE "read"

\* feedTerm when no complete sequence is pending.
FeedNothing ==
    /\ Alive /\ pump = "feed"
    /\ \E cut \in 0..read : IsFeedCut(cut) /\ cut <= rendered
    /\ pump' = PumpContinues
    /\ UNCHANGED <<read, rendered, eof, feedFrom, targets, runVars, handler, writerVars,
                   queueVars, clientVars, handlerErr>>

\* Mutant: the fanned-out chunk is taken from the end of outPending.
FeedTermFromEnd ==
    /\ Alive /\ pump = "feed"
    /\ \E cut \in 0..read :
          /\ IsFeedCut(cut) /\ cut > rendered
          /\ rendered' = cut
    /\ feedFrom' = read
    /\ targets' = Attachers
    /\ pump' = "fan"
    /\ UNCHANGED <<read, eof, runVars, handler, writerVars, queueVars, clientVars, handlerErr>>

\* feedTerm takes outMu, writes the terminal, and fanout copies the client set.
FeedTerm ==
    /\ Alive /\ pump = "feed"
    /\ \E cut \in 0..read :
          /\ IsFeedCut(cut) /\ cut > rendered
          /\ rendered' = cut
    /\ feedFrom' = rendered
    /\ targets' = Attachers
    /\ pump' = "fan"
    /\ UNCHANGED <<read, eof, runVars, handler, writerVars, queueVars, clientVars, handlerErr>>

\* Mutant: the backlog check is missing.
QueueOutputUnbounded(c) ==
    /\ Alive /\ pump = "fan" /\ c \in targets
    /\ buf' = [buf EXCEPT ![c] = Append(@, OutputFrame(feedFrom, rendered))]
    /\ targets' = targets \ {c}
    /\ UNCHANGED <<read, rendered, pump, eof, feedFrom, runVars, handler, writerVars,
                   pendingSnapshot, clientVars, handlerErr>>

\* deliverOutput with room in the backlog.
QueueOutput(c) ==
    /\ Alive /\ pump = "fan" /\ c \in targets
    /\ Len(buf[c]) < Cap
    /\ buf' = [buf EXCEPT ![c] = Append(@, OutputFrame(feedFrom, rendered))]
    /\ targets' = targets \ {c}
    /\ UNCHANGED <<read, rendered, pump, eof, feedFrom, runVars, handler, writerVars,
                   pendingSnapshot, clientVars, handlerErr>>

\* Mutant: the stale backlog is kept behind the snapshot.
SkipForwardKeepsBacklog(c) ==
    /\ Alive /\ pump = "fan" /\ c \in targets
    /\ Len(buf[c]) >= Cap
    /\ pendingSnapshot' = [pendingSnapshot EXCEPT ![c] = rendered]
    /\ targets' = targets \ {c}
    /\ UNCHANGED <<read, rendered, pump, eof, feedFrom, runVars, handler, writerVars,
                   buf, clientVars, handlerErr>>

\* deliverOutput on overflow: the backlog gives way to a fresh snapshot.
SkipForward(c) ==
    /\ Alive /\ pump = "fan" /\ c \in targets
    /\ Len(buf[c]) >= Cap
    /\ buf' = [buf EXCEPT ![c] = <<>>]
    /\ pendingSnapshot' = [pendingSnapshot EXCEPT ![c] = rendered]
    /\ targets' = targets \ {c}
    /\ UNCHANGED <<read, rendered, pump, eof, feedFrom, runVars, handler, writerVars,
                   clientVars, handlerErr>>

\* deliverOutput on overflow when the snapshot fails: the chunk is not queued.
SkipForwardFails(c) ==
    /\ Alive /\ pump = "fan" /\ c \in targets
    /\ Len(buf[c]) >= Cap /\ SnapshotMayFail
    /\ handlerErr' = [handlerErr EXCEPT ![c] = @ \cup {"skip"}]
    /\ targets' = targets \ {c}
    /\ UNCHANGED <<read, rendered, pump, eof, feedFrom, runVars, handler, writerVars,
                   queueVars, clientVars>>

\* fanout returns, feedTerm releases outMu; after a flush outDone is closed.
FanoutReturns ==
    /\ Alive /\ pump = "fan" /\ targets = {}
    /\ pump' = PumpContinues
    /\ UNCHANGED <<read, rendered, eof, feedFrom, targets, runVars, handler, writerVars,
                   queueVars, clientVars, handlerErr>>

-----------------------------------------------------------------------------
(* serveAttach.                                                            *)

\* acceptLoop took the connection before the listener was closed.
Accept(c) ==
    /\ phase \in {"serving", "ended"} /\ handler[c] = "none"
    /\ handler' = [handler EXCEPT ![c] = "accepted"]
    /\ conn' = [conn EXCEPT ![c] = "open"]
    /\ UNCHANGED <<pumpVars, runVars, writerVars, queueVars, screen, gotEnded, handlerErr>>

\* The session has not ended: acknowledge.  The check is made under s.mu,
\* which is released before the client joins.
Ack(c) ==
    /\ handler[c] = "accepted" /\ phase = "serving"
    /\ conn[c] \in {"open", "left"}
    /\ handler' = [handler EXCEPT ![c] = "acked"]
    /\ UNCHANGED <<pumpVars, runVars, writerVars, queueVars, clientVars, handlerErr>>

\* The session has ended (or the acknowledgement cannot be written): handle
\* closes the connection.
Refuse(c) ==
    /\ Alive /\ handler[c] = "accepted"
    /\ phase # "serving" \/ conn[c] = "left"
    /\ handler' = [handler EXCEPT ![c] = "refused"]
    /\ conn' = [conn EXCEPT ![c] = IF @ = "left" THEN "left" ELSE "closed"]
    /\ UNCHANGED <<pumpVars, runVars, writerVars, queueVars, screen, gotEnded, handlerErr>>

\* Snapshot and join the fanout with outMu held; the writer starts with the
\* snapshot as its first frame.
Join(c) ==
    /\ Alive /\ handler[c] = "acked" /\ OutMuFree
    /\ handler' = [handler EXCEPT ![c] = "joined"]
    /\ writer' = [writer EXCEPT ![c] = "writing"]
    /\ inflight' = [inflight EXCEPT ![c] = SnapshotFrame(rendered)]
    /\ UNCHANGED <<pumpVars, runVars, queueVars, clientVars, handlerErr>>

\* The snapshot fails: serveAttach returns the error, handle hangs up.
JoinFails(c) ==
    /\ Alive /\ handler[c] = "acked" /\ OutMuFree /\ SnapshotMayFail
    /\ handler' = [handler EXCEPT ![c] = "done"]
    /\ handlerErr' = [handlerErr EXCEPT ![c] = @ \cup {"join"}]
    /\ conn' = [conn EXCEPT ![c] = IF @ = "left" THEN "left" ELSE "closed"]
    /\ UNCHANGED <<pumpVars, runVars, writerVars, queueVars, screen, gotEnded>>

\* enqueueFrame: ask the client for its window size.
RequestSize(c) ==
    /\ Alive /\ handler[c] = "joined"
    /\ buf' = [buf EXCEPT ![c] = Append(@, ControlFrame("resize", c))]
    /\ handler' = [handler EXCEPT ![c] = "reading"]
    /\ UNCHANGED <<pumpVars, runVars, writerVars, pendingSnapshot, clientVars, handlerErr>>

\* Mutant: the resize error is not recorded.
ReadResizeForgetsError(c) ==
    /\ Alive /\ handler[c] = "reading" /\ conn[c] = "open" /\ ~ptyOpen
    /\ handler' = [handler EXCEPT ![c] = "leaving"]
    /\ UNCHANGED <<pumpVars, runVars, writerVars, queueVars, clientVars, handlerErr>>

\* A Resize frame arrives once ptmx is closed: Setsize fails, the read loop
\* breaks and the client leaves s.attachers.  (Before that, a Resize only
\* changes window sizes, which this module does not keep.)
ReadResize(c) ==
    /\ Alive /\ handler[c] = "reading" /\ conn[c] = "open" /\ ~ptyOpen
    /\ handler' = [handler EXCEPT ![c] = "leaving"]
    /\ handlerErr' = [handlerErr EXCEPT ![c] = @ \cup {"resize"}]
    /\ UNCHANGED <<pumpVars, runVars, writerVars, queueVars, clientVars>>

\* ReadFrame fails, or a Detach frame arrives: the client leaves s.attachers.
ReadBreaks(c) ==
    /\ Alive /\ handler[c] = "reading" /\ conn[c] \in {"left", "closed"}
    /\ handler' = [handler EXCEPT ![c] = "leaving"]
    /\ UNCHANGED <<pumpVars, runVars, writerVars, queueVars, clientVars, handlerErr>>

\* applyMinSize, then signalClose sets a.closed.
SignalClose(c) ==
    /\ Alive /\ handler[c] = "leaving"
    /\ handler' = [handler EXCEPT ![c] = "signalled"]
    /\ UNCHANGED <<pumpVars, runVars, writerVars, queueVars, clientVars, handlerErr>>

\* writerDone is received; handle closes the connection.
HandlerReturns(c) ==
    /\ Alive /\ handler[c] = "signalled" /\ writer[c] = "done"
    /\ handler' = [handler EXCEPT ![c] = "done"]
    /\ conn' = [conn EXCEPT ![c] = IF @ = "left" THEN "left" ELSE "closed"]
    /\ UNCHANGED <<pumpVars, runVars, writerVars, queueVars, screen, gotEnded, handlerErr>>

-----------------------------------------------------------------------------
(* attachWriter.                                                           *)

\* a.closed: stop without draining the backlog.
WriterStops(c) ==
    /\ Alive /\ writer[c] = "idle" /\ handler[c] = "signalled"
    /\ writer' = [writer EXCEPT ![c] = "done"]
    /\ UNCHANGED <<pumpVars, runVars, handler, inflight, queueVars, clientVars, handlerErr>>

\* Mutant: the snapshot taken is not cleared.
WriterTakesSnapshotForever(c) ==
    /\ Alive /\ writer[c] = "idle" /\ handler[c] # "signalled"
    /\ pendingSnapshot[c] # NoSnapshot
    /\ inflight' = [inflight EXCEPT ![c] = SnapshotFrame(pendingSnapshot[c])]
    /\ writer' = [writer EXCEPT ![c] = "writing"]
    /\ UNCHANGED <<pumpVars, runVars, handler, queueVars, clientVars, handlerErr>>

WriterTakesSnapshot(c) ==
    /\ Alive /\ writer[c] = "idle" /\ handler[c] # "signalled"
    /\ pendingSnapshot[c] # NoSnapshot
    /\ inflight' = [inflight EXCEPT ![c] = SnapshotFrame(pendingSnapshot[c])]
    /\ pendingSnapshot' = [pendingSnapshot EXCEPT ![c] = NoSnapshot]
    /\ writer' = [writer EXCEPT ![c] = "writing"]
    /\ UNCHANGED <<pumpVars, runVars, handler, buf, clientVars, handlerErr>>

\* Mutant: backlog frames are written ahead of a pending snapshot.
WriterTakesFrameFirst(c) ==
    /\ Alive /\ writer[c] = "idle" /\ handler[c] # "signalled"
    /\ buf[c] # <<>>
    /\ inflight' = [inflight EXCEPT ![c] = Head(buf[c])]
    /\ buf' = [buf EXCEPT ![c] = Tail(@)]
    /\ writer' = [writer EXCEPT ![c] = "writing"]
    /\ UNCHANGED <<pumpVars, runVars, handler, pendingSnapshot, clientVars, handlerErr>>

WriterTakesFrame(c) ==
    /\ Alive /\ writer[c] = "idle" /\ handler[c] # "signalled"
    /\ pendingSnapshot[c] = NoSnapshot /\ buf[c] # <<>>
    /\ inflight' = [inflight EXCEPT ![c] = Head(buf[c])]
    /\ buf' = [buf EXCEPT ![c] = Tail(@)]
    /\ writer' = [writer EXCEPT ![c] = "writing"]
    /\ UNCHANGED <<pumpVars, runVars, handler, pendingSnapshot, clientVars, handlerErr>>

\* What a frame does to the terminal of the client that receives it: a
\* snapshot replaces the screen, output continues it, control frames carry
\* no output.
Receive(shown, frame) ==
    IF frame.tag = "snapshot" THEN frame.to
    ELSE IF frame.tag # "output" THEN shown
    ELSE IF frame.from = shown THEN frame.to ELSE Garbled

\* WriteFrame succeeds on a connection its peer still reads; after FrameEnded
\* the writer closes the connection.
WriteFrame(c) ==
    /\ Alive /\ writer[c] = "writing" /\ conn[c] = "open"
    /\ screen' = [screen EXCEPT ![c] = Receive(@, inflight[c])]
    /\ gotEnded' = [gotEnded EXCEPT ![c] = inflight[c].tag = "ended"]
    /\ writer' = [writer EXCEPT ![c] = IF inflight[c].tag = "ended" THEN "done" ELSE "idle"]
    /\ conn' = [conn EXCEPT ![c] = IF inflight[c].tag = "ended" THEN "closed" ELSE @]
    /\ inflight' = [inflight EXCEPT ![c] = NoFrame]
    /\ UNCHANGED <<pumpVars, runVars, handler, queueVars, handlerErr>>

\* WriteFrame into the socket of a client that left: nobody reads the frame.
WriteUnread(c) ==
    /\ Alive /\ writer[c] = "writing" /\ conn[c] = "left"
    /\ writer' = [writer EXCEPT ![c] = IF inflight[c].tag = "ended" THEN "done" ELSE "idle"]
    /\ inflight' = [inflight EXCEPT ![c] = NoFrame]
    /\ UNCHANGED <<pumpVars, runVars, handler, queueVars, clientVars, handlerErr>>

\* WriteFrame fails on a connection its peer closed: the writer hangs up.
WriteFails(c) ==
    /\ Alive /\ writer[c] = "writing" /\ conn[c] = "left"
    /\ writer' = [writer EXCEPT ![c] = "done"]
    /\ inflight' = [inflight EXCEPT ![c] = NoFrame]
    /\ UNCHANGED <<pumpVars, runVars, handler, queueVars, clientVars, handlerErr>>

\* The client detaches or goes away.
ClientLeaves(c) ==
    /\ Alive /\ conn[c] = "open"
    /\ conn' = [conn EXCEPT ![c] = "left"]
    /\ UNCHANGED <<pumpVars, runVars, handler, writerVars, queueVars, screen, gotEnded, handlerErr>>

-----------------------------------------------------------------------------
(* Session.run after the command is started.                               *)

\* reap: the command exited, s.ended is set.
Reap ==
    /\ phase = "serving"
    /\ phase' = "ended"
    /\ UNCHANGED <<pumpVars, ptyOpen, endTargets, handler, writerVars, queueVars, clientVars, handlerErr>>

\* s.closing is set, the listener closed, the accept loop awaited.
CloseListener ==
    /\ phase = "ended"
    /\ phase' = "draining"
    /\ UNCHANGED <<pumpVars, ptyOpen, endTargets, handler, writerVars, queueVars, clientVars, handlerErr>>

\* outDone or outputDrainGrace, whichever first; then ptmx.Close.
ClosePty ==
    /\ phase = "draining"
    /\ phase' = "closed"
    /\ ptyOpen' = FALSE
    /\ UNCHANGED <<pumpVars, endTargets, handler, writerVars, queueVars, clientVars, handlerErr>>

\* Mutant: the clients are told before the output path has drained.
EndAttachersEarly ==
    /\ phase = "closed"
    /\ phase' = "ending"
    /\ endTargets' = Attachers
    /\ UNCHANGED <<pumpVars, ptyOpen, handler, writerVars, queueVars, clientVars, handlerErr>>

\* Mutant: the shutdown waits until the clients have taken their backlog.
EndAttachersWaits ==
    /\ phase = "closed" /\ pump = "done" /\ \A c \in Clients : buf[c] = <<>>
    /\ phase' = "ending"
    /\ endTargets' = Attachers
    /\ UNCHANGED <<pumpVars, ptyOpen, handler, writerVars, queueVars, clientVars, handlerErr>>

\* <-s.outDone; endAttachers copies the client set under s.mu.
EndAttachers ==
    /\ phase = "closed" /\ pump = "done"
    /\ phase' = "ending"
    /\ endTargets' = Attachers
    /\ UNCHANGED <<pumpVars, ptyOpen, handler, writerVars, queueVars, clientVars, handlerErr>>

\* Mutant: FrameEnded overtakes the backlog.
EndAttacherFirst(c) ==
    /\ phase = "ending" /\ c \in endTargets
    /\ buf' = [buf EXCEPT ![c] = <<ControlFrame("ended", c)>> \o @]
    /\ endTargets' = endTargets \ {c}
    /\ UNCHANGED <<pumpVars, phase, ptyOpen, handler, writerVars, pendingSnapshot, clientVars, handlerErr>>

\* endAttachers appends FrameEnded to one client's buffer.
EndAttacher(c) ==
    /\ phase = "ending" /\ c \in endTargets
    /\ buf' = [buf EXCEPT ![c] = Append(@, ControlFrame("ended", c))]
    /\ endTargets' = endTargets \ {c}
    /\ UNCHANGED <<pumpVars, phase, ptyOpen, handler, writerVars, pendingSnapshot, clientVars, handlerErr>>

\* persist and removeSocket.
Persist ==
    /\ phase = "ending" /\ endTargets = {}
    /\ phase' = "persisted"
    /\ UNCHANGED <<pumpVars, ptyOpen, endTargets, handler, writerVars, queueVars, clientVars, handlerErr>>

\* waitConns returns, all handlers done or connDrainGrace over; the process
\* exits, which cuts the connections still open.
Exit ==
    /\ phase = "persisted"
    /\ phase' = "exited"
    /\ conn' = [c \in Clients |-> IF conn[c] = "open" THEN "cut" ELSE conn[c]]
    /\ UNCHANGED <<pumpVars, ptyOpen, endTargets, handler, writerVars, queueVars, screen, gotEnded, handlerErr>>

-----------------------------------------------------------------------------
Pump ==
    \/ \E n \in 1..MaxOut : ReadOutput(n)
    \/ ReadFails
    \/ FeedNothing
    \/ FeedTerm
    \/ \E c \in Clients : QueueOutput(c) \/ SkipForward(c) \/ SkipForwardFails(c)
    \/ FanoutReturns

Handler(c) ==
    \/ Accept(c) \/ Ack(c) \/ Refuse(c) \/ Join(c) \/ JoinFails(c) \/ RequestSize(c)
    \/ ReadResize(c) \/ ReadBreaks(c) \/ SignalClose(c) \/ HandlerReturns(c)

Writer(c) ==
    \/ WriterStops(c) \/ WriterTakesSnapshot(c) \/ WriterTakesFrame(c)
    \/ WriteFrame(c) \/ WriteUnread(c) \/ WriteFails(c)

Run ==
    \/ Reap \/ CloseListener \/ ClosePty \/ EndAttachers
    \/ \E c \in Clients : EndAttacher(c)
    \/ Persist \/ Exit

Next ==
    \/ Pump
    \/ \E c \in Clients : Handler(c) \/ Writer(c) \/ ClientLeaves(c)
    \/ Run

Spec == Init /\ [][Next]_vars

-----------------------------------------------------------------------------
(* Fairness.  The pump's own steps and those of Session.run are never      *)
(* blocked by a client, so the Go scheduler runs them; a PTY read ends     *)
(* once ptmx is closed, and both graces are timers.  Nothing is assumed of *)
(* clients, of their writers or of the command.                            *)

Deliver(c) == QueueOutput(c) \/ SkipForward(c) \/ SkipForwardFails(c)

PumpProgress ==
    \/ FeedNothing
    \/ FeedTerm
    \/ \E c \in Clients : Deliver(c)
    \/ FanoutReturns
    \/ ~ptyOpen /\ ReadFails

RunProgress ==
    \/ CloseListener \/ ClosePty \/ EndAttachers
    \/ \E c \in Clients : EndAttacher(c)
    \/ Persist \/ Exit

FairSpec == Spec /\ WF_vars(PumpProgress) /\ WF_vars(RunProgress)

\* What a client that keeps reading its connection adds: its writes complete.
Reads(c) == WF_vars(Writer(c)) /\ WF_vars(RequestSize(c))

-----------------------------------------------------------------------------
(* Properties.                                                             *)

Skipped(c) == "skip" \in handlerErr[c]

\* What a client is sent always tiles: no frame leaves a hole or repeats
\* bytes, whatever snapshots replaced its backlog (feedTerm, serveAttach and
\* deliverOutput: "tiles cleanly"), unless taking a snapshot failed.
StreamTiles == \A c \in Clients : ~Skipped(c) => screen[c] # Garbled

\* A snapshot handed to a client never stands inside an escape sequence or a
\* rune: live output after it starts at a boundary.  Only the flush at EOF
\* may render a torn tail, and nothing follows it.
SnapshotAtBoundary ==
    ~eof => \A c \in Clients :
        /\ pendingSnapshot[c] # NoSnapshot => pendingSnapshot[c] \in Ground
        /\ inflight[c].tag = "snapshot" => inflight[c].to \in Ground

\* FrameEnded reaches a client only after every byte the command wrote, the
\* drained tail included (endAttachers: "behind all output").
EndedIsLast ==
    \A c \in Clients : gotEnded[c] /\ ~Skipped(c) => pump = "done" /\ screen[c] = read

\* A slow client costs bounded memory: output stops at Cap frames, and on top
\* of it there is at most one window-size request and one ended frame.
BacklogBounded == \A c \in Clients : Len(buf[c]) <= Cap + 2

\* While the process lives, the daemon hangs up on a client that was admitted
\* and stayed only after FrameEnded, or after recording an error about it.
NoSilentClose ==
    \A c \in Clients :
        conn[c] = "closed" /\ handler[c] # "refused" /\ handlerErr[c] = {} => gotEnded[c]

\* A client's terminal never goes back: neither a re-sync snapshot nor the
\* frames queued behind it show an earlier state than the one on screen.
ScreenNeverGoesBack ==
    [][\A c \in Clients : ~Skipped(c) => screen'[c] >= screen[c]]_vars

\* Whatever clients and their writers do, once the command is reaped the
\* daemon drains, persists and exits: a client that stopped reading stalls
\* neither the pump nor the shutdown.
ShutdownCompletes == (phase = "ended") ~> (phase = "exited")

\* A client that stays and reads is brought up to date with everything that
\* was rendered, re-syncs included, unless a re-sync failed or the session
\* ends under it.
ClientCatchesUp ==
    \A c \in Clients :
        Reads(c) => (c \in Attachers ~>
                        \/ screen[c] = rendered \/ Skipped(c)
                        \/ c \notin Attachers \/ conn[c] # "open")

\* What docs/comments promise of the end of a session, for the runs that
\* show where the code departs from it.

\* "Any still-attached clients will also receive all such output before
\* closing automatically": a client the daemon hung up on was shown every
\* byte.
AllOutputBeforeClose ==
    \A c \in Clients :
        conn[c] = "closed" /\ handler[c] # "refused" => screen[c] = read

\* "Tell still-attached clients the session ended": an attached client that
\* has read everything queued for it is not cut off without an ended frame.
NobodyLeftBehind ==
    \A c \in Clients :
        /\ conn[c] = "cut" /\ c \in Attachers
        /\ writer[c] = "idle" /\ buf[c] = <<>> /\ pendingSnapshot[c] = NoSnapshot
        => gotEnded[c]

-----------------------------------------------------------------------------
(* The abstract specification that a daemon whose snapshots succeed        *)
(* implements.                                                             *)

\* A client is away until it joins the fanout.
Status(c) ==
    CASE gotEnded[c] -> "ended"
      [] ~gotEnded[c] /\ conn[c] \in {"left", "closed", "cut"} -> "gone"
      [] conn[c] = "open" /\ writer[c] # "none" -> "watching"
      [] OTHER -> "away"

Stream == INSTANCE OutputStream WITH
    produced <- rendered,
    complete <- (pump = "done"),
    status <- [c \in Clients |-> Status(c)],
    view <- screen

\* The queues, snapshots and shutdown of the daemon implement OutputStream:
\* every client sees ever later states of one stream, and FrameEnded only
\* after all of it.
ImplementsOutputStream == Stream!Spec

-----------------------------------------------------------------------------
(* The inductive strengthening of the properties about what clients see.   *)

\* A connection that has not joined the fanout has no attacher yet.
Fresh(c) == handler[c] \in {"none", "accepted", "acked", "refused"}

FreshIsEmpty ==
    \A c \in Clients : Fresh(c) =>
        /\ writer[c] = "none" /\ inflight[c] = NoFrame
        /\ buf[c] = <<>> /\ pendingSnapshot[c] = NoSnapshot
        /\ screen[c] = 0 /\ ~gotEnded[c] /\ handlerErr[c] = {}
        /\ c \notin targets /\ c \notin endTargets

WriterHolds == \A c \in Clients : (writer[c] = "writing") <=> (inflight[c].tag # "none")

Ending == phase \in {"ending", "persisted", "exited"}

PumpInv ==
    /\ rendered \in Ground \/ eof
    /\ targets # {} => pump = "fan"
    /\ pump = "fan" /\ eof => rendered = read
    /\ pump = "done" => eof /\ rendered = read
    /\ Ending => pump = "done"
    /\ endTargets # {} => phase = "ending"

\* Backlog frames never run backwards; control frames stand still.
FrameOK(f) ==
    /\ f.tag \in {"output", "resize", "ended"}
    /\ f.from <= f.to /\ f.to <= rendered
    /\ f.tag # "output" => f.to = f.from
    /\ f.tag = "ended" => Ending /\ f.to = rendered

\* Frames that leave no hole and repeat nothing, from position base on.
Linked(base, frames) ==
    /\ frames # <<>> => frames[1].from = base
    /\ \A i \in 1..Len(frames) : i + 1 <= Len(frames) => frames[i + 1].from = frames[i].to

\* What the writer holds continues the screen.
InflightOK(c) ==
    /\ inflight[c].tag \in {"output", "resize", "ended"} =>
          FrameOK(inflight[c]) /\ inflight[c].from = screen[c]
    /\ inflight[c].tag = "snapshot" => screen[c] <= inflight[c].to /\ inflight[c].to <= rendered

\* The backlog continues what the writer holds, or the pending snapshot.
BufOK(c) ==
    /\ \A i \in 1..Len(buf[c]) : FrameOK(buf[c][i])
    /\ Linked(Base(c), buf[c])

\* An attached client's stream ends where the terminal stands, or where the
\* chunk still to be delivered to it starts.
EndOK(c) ==
    /\ c \in targets => QueueEnd(c) = feedFrom
    /\ c \in Attachers \ targets => QueueEnd(c) = rendered
    /\ c \in endTargets => QueueEnd(c) = rendered

Chain(c) ==
    /\ screen[c] # Garbled /\ screen[c] <= rendered
    /\ pendingSnapshot[c] # NoSnapshot =>
          Shown(c) <= pendingSnapshot[c] /\ pendingSnapshot[c] <= rendered
    /\ InflightOK(c)
    /\ BufOK(c)
    /\ EndOK(c)

ChainInv == \A c \in Clients : conn[c] = "open" /\ ~Skipped(c) => Chain(c)

StreamInv ==
    /\ TypeOK /\ FreshIsEmpty /\ WriterHolds /\ PumpInv /\ ChainInv
    /\ StreamTiles /\ EndedIsLast /\ SnapshotAtBoundary
=============================================================================
