---------------------------- MODULE AttachProof ----------------------------
(***************************************************************************)
(* Proofs about Attach, for any clients, backlog, output and boundaries:   *)
(* every client's stream tiles, whatever snapshots replace what is queued  *)
(* for it; the backlog is bounded and nobody is hung up on silently; and a *)
(* daemon whose snapshots succeed implements OutputStream.                 *)
(***************************************************************************)
EXTENDS Attach, TLAPS

-----------------------------------------------------------------------------
(* Types.                                                                  *)

\* The position a client's stream ends at is a position.
LEMMA QueueEndType ==
    ASSUME TypeOK, NEW c \in Clients
    PROVE  QueueEnd(c) \in Position /\ Shown(c) \in Position
<1>1. Shown(c) \in Position
    BY DEF TypeOK, Shown, Frame, Position, NoFrame
<1>2. Base(c) \in Position
    BY <1>1 DEF TypeOK, Base, Position, NoSnapshot, Garbled
<1>3. ASSUME buf[c] # <<>> PROVE buf[c][Len(buf[c])].to \in Position
    <2>1. buf[c] \in Seq(QueuedFrame) BY DEF TypeOK
    <2>2. Len(buf[c]) \in 1..Len(buf[c]) BY <1>3, <2>1
    <2>3. buf[c][Len(buf[c])] \in QueuedFrame BY <2>1, <2>2
    <2> QED BY <2>3 DEF QueuedFrame
<1> QED BY <1>1, <1>2, <1>3 DEF QueueEnd, EndOf

\* Every step keeps every variable within its type and the three positions
\* of the pump in order.
LEMMA TypeStep == TypeOK /\ [Next]_vars => TypeOK'
<1> SUFFICES ASSUME TypeOK, [Next]_vars PROVE TypeOK' OBVIOUS
<1> USE MaxOutAssumption, GroundAssumption DEF TypeOK
<1>1. CASE Pump
    <2>1. ASSUME NEW n \in 1..MaxOut, ReadOutput(n) PROVE TypeOK'
        BY <2>1 DEF ReadOutput, runVars, writerVars, queueVars, clientVars
    <2>2. CASE ReadFails
        BY <2>2 DEF ReadFails, runVars, writerVars, queueVars, clientVars
    <2>3. CASE FeedNothing
        BY <2>3 DEF FeedNothing, PumpContinues, runVars, writerVars, queueVars, clientVars
    <2>4. CASE FeedTerm
        BY <2>4 DEF FeedTerm, Attachers, runVars, writerVars, queueVars, clientVars
    <2>5. ASSUME NEW c \in Clients, QueueOutput(c) PROVE TypeOK'
        <3>1. OutputFrame(feedFrom, rendered) \in QueuedFrame
            BY DEF OutputFrame, QueuedFrame, Position, Tags
        <3>2. buf' \in [Clients -> Seq(QueuedFrame)]
            BY <2>5, <3>1 DEF QueueOutput
        <3> QED BY <2>5, <3>2 DEF QueueOutput, runVars, writerVars, clientVars
    <2>6. ASSUME NEW c \in Clients, SkipForward(c) PROVE TypeOK'
        BY <2>6 DEF SkipForward, runVars, writerVars, clientVars
    <2>7. ASSUME NEW c \in Clients, SkipForwardFails(c) PROVE TypeOK'
        BY <2>7 DEF SkipForwardFails, runVars, writerVars, queueVars, clientVars
    <2>8. CASE FanoutReturns
        BY <2>8 DEF FanoutReturns, PumpContinues, runVars, writerVars, queueVars, clientVars
    <2> QED BY <1>1, <2>1, <2>2, <2>3, <2>4, <2>5, <2>6, <2>7, <2>8 DEF Pump
<1>2. ASSUME NEW c \in Clients, Handler(c) PROVE TypeOK'
    <2>1. CASE RequestSize(c)
        <3>1. ControlFrame("resize", c) \in QueuedFrame
            BY QueueEndType DEF ControlFrame, QueuedFrame, Tags
        <3>2. buf' \in [Clients -> Seq(QueuedFrame)]
            BY <2>1, <3>1 DEF RequestSize
        <3> QED BY <2>1, <3>2 DEF RequestSize, pumpVars, runVars, writerVars, clientVars
    <2>2. CASE Join(c)
        <3>1. SnapshotFrame(rendered) \in Frame
            BY DEF SnapshotFrame, Frame, Position, Tags
        <3> QED BY <2>2, <3>1 DEF Join, pumpVars, runVars, queueVars, clientVars
    <2>3. CASE Accept(c)
        BY <2>3 DEF Accept, pumpVars, runVars, writerVars, queueVars, clientVars
    <2>4. CASE Ack(c)
        BY <2>4 DEF Ack, pumpVars, runVars, writerVars, queueVars, clientVars
    <2>5. CASE Refuse(c)
        BY <2>5 DEF Refuse, pumpVars, runVars, writerVars, queueVars, clientVars
    <2>6. CASE JoinFails(c)
        BY <2>6 DEF JoinFails, pumpVars, runVars, writerVars, queueVars, clientVars
    <2>7. CASE ReadResize(c)
        BY <2>7 DEF ReadResize, pumpVars, runVars, writerVars, queueVars, clientVars
    <2>8. CASE ReadBreaks(c)
        BY <2>8 DEF ReadBreaks, pumpVars, runVars, writerVars, queueVars, clientVars
    <2>9. CASE SignalClose(c)
        BY <2>9 DEF SignalClose, pumpVars, runVars, writerVars, queueVars, clientVars
    <2>10. CASE HandlerReturns(c)
        BY <2>10 DEF HandlerReturns, pumpVars, runVars, writerVars, queueVars, clientVars
    <2> QED BY <1>2, <2>1, <2>2, <2>3, <2>4, <2>5, <2>6, <2>7, <2>8, <2>9, <2>10 DEF Handler
<1>3. ASSUME NEW c \in Clients, Writer(c) PROVE TypeOK'
    <2>1. CASE WriterStops(c)
        BY <2>1 DEF WriterStops, pumpVars, runVars, queueVars, clientVars
    <2>5. CASE WriteUnread(c)
        BY <2>5 DEF WriteUnread, pumpVars, runVars, queueVars, clientVars
    <2>6. CASE WriteFails(c)
        BY <2>6 DEF WriteFails, pumpVars, runVars, queueVars, clientVars
    <2>2. CASE WriterTakesSnapshot(c)
        <3>1. SnapshotFrame(pendingSnapshot[c]) \in Frame
            BY DEF SnapshotFrame, Frame, Position, Tags, NoSnapshot, Garbled
        <3> QED BY <2>2, <3>1 DEF WriterTakesSnapshot, pumpVars, runVars, clientVars
    <2>3. CASE WriterTakesFrame(c)
        <3>1. Head(buf[c]) \in QueuedFrame /\ Tail(buf[c]) \in Seq(QueuedFrame)
            BY <2>3 DEF WriterTakesFrame
        <3>2. Head(buf[c]) \in Frame BY <3>1 DEF QueuedFrame, Frame
        <3> QED BY <2>3, <3>1, <3>2 DEF WriterTakesFrame, pumpVars, runVars, clientVars
    <2>4. CASE WriteFrame(c)
        <3>1. Receive(screen[c], inflight[c]) \in Position
            BY DEF Receive, Frame, Position, NoFrame
        <3>3. screen' \in [Clients -> Position] /\ inflight' \in [Clients -> Frame \cup {NoFrame}]
            BY <2>4, <3>1 DEF WriteFrame
        <3>4. gotEnded' \in [Clients -> BOOLEAN]
            BY <2>4 DEF WriteFrame
        <3> QED BY <2>4, <3>3, <3>4 DEF WriteFrame, pumpVars, runVars, queueVars
    <2> QED BY <1>3, <2>1, <2>2, <2>3, <2>4, <2>5, <2>6 DEF Writer
<1>4. ASSUME NEW c \in Clients, ClientLeaves(c) PROVE TypeOK'
    BY <1>4 DEF ClientLeaves, pumpVars, runVars, writerVars, queueVars
<1>5. CASE Run
    <2>1. ASSUME NEW c \in Clients, EndAttacher(c) PROVE TypeOK'
        <3>1. ControlFrame("ended", c) \in QueuedFrame
            BY QueueEndType DEF ControlFrame, QueuedFrame, Tags
        <3>2. buf' \in [Clients -> Seq(QueuedFrame)]
            BY <2>1, <3>1 DEF EndAttacher
        <3> QED BY <2>1, <3>2 DEF EndAttacher, pumpVars, writerVars, clientVars
    <2>2. CASE Reap \/ CloseListener \/ ClosePty \/ EndAttachers \/ Persist
        BY <2>2 DEF Reap, CloseListener, ClosePty, EndAttachers, Persist, Attachers,
                    pumpVars, writerVars, queueVars, clientVars
    <2>3. CASE Exit
        BY <2>3 DEF Exit, pumpVars, writerVars, queueVars
    <2> QED BY <1>5, <2>1, <2>2, <2>3 DEF Run
<1>6. CASE UNCHANGED vars
    BY <1>6 DEF vars, pumpVars, runVars, writerVars, queueVars, clientVars
<1> QED BY <1>1, <1>2, <1>3, <1>4, <1>5, <1>6 DEF Next

\* A daemon that has just started its command is well typed.
LEMMA TypeInit == Init => TypeOK
<1> SUFFICES ASSUME Init PROVE TypeOK OBVIOUS
<1>1. 0 \in Position BY DEF Position
<1>2. buf \in [Clients -> Seq(QueuedFrame)] BY DEF Init
<1>3. inflight \in [Clients -> Frame \cup {NoFrame}] BY DEF Init
<1>4. screen \in [Clients -> Position] BY <1>1 DEF Init
<1>5. pendingSnapshot \in [Clients -> Nat \cup {NoSnapshot}] BY DEF Init
<1>6. gotEnded \in [Clients -> BOOLEAN] BY Zenon DEF Init
<1>7. handlerErr \in [Clients -> SUBSET {"join", "skip", "resize"}] BY DEF Init
<1>8. eof \in BOOLEAN /\ ptyOpen \in BOOLEAN BY Zenon DEF Init
<1>9. read \in 0..MaxOut /\ rendered \in 0..read /\ feedFrom \in 0..rendered
    BY MaxOutAssumption DEF Init
<1> QED BY <1>2, <1>3, <1>4, <1>5, <1>6, <1>7, <1>8, <1>9 DEF Init, TypeOK

\* Whatever clients do, every variable stays within its type, and the bytes
\* rendered never overtake the bytes read (feedTerm renders a prefix).
THEOREM TypeCorrect == Spec => []TypeOK
    BY TypeInit, TypeStep, PTL DEF Spec

-----------------------------------------------------------------------------
(* What the shape of the actions gives.                                    *)

\* Handlers, writers and clients leave the pump and Session.run alone.
LEMMA ClientFrame ==
    ASSUME NEW c \in Clients, Handler(c) \/ Writer(c) \/ ClientLeaves(c)
    PROVE  UNCHANGED <<pumpVars, runVars>>
<1>1. CASE Handler(c)
    BY <1>1 DEF Handler, Accept, Ack, Refuse, Join, JoinFails, RequestSize, ReadResize,
                ReadBreaks, SignalClose, HandlerReturns
<1>2. CASE Writer(c)
    BY <1>2 DEF Writer, WriterStops, WriterTakesSnapshot, WriterTakesFrame, WriteFrame,
                WriteUnread, WriteFails
<1>3. CASE ClientLeaves(c)
    BY <1>3 DEF ClientLeaves
<1> QED BY <1>1, <1>2, <1>3

\* The pump and Session.run leave handlers, writers and screens alone.
LEMMA DaemonFrame ==
    ASSUME Pump \/ Run
    PROVE  UNCHANGED <<handler, writerVars, screen, gotEnded>>
<1>1. CASE Pump
    BY <1>1 DEF Pump, ReadOutput, ReadFails, FeedNothing, FeedTerm, QueueOutput, SkipForward,
                SkipForwardFails, FanoutReturns, clientVars
<1>2. CASE Run
    BY <1>2 DEF Run, Reap, CloseListener, ClosePty, EndAttachers, EndAttacher, Persist, Exit,
                clientVars
<1> QED BY <1>1, <1>2

\* A handler touches no client but its own.
LEMMA OtherHandler ==
    ASSUME TypeOK, NEW c \in Clients, NEW d \in Clients, c # d, Handler(c)
    PROVE  /\ handler'[d] = handler[d] /\ writer'[d] = writer[d] /\ inflight'[d] = inflight[d]
           /\ buf'[d] = buf[d] /\ pendingSnapshot'[d] = pendingSnapshot[d]
           /\ screen'[d] = screen[d] /\ gotEnded'[d] = gotEnded[d]
           /\ handlerErr'[d] = handlerErr[d] /\ conn'[d] = conn[d]
<1> USE DEF TypeOK, writerVars, queueVars, clientVars
<1>1. CASE Accept(c) BY <1>1 DEF Accept
<1>2. CASE Ack(c) BY <1>2 DEF Ack
<1>3. CASE Refuse(c) BY <1>3 DEF Refuse
<1>4. CASE Join(c) BY <1>4 DEF Join
<1>5. CASE JoinFails(c) BY <1>5 DEF JoinFails
<1>6. CASE RequestSize(c) BY <1>6 DEF RequestSize
<1>7. CASE ReadResize(c) BY <1>7 DEF ReadResize
<1>8. CASE ReadBreaks(c) BY <1>8 DEF ReadBreaks
<1>9. CASE SignalClose(c) BY <1>9 DEF SignalClose
<1>10. CASE HandlerReturns(c) BY <1>10 DEF HandlerReturns
<1> QED BY <1>1, <1>2, <1>3, <1>4, <1>5, <1>6, <1>7, <1>8, <1>9, <1>10 DEF Handler

\* A writer touches no client but its own.
LEMMA OtherWriter ==
    ASSUME TypeOK, NEW c \in Clients, NEW d \in Clients, c # d, Writer(c)
    PROVE  /\ writer'[d] = writer[d] /\ inflight'[d] = inflight[d]
           /\ buf'[d] = buf[d] /\ pendingSnapshot'[d] = pendingSnapshot[d]
           /\ screen'[d] = screen[d] /\ gotEnded'[d] = gotEnded[d] /\ conn'[d] = conn[d]
           /\ handlerErr'[d] = handlerErr[d]
<1> USE DEF TypeOK, queueVars, clientVars
<1>1. CASE WriterStops(c) BY <1>1 DEF WriterStops
<1>2. CASE WriterTakesSnapshot(c) BY <1>2 DEF WriterTakesSnapshot
<1>3. CASE WriterTakesFrame(c) BY <1>3 DEF WriterTakesFrame
<1>4. CASE WriteFrame(c) BY <1>4 DEF WriteFrame
<1>5. CASE WriteUnread(c) BY <1>5 DEF WriteUnread
<1>6. CASE WriteFails(c) BY <1>6 DEF WriteFails
<1> QED BY <1>1, <1>2, <1>3, <1>4, <1>5, <1>6 DEF Writer

\* Writers and leaving clients add nothing to what is recorded about clients.
LEMMA WriterFrame ==
    ASSUME NEW c \in Clients, Writer(c) \/ ClientLeaves(c)
    PROVE  UNCHANGED <<handler, handlerErr>>
BY DEF Writer, WriterStops, WriterTakesSnapshot, WriterTakesFrame, WriteFrame, WriteUnread,
       WriteFails, ClientLeaves

\* A step of a writer is a step of one that runs.
LEMMA WriterRuns ==
    ASSUME NEW c \in Clients, Writer(c)
    PROVE  writer[c] \in {"idle", "writing"}
BY DEF Writer, WriterStops, WriterTakesSnapshot, WriterTakesFrame, WriteFrame, WriteUnread,
       WriteFails

-----------------------------------------------------------------------------
(* The pump's own invariant.                                               *)

\* Every step keeps the pump between what it read and what it rendered, and
\* Session.run behind the pump: clients are told only once the pump is done.
LEMMA PumpStep ==
    ASSUME TypeOK, PumpInv, [Next]_vars
    PROVE  PumpInv'
<1> USE DEF PumpInv, Ending
<1>1. CASE UNCHANGED <<pumpVars, runVars>>
    BY <1>1 DEF pumpVars, runVars
<1>2. CASE Pump
    <2>1. ASSUME NEW n \in 1..MaxOut, ReadOutput(n) PROVE PumpInv'
        BY <2>1 DEF ReadOutput, runVars
    <2>2. CASE ReadFails
        BY <2>2 DEF ReadFails, runVars
    <2>3. CASE FeedNothing
        BY <2>3 DEF FeedNothing, IsFeedCut, PumpContinues, runVars, TypeOK
    <2>4. CASE FeedTerm
        BY <2>4 DEF FeedTerm, IsFeedCut, IsSafeCut, runVars
    <2>5. ASSUME NEW c \in Clients, QueueOutput(c) PROVE PumpInv'
        BY <2>5 DEF QueueOutput, runVars
    <2>6. ASSUME NEW c \in Clients, SkipForward(c) PROVE PumpInv'
        BY <2>6 DEF SkipForward, runVars
    <2>7. ASSUME NEW c \in Clients, SkipForwardFails(c) PROVE PumpInv'
        BY <2>7 DEF SkipForwardFails, runVars
    <2>8. CASE FanoutReturns
        BY <2>8 DEF FanoutReturns, PumpContinues, runVars
    <2> QED BY <1>2, <2>1, <2>2, <2>3, <2>4, <2>5, <2>6, <2>7, <2>8 DEF Pump
<1>3. CASE Run
    BY <1>3 DEF Run, Reap, CloseListener, ClosePty, EndAttachers, EndAttacher, Persist, Exit,
                pumpVars
<1> QED BY <1>1, <1>2, <1>3, ClientFrame DEF Next, vars

-----------------------------------------------------------------------------
(* A writer holds a frame exactly while it writes.                         *)

\* Every step of attachWriter, and of everyone else, keeps it so.
LEMMA WriterStep ==
    ASSUME TypeOK, WriterHolds, [Next]_vars
    PROVE  WriterHolds'
<1> SUFFICES ASSUME NEW d \in Clients
             PROVE  (writer'[d] = "writing") <=> (inflight'[d].tag # "none")
    BY DEF WriterHolds
<1> USE DEF WriterHolds
<1>1. CASE UNCHANGED writerVars
    BY <1>1 DEF writerVars
<1>2. ASSUME NEW c \in Clients, Handler(c) PROVE UNCHANGED writerVars \/ Join(c)
    BY <1>2 DEF Handler, Accept, Ack, Refuse, JoinFails, RequestSize, ReadResize, ReadBreaks,
                SignalClose, HandlerReturns
<1>3. ASSUME NEW c \in Clients, Join(c)
      PROVE  (writer'[d] = "writing") <=> (inflight'[d].tag # "none")
    BY <1>3 DEF Join, SnapshotFrame, TypeOK
<1>4. ASSUME NEW c \in Clients, Writer(c)
      PROVE  (writer'[d] = "writing") <=> (inflight'[d].tag # "none")
    <2>1. CASE WriterStops(c)
        BY <2>1 DEF WriterStops, TypeOK
    <2>2. CASE WriterTakesSnapshot(c)
        BY <2>2 DEF WriterTakesSnapshot, SnapshotFrame, TypeOK
    <2>3. CASE WriterTakesFrame(c)
        <3>1. Head(buf[c]) \in QueuedFrame
            BY <2>3 DEF WriterTakesFrame, TypeOK
        <3> QED BY <2>3, <3>1 DEF WriterTakesFrame, QueuedFrame, Tags, TypeOK
    <2>4. CASE WriteFrame(c)
        BY <2>4 DEF WriteFrame, NoFrame, TypeOK
    <2>5. CASE WriteUnread(c)
        BY <2>5 DEF WriteUnread, NoFrame, TypeOK
    <2>6. CASE WriteFails(c)
        BY <2>6 DEF WriteFails, NoFrame, TypeOK
    <2> QED BY <1>4, <2>1, <2>2, <2>3, <2>4, <2>5, <2>6 DEF Writer
<1>5. ASSUME NEW c \in Clients, ClientLeaves(c) PROVE UNCHANGED writerVars
    BY <1>5 DEF ClientLeaves
<1> QED BY <1>1, <1>2, <1>3, <1>4, <1>5, DaemonFrame DEF Next, vars

-----------------------------------------------------------------------------
(* A connection that has not joined has no attacher.                       *)

FreshClient(c) ==
    /\ writer[c] = "none" /\ inflight[c] = NoFrame
    /\ buf[c] = <<>> /\ pendingSnapshot[c] = NoSnapshot
    /\ screen[c] = 0 /\ ~gotEnded[c] /\ handlerErr[c] = {}
    /\ c \notin targets /\ c \notin endTargets

\* What a step leaves alone of a fresh client keeps it empty.
LEMMA FreshUntouched ==
    ASSUME FreshIsEmpty, NEW d \in Clients, Fresh(d),
           writer'[d] = writer[d], inflight'[d] = inflight[d], buf'[d] = buf[d],
           pendingSnapshot'[d] = pendingSnapshot[d], screen'[d] = screen[d],
           gotEnded'[d] = gotEnded[d], handlerErr'[d] = handlerErr[d],
           d \notin targets', d \notin endTargets'
    PROVE  FreshClient(d)'
BY DEF FreshIsEmpty, FreshClient

\* Every step keeps a connection that has not joined empty.
LEMMA FreshStep ==
    ASSUME TypeOK, FreshIsEmpty, [Next]_vars
    PROVE  FreshIsEmpty'
<1> SUFFICES ASSUME NEW d \in Clients, Fresh(d)' PROVE FreshClient(d)'
    BY DEF FreshIsEmpty, FreshClient
<1> USE DEF TypeOK
<1>1. CASE Pump
    <2>1. Fresh(d) /\ d \notin targets /\ d \notin endTargets /\ d \notin Attachers
        BY <1>1, DaemonFrame DEF Fresh, FreshIsEmpty, Attachers
    <2>2. ASSUME NEW n \in 1..MaxOut, ReadOutput(n) PROVE FreshClient(d)'
        BY <2>1, <2>2, FreshUntouched DEF ReadOutput, runVars, writerVars, queueVars, clientVars
    <2>3. CASE ReadFails
        BY <2>1, <2>3, FreshUntouched DEF ReadFails, runVars, writerVars, queueVars, clientVars
    <2>4. CASE FeedNothing
        BY <2>1, <2>4, FreshUntouched DEF FeedNothing, runVars, writerVars, queueVars, clientVars
    <2>5. CASE FeedTerm
        BY <2>1, <2>5, FreshUntouched DEF FeedTerm, runVars, writerVars, queueVars, clientVars
    <2>6. ASSUME NEW c \in Clients, QueueOutput(c) PROVE FreshClient(d)'
        BY <2>1, <2>6, FreshUntouched DEF QueueOutput, runVars, writerVars, clientVars
    <2>7. ASSUME NEW c \in Clients, SkipForward(c) PROVE FreshClient(d)'
        BY <2>1, <2>7, FreshUntouched DEF SkipForward, runVars, writerVars, clientVars
    <2>8. ASSUME NEW c \in Clients, SkipForwardFails(c) PROVE FreshClient(d)'
        BY <2>1, <2>8, FreshUntouched DEF SkipForwardFails, runVars, writerVars, queueVars, clientVars
    <2>9. CASE FanoutReturns
        BY <2>1, <2>9, FreshUntouched DEF FanoutReturns, runVars, writerVars, queueVars, clientVars
    <2> QED BY <1>1, <2>2, <2>3, <2>4, <2>5, <2>6, <2>7, <2>8, <2>9 DEF Pump
<1>2. ASSUME NEW c \in Clients, Handler(c) PROVE FreshClient(d)'
    <2>1. UNCHANGED <<targets, endTargets>>
        BY <1>2, ClientFrame DEF pumpVars, runVars
    <2>2. CASE c = d
        <3>1. CASE Accept(d) \/ Ack(d) \/ Refuse(d)
            <4>1. Fresh(d)
                BY <3>1 DEF Accept, Ack, Refuse, Fresh
            <4>2. UNCHANGED <<writerVars, queueVars, screen, gotEnded, handlerErr>>
                BY <3>1 DEF Accept, Ack, Refuse, clientVars
            <4>3. d \notin targets /\ d \notin endTargets
                BY <4>1 DEF FreshIsEmpty
            <4> QED BY <2>1, <4>1, <4>2, <4>3, FreshUntouched DEF writerVars, queueVars
        <3>2. CASE ~(Accept(d) \/ Ack(d) \/ Refuse(d))
            <4>1. Join(d) \/ JoinFails(d) \/ RequestSize(d) \/ ReadResize(d) \/ ReadBreaks(d)
                  \/ SignalClose(d) \/ HandlerReturns(d)
                BY <1>2, <2>2, <3>2 DEF Handler
            <4> QED BY <4>1 DEF Join, JoinFails, RequestSize, ReadResize, ReadBreaks,
                                SignalClose, HandlerReturns, Fresh
        <3> QED BY <3>1, <3>2
    <2>3. CASE c # d
        <3>1. /\ handler'[d] = handler[d] /\ writer'[d] = writer[d] /\ inflight'[d] = inflight[d]
              /\ buf'[d] = buf[d] /\ pendingSnapshot'[d] = pendingSnapshot[d]
              /\ screen'[d] = screen[d] /\ gotEnded'[d] = gotEnded[d]
              /\ handlerErr'[d] = handlerErr[d]
            BY <1>2, <2>3, OtherHandler
        <3>2. Fresh(d) BY <3>1 DEF Fresh
        <3>3. d \notin targets /\ d \notin endTargets
            BY <3>2 DEF FreshIsEmpty
        <3> QED BY <2>1, <3>1, <3>2, <3>3, FreshUntouched
    <2> QED BY <2>2, <2>3
<1>3. ASSUME NEW c \in Clients, Writer(c) \/ ClientLeaves(c) PROVE FreshClient(d)'
    <2>1. UNCHANGED <<targets, endTargets, handler>>
        BY <1>3, ClientFrame, WriterFrame DEF pumpVars, runVars
    <2>2. Fresh(d) BY <2>1 DEF Fresh
    <2>3. writer[d] = "none" /\ d \notin targets /\ d \notin endTargets
        BY <2>2 DEF FreshIsEmpty
    <2>4. c # d \/ ClientLeaves(c)
        BY <1>3, <2>3, WriterRuns
    <2>5. CASE ClientLeaves(c)
        BY <2>1, <2>2, <2>3, <2>5, FreshUntouched DEF ClientLeaves, writerVars, queueVars
    <2>6. CASE c # d /\ Writer(c)
        BY <2>1, <2>2, <2>3, <2>6, FreshUntouched, OtherWriter
    <2> QED BY <1>3, <2>4, <2>5, <2>6
<1>4. CASE Run
    <2>1. Fresh(d) /\ d \notin targets /\ d \notin endTargets /\ d \notin Attachers
        BY <1>4, DaemonFrame DEF Fresh, FreshIsEmpty, Attachers
    <2>2. /\ UNCHANGED <<writer, inflight, screen, gotEnded>>
          /\ UNCHANGED <<targets, pendingSnapshot, handlerErr>>
          /\ d \notin endTargets' /\ buf'[d] = buf[d]
        BY <1>4, <2>1 DEF Run, Reap, CloseListener, ClosePty, EndAttachers, EndAttacher, Persist, Exit,
                pumpVars, writerVars, queueVars, clientVars
    <2> QED BY <2>1, <2>2, FreshUntouched
<1>5. CASE UNCHANGED vars
    <2>1. Fresh(d) BY <1>5 DEF vars, Fresh
    <2> QED BY <1>5, <2>1 DEF vars, pumpVars, runVars, writerVars, queueVars, clientVars,
                              FreshIsEmpty, FreshClient
<1> QED BY <1>1, <1>2, <1>3, <1>4, <1>5 DEF Next

-----------------------------------------------------------------------------
(* Frames that tile.                                                       *)

\* Appending what continues a tiling keeps it one.
LEMMA LinkedAppend ==
    ASSUME NEW base, NEW s \in Seq(QueuedFrame), NEW f \in QueuedFrame,
           Linked(base, s), f.from = EndOf(base, s)
    PROVE  /\ Linked(base, Append(s, f))
           /\ EndOf(base, Append(s, f)) = f.to
<1> DEFINE t == Append(s, f)
<1>1. /\ t \in Seq(QueuedFrame) /\ Len(t) = Len(s) + 1 /\ Len(s) \in Nat
      /\ t[Len(s) + 1] = f /\ \A i \in 1..Len(s) : t[i] = s[i]
    OBVIOUS
<1>2. t # <<>> BY <1>1
<1>3. t[1].from = base
    <2>1. CASE s = <<>> BY <2>1, <1>1 DEF EndOf
    <2>2. CASE s # <<>> BY <2>2, <1>1 DEF Linked
    <2> QED BY <2>1, <2>2
<1>4. ASSUME NEW i \in 1..Len(t), i + 1 <= Len(t) PROVE t[i + 1].from = t[i].to
    <2>1. CASE i + 1 <= Len(s) BY <2>1, <1>1, <1>4 DEF Linked
    <2>2. CASE i = Len(s)
        <3>1. s # <<>> BY <2>2, <1>1, <1>4
        <3> QED BY <3>1, <2>2, <1>1, <1>4 DEF EndOf
    <2> QED BY <2>1, <2>2, <1>1, <1>4
<1>5. Linked(base, t) BY <1>3, <1>4 DEF Linked
<1>6. EndOf(base, t) = f.to BY <1>1, <1>2 DEF EndOf
<1> QED BY <1>5, <1>6

\* Taking the first frame leaves a tiling that starts where the frame ends.
LEMMA LinkedTail ==
    ASSUME NEW base, NEW s \in Seq(QueuedFrame), s # <<>>, Linked(base, s)
    PROVE  /\ Head(s) = s[1] /\ Head(s).from = base
           /\ Linked(Head(s).to, Tail(s))
           /\ EndOf(Head(s).to, Tail(s)) = EndOf(base, s)
<1> DEFINE t == Tail(s)
<1>1. /\ t \in Seq(QueuedFrame) /\ Len(t) = Len(s) - 1 /\ Len(s) \in Nat /\ Len(s) >= 1
      /\ \A i \in 1..Len(t) : t[i] = s[i + 1]
    OBVIOUS
<1>2. Head(s) = s[1] OBVIOUS
<1>3. s[1].from = base BY DEF Linked
<1>4. t # <<>> => t[1].from = s[1].to BY <1>1 DEF Linked
<1>5. ASSUME NEW i \in 1..Len(t), i + 1 <= Len(t) PROVE t[i + 1].from = t[i].to
    <2>1. i + 1 \in 1..Len(s) /\ i + 2 <= Len(s) BY <1>1, <1>5
    <2>2. s[(i + 1) + 1].from = s[i + 1].to BY <2>1 DEF Linked
    <2> QED BY <2>2, <1>1, <1>5
<1>6. Linked(s[1].to, t) BY <1>4, <1>5 DEF Linked
<1>7. EndOf(s[1].to, t) = EndOf(base, s)
    <2>1. CASE t = <<>>
        <3>1. Len(<<>>) = 0 OBVIOUS
        <3>2. Len(t) = 0 BY <2>1, <3>1
        <3>3. Len(s) = 1 BY <3>2, <1>1
        <3> QED BY <3>3, <2>1 DEF EndOf
    <2>2. CASE t # <<>>
        <3>1. Len(t) \in 1..Len(t) BY <2>2, <1>1
        <3>2. t[Len(t)] = s[Len(s)] BY <3>1, <1>1
        <3> QED BY <3>2, <2>2 DEF EndOf
    <2> QED BY <2>1, <2>2
<1> QED BY <1>2, <1>3, <1>6, <1>7

\* A client whose queues a step leaves alone keeps its tiling.
LEMMA ChainUntouched ==
    ASSUME NEW d \in Clients, Chain(d),
           rendered' = rendered, buf'[d] = buf[d], pendingSnapshot'[d] = pendingSnapshot[d],
           inflight'[d] = inflight[d], screen'[d] = screen[d],
           Ending => Ending',
           d \in targets' => d \in targets /\ feedFrom' = feedFrom,
           d \in Attachers' \ targets' => d \in Attachers \ targets,
           d \in endTargets' => d \in endTargets \/ d \in Attachers \ targets
    PROVE  Chain(d)'
<1>1. ASSUME NEW f, FrameOK(f) PROVE FrameOK(f)'
    BY <1>1 DEF FrameOK
<1>2. Shown(d)' = Shown(d) BY DEF Shown
<1>3. Base(d)' = Base(d) BY <1>2 DEF Base
<1>4. QueueEnd(d)' = QueueEnd(d) BY <1>3 DEF QueueEnd, EndOf
<1>5. InflightOK(d)' BY <1>1 DEF Chain, InflightOK
<1>6. BufOK(d)' BY <1>1, <1>3 DEF Chain, BufOK, Linked
<1>7. EndOK(d)' BY <1>4 DEF Chain, EndOK
<1> QED BY <1>2, <1>5, <1>6, <1>7 DEF Chain

-----------------------------------------------------------------------------
(* Every step keeps every client's stream a tiling.                        *)

\* The state facts the tiling rests on.
StateInv == TypeOK /\ FreshIsEmpty /\ WriterHolds /\ PumpInv

\* The tiling of one client, as long as it is connected and no re-sync failed.
Sound(d) == conn[d] = "open" /\ ~Skipped(d) => Chain(d)

\* What is queued for a client stands within the terminal's positions.
LEMMA ChainBounds ==
    ASSUME TypeOK, NEW d \in Clients, Chain(d)
    PROVE  /\ screen[d] \in Nat /\ Shown(d) \in Nat
           /\ Shown(d) <= rendered /\ screen[d] <= Shown(d)
           /\ inflight[d].tag # "none" => inflight[d].tag \in Tags /\ inflight[d] \in Frame
<1>1. screen[d] \in Nat BY DEF TypeOK, Chain, Position
<1>2. inflight[d] \in Frame \cup {NoFrame} BY DEF TypeOK
<1>3. CASE inflight[d].tag = "none"
    BY <1>1, <1>3 DEF Shown, Chain, TypeOK
<1>4. CASE inflight[d].tag # "none"
    <2>1. inflight[d] \in Frame BY <1>2, <1>4 DEF NoFrame
    <2>2. inflight[d].tag \in Tags /\ inflight[d].to \in Position /\ inflight[d].from \in Position
        BY <2>1 DEF Frame
    <2>3. screen[d] <= inflight[d].to /\ inflight[d].to <= rendered
        BY <1>1, <1>4, <2>2 DEF Chain, InflightOK, FrameOK, Tags
    <2>4. inflight[d].to \in Nat
        BY <1>1, <2>2, <2>3 DEF Position, Garbled
    <2> QED BY <1>1, <1>4, <2>1, <2>2, <2>3, <2>4 DEF Shown
<1> QED BY <1>3, <1>4

\* feedTerm, fanout and deliverOutput keep every tiling: the chunk starts where
\* each client's stream ends, and a re-sync snapshot ends where the terminal is.
LEMMA PumpSound ==
    ASSUME StateInv, NEW d \in Clients, Sound(d), Pump
    PROVE  Sound(d)'
<1> SUFFICES ASSUME conn'[d] = "open", ~Skipped(d)' PROVE Chain(d)'
    BY DEF Sound
<1> USE DEF StateInv
<1>0. UNCHANGED <<handler, inflight, screen, conn, phase, endTargets>> /\ (Ending => Ending')
    BY DEF Pump, ReadOutput, ReadFails, FeedNothing, FeedTerm, QueueOutput, SkipForward,
           SkipForwardFails, FanoutReturns, clientVars, runVars, writerVars, Ending
<1>1. ASSUME NEW n \in 1..MaxOut, ReadOutput(n) PROVE Chain(d)'
    <2>1. Chain(d) BY <1>1, <1>0 DEF ReadOutput, Sound, Skipped
    <2> QED BY <1>0, <1>1, <2>1, ChainUntouched DEF ReadOutput, queueVars, Attachers
<1>2. CASE ReadFails
    <2>1. Chain(d) BY <1>2, <1>0 DEF ReadFails, Sound, Skipped
    <2> QED BY <1>0, <1>2, <2>1, ChainUntouched DEF ReadFails, queueVars, Attachers
<1>3. CASE FeedNothing
    <2>1. Chain(d) BY <1>3, <1>0 DEF FeedNothing, Sound, Skipped
    <2> QED BY <1>0, <1>3, <2>1, ChainUntouched DEF FeedNothing, queueVars, Attachers
<1>4. CASE FeedTerm
    <2>1. Chain(d) BY <1>4, <1>0 DEF FeedTerm, Sound, Skipped
    <2>2. /\ rendered' \in Nat /\ rendered' > rendered /\ rendered \in Nat /\ feedFrom' = rendered
          /\ targets' = Attachers /\ UNCHANGED <<buf, pendingSnapshot>>
        BY <1>4 DEF FeedTerm, queueVars, TypeOK
    <2>3. ~Ending /\ targets = {} /\ endTargets = {}
        BY <1>4 DEF FeedTerm, PumpInv, Ending
    <2>4. ASSUME NEW f, f.to \in Position, f.from \in Position, FrameOK(f) PROVE FrameOK(f)'
        BY <2>2, <2>3, <2>4 DEF FrameOK, Position, Garbled
    <2>5. Shown(d)' = Shown(d) /\ Base(d)' = Base(d) /\ QueueEnd(d)' = QueueEnd(d)
        BY <1>0, <2>2 DEF Shown, Base, QueueEnd, EndOf
    <2>6. InflightOK(d)'
        <3>1. CASE inflight[d].tag = "none"
            BY <1>0, <3>1 DEF InflightOK
        <3>2. CASE inflight[d].tag # "none"
            <4>1. inflight[d].to \in Position /\ inflight[d].from \in Position
                BY <2>1, <3>2, ChainBounds DEF Frame
            <4> QED BY <1>0, <2>1, <2>2, <2>4, <4>1 DEF InflightOK, Chain, Position, Garbled
        <3> QED BY <3>1, <3>2
    <2>7. BufOK(d)'
        <3>1. ASSUME NEW i \in 1..Len(buf[d]) PROVE FrameOK(buf[d][i])'
            <4>1. buf[d][i] \in QueuedFrame BY DEF TypeOK
            <4>2. buf[d][i].to \in Position /\ buf[d][i].from \in Position BY <4>1 DEF QueuedFrame
            <4>3. FrameOK(buf[d][i]) BY <2>1 DEF Chain, BufOK
            <4>4. buf'[d] = buf[d] BY <2>2
            <4> QED BY <2>2, <2>3, <4>2, <4>3, <4>4 DEF FrameOK, Position, Garbled
        <3> QED BY <2>1, <2>2, <2>5, <3>1 DEF BufOK, Chain, Linked
    <2>8. EndOK(d)'
        BY <1>0, <2>1, <2>2, <2>3, <2>5 DEF EndOK, Chain, Attachers
    <2> QED BY <1>0, <2>1, <2>2, <2>5, <2>6, <2>7, <2>8, ChainBounds DEF Chain, TypeOK, NoSnapshot
<1>5. ASSUME NEW c \in Clients, QueueOutput(c) PROVE Chain(d)'
    <2>1. Chain(d) BY <1>5, <1>0 DEF QueueOutput, Sound, Skipped
    <2>2. CASE c # d
        BY <1>0, <1>5, <2>1, <2>2, ChainUntouched DEF QueueOutput, Attachers, TypeOK
    <2>3. CASE c = d
        <3> DEFINE f == OutputFrame(feedFrom, rendered)
        <3>1. /\ UNCHANGED <<rendered, feedFrom, pendingSnapshot>>
              /\ targets' = targets \ {d} /\ d \in targets /\ buf'[d] = Append(buf[d], f)
            BY <1>5, <2>3 DEF QueueOutput, TypeOK
        <3>2. f \in QueuedFrame /\ f.from = feedFrom /\ f.to = rendered /\ FrameOK(f)
            BY DEF OutputFrame, QueuedFrame, Tags, Position, TypeOK, FrameOK
        <3>3. buf[d] \in Seq(QueuedFrame) /\ Linked(Base(d), buf[d]) /\ EndOf(Base(d), buf[d]) = feedFrom
            BY <2>1, <3>1 DEF TypeOK, Chain, BufOK, EndOK, QueueEnd
        <3>4. Linked(Base(d), buf'[d]) /\ EndOf(Base(d), buf'[d]) = rendered
            BY <3>1, <3>2, <3>3, LinkedAppend
        <3>5. Shown(d)' = Shown(d) /\ Base(d)' = Base(d)
            BY <1>0, <3>1 DEF Shown, Base
        <3>6. ASSUME NEW i \in 1..Len(buf'[d]) PROVE FrameOK(buf[d][i])'
            <4>1. buf'[d][i] = f \/ (i \in 1..Len(buf[d]) /\ buf'[d][i] = buf[d][i])
                BY <3>1, <3>2, <3>3
            <4>2. FrameOK(buf'[d][i])
                BY <2>1, <3>2, <4>1 DEF Chain, BufOK
            <4> QED BY <1>0, <3>1, <4>2 DEF FrameOK, Ending
        <3>7. BufOK(d)' BY <3>4, <3>5, <3>6 DEF BufOK, Linked
        <3>8. endTargets = {} BY <1>5 DEF QueueOutput, PumpInv, Ending
        <3>9. EndOK(d)' BY <1>0, <3>1, <3>4, <3>5, <3>8 DEF EndOK, QueueEnd, EndOf
        <3>10. InflightOK(d)' BY <1>0, <2>1, <3>1 DEF InflightOK, Chain, FrameOK, Ending
        <3> QED BY <1>0, <2>1, <3>1, <3>5, <3>7, <3>9, <3>10 DEF Chain
    <2> QED BY <2>2, <2>3
<1>6. ASSUME NEW c \in Clients, SkipForward(c) PROVE Chain(d)'
    <2>1. Chain(d) BY <1>6, <1>0 DEF SkipForward, Sound, Skipped
    <2>2. CASE c # d
        BY <1>0, <1>6, <2>1, <2>2, ChainUntouched DEF SkipForward, Attachers, TypeOK
    <2>3. CASE c = d
        <3>1. /\ UNCHANGED <<rendered, feedFrom>> /\ pendingSnapshot'[d] = rendered
              /\ targets' = targets \ {d} /\ buf'[d] = <<>>
            BY <1>6, <2>3 DEF SkipForward, TypeOK
        <3>2. Shown(d)' = Shown(d) BY <1>0 DEF Shown
        <3>3. rendered # NoSnapshot BY DEF TypeOK, NoSnapshot
        <3>4. Base(d)' = rendered BY <3>1, <3>3 DEF Base
        <3>5. BufOK(d)' BY <3>1 DEF BufOK, Linked
        <3>6. endTargets = {} BY <1>6 DEF SkipForward, PumpInv, Ending
        <3>7. EndOK(d)' BY <1>0, <3>1, <3>4, <3>6 DEF EndOK, QueueEnd, EndOf
        <3>8. InflightOK(d)' BY <1>0, <2>1, <3>1 DEF InflightOK, Chain, FrameOK, Ending
        <3> QED BY <1>0, <2>1, <3>1, <3>2, <3>5, <3>7, <3>8, ChainBounds DEF Chain, TypeOK
    <2> QED BY <2>2, <2>3
<1>7. ASSUME NEW c \in Clients, SkipForwardFails(c) PROVE Chain(d)'
    <2>1. c # d BY <1>7 DEF SkipForwardFails, Skipped, TypeOK
    <2>2. Chain(d) BY <1>7, <1>0, <2>1 DEF SkipForwardFails, Sound, Skipped, TypeOK
    <2> QED BY <1>0, <1>7, <2>1, <2>2, ChainUntouched DEF SkipForwardFails, queueVars, Attachers
<1>8. CASE FanoutReturns
    <2>1. Chain(d) BY <1>8, <1>0 DEF FanoutReturns, Sound, Skipped
    <2> QED BY <1>0, <1>8, <2>1, ChainUntouched DEF FanoutReturns, queueVars, Attachers
<1> QED BY <1>1, <1>2, <1>3, <1>4, <1>5, <1>6, <1>7, <1>8 DEF Pump

\* A control frame queued where a client's stream ends keeps the tiling.
LEMMA ControlAppended ==
    ASSUME StateInv, NEW d \in Clients, Chain(d), NEW tag \in {"resize", "ended"},
           QueueEnd(d) \in Nat, QueueEnd(d) <= rendered,
           tag = "ended" => Ending /\ QueueEnd(d) = rendered,
           buf'[d] = Append(buf[d], ControlFrame(tag, d)),
           rendered' = rendered, pendingSnapshot'[d] = pendingSnapshot[d],
           inflight'[d] = inflight[d], screen'[d] = screen[d], phase' = phase,
           d \in targets' => d \in targets /\ feedFrom' = feedFrom,
           d \in Attachers' \ targets' => d \in Attachers \ targets,
           d \in endTargets' => d \in endTargets
    PROVE  Chain(d)'
<1> USE DEF StateInv
<1> DEFINE f == ControlFrame(tag, d)
<1>1. f \in QueuedFrame /\ f.from = QueueEnd(d) /\ f.to = QueueEnd(d) /\ f.tag = tag
    BY DEF ControlFrame, QueuedFrame, Tags, Position
<1>2. FrameOK(f) BY <1>1 DEF FrameOK
<1>3. buf[d] \in Seq(QueuedFrame) /\ Linked(Base(d), buf[d])
    BY DEF TypeOK, Chain, BufOK
<1>4. Linked(Base(d), buf'[d]) /\ EndOf(Base(d), buf'[d]) = QueueEnd(d)
    BY <1>1, <1>3, LinkedAppend DEF QueueEnd
<1>5. Shown(d)' = Shown(d) BY DEF Shown
<1>6. Base(d)' = Base(d) BY <1>5 DEF Base
<1>7. QueueEnd(d)' = QueueEnd(d) BY <1>4, <1>6 DEF QueueEnd, EndOf
<1>8. ASSUME NEW i \in 1..Len(buf'[d]) PROVE FrameOK(buf[d][i])'
    <2>1. buf'[d][i] = f \/ (i \in 1..Len(buf[d]) /\ buf'[d][i] = buf[d][i])
        BY <1>1, <1>3
    <2>2. FrameOK(buf'[d][i]) BY <1>2, <2>1 DEF Chain, BufOK
    <2> QED BY <2>2 DEF FrameOK, Ending
<1>9. BufOK(d)' BY <1>4, <1>6, <1>8 DEF BufOK, Linked
<1>10. InflightOK(d)' BY DEF InflightOK, Chain, FrameOK, Ending
<1>11. EndOK(d)' BY <1>7 DEF EndOK, Chain
<1> QED BY <1>5, <1>9, <1>10, <1>11 DEF Chain

\* serveAttach keeps every tiling: a client joins with outMu held, at the
\* position the terminal shows.
LEMMA HandlerSound ==
    ASSUME StateInv, NEW d \in Clients, Sound(d), NEW c \in Clients, Handler(c)
    PROVE  Sound(d)'
<1> SUFFICES ASSUME conn'[d] = "open", ~Skipped(d)' PROVE Chain(d)'
    BY DEF Sound
<1> USE DEF StateInv
<1>0. /\ UNCHANGED <<rendered, feedFrom, targets, endTargets, phase>>
      /\ Ending => Ending'
    BY ClientFrame DEF pumpVars, runVars, Ending
<1>1. CASE c # d
    <2>1. Chain(d) BY <1>1, OtherHandler DEF Sound, Skipped
    <2> QED BY <1>0, <1>1, <2>1, OtherHandler, ChainUntouched DEF Attachers
<1>2. CASE c = d
    <2>1. CASE Accept(d)
        <3>1. Fresh(d) /\ UNCHANGED <<inflight, screen, buf, pendingSnapshot>>
            BY <2>1 DEF Accept, Fresh, writerVars, queueVars
        <3>2. d \notin Attachers' BY <2>1 DEF Accept, Attachers, TypeOK
        <3>3. /\ inflight'[d] = NoFrame /\ buf'[d] = <<>> /\ pendingSnapshot'[d] = NoSnapshot
              /\ screen'[d] = 0 /\ d \notin targets' /\ d \notin endTargets'
            BY <1>0, <3>1 DEF FreshIsEmpty
        <3>4. InflightOK(d)' BY <3>3 DEF InflightOK, NoFrame
        <3>5. BufOK(d)' BY <3>3 DEF BufOK, Linked
        <3>6. EndOK(d)' BY <3>2, <3>3 DEF EndOK
        <3> QED BY <1>0, <3>3, <3>4, <3>5, <3>6 DEF Chain, TypeOK, Garbled
    <2>2. CASE Join(d)
        <3>1. /\ Fresh(d) /\ UNCHANGED <<screen, buf, pendingSnapshot>>
              /\ inflight'[d] = SnapshotFrame(rendered)
            BY <2>2 DEF Join, Fresh, clientVars, queueVars, TypeOK
        <3>2. /\ buf'[d] = <<>> /\ pendingSnapshot'[d] = NoSnapshot
              /\ screen'[d] = 0 /\ d \notin targets' /\ d \notin endTargets'
            BY <1>0, <3>1 DEF FreshIsEmpty
        <3>3. InflightOK(d)' BY <1>0, <3>1, <3>2 DEF InflightOK, SnapshotFrame, TypeOK
        <3>4. BufOK(d)' BY <3>2 DEF BufOK, Linked
        <3>5. QueueEnd(d)' = rendered'
            BY <1>0, <3>1, <3>2 DEF QueueEnd, EndOf, Base, Shown, SnapshotFrame
        <3>6. EndOK(d)' BY <3>2, <3>5 DEF EndOK
        <3> QED BY <1>0, <3>2, <3>3, <3>4, <3>6 DEF Chain, TypeOK, Garbled
    <2>3. CASE RequestSize(d)
        <3>1. Chain(d) BY <2>3 DEF RequestSize, Sound, Skipped, clientVars
        <3>2. d \in Attachers BY <2>3 DEF RequestSize, Attachers
        <3>3. QueueEnd(d) \in Nat /\ QueueEnd(d) <= rendered
            BY <3>1, <3>2 DEF Chain, EndOK, TypeOK
        <3>4. /\ UNCHANGED <<inflight, screen, pendingSnapshot>>
              /\ buf'[d] = Append(buf[d], ControlFrame("resize", d))
            BY <2>3 DEF RequestSize, writerVars, clientVars, TypeOK
        <3> QED BY <1>0, <3>1, <3>2, <3>3, <3>4, ControlAppended
    <2>4. CASE Ack(d) \/ ReadResize(d) \/ ReadBreaks(d) \/ SignalClose(d)
        <3>1. /\ UNCHANGED <<inflight, screen, buf, pendingSnapshot, conn>>
              /\ Skipped(d) => Skipped(d)'
              /\ d \in Attachers' => d \in Attachers
            BY <2>4 DEF Ack, ReadResize, ReadBreaks, SignalClose, writerVars, queueVars, clientVars,
                        Skipped, Attachers, TypeOK
        <3>2. Chain(d) BY <3>1 DEF Sound
        <3> QED BY <1>0, <3>1, <3>2, ChainUntouched
    <2>5. CASE Refuse(d) \/ JoinFails(d) \/ HandlerReturns(d)
        BY <2>5 DEF Refuse, JoinFails, HandlerReturns, TypeOK
    <2> QED BY <1>2, <2>1, <2>2, <2>3, <2>4, <2>5 DEF Handler
<1> QED BY <1>1, <1>2

\* attachWriter keeps every tiling: what it takes is the next of the stream,
\* and what it writes continues the screen.
LEMMA WriterSound ==
    ASSUME StateInv, NEW d \in Clients, Sound(d), NEW c \in Clients, Writer(c)
    PROVE  Sound(d)'
<1> SUFFICES ASSUME conn'[d] = "open", ~Skipped(d)' PROVE Chain(d)'
    BY DEF Sound
<1> USE DEF StateInv
<1>0. /\ UNCHANGED <<rendered, feedFrom, targets, endTargets, phase, handler, handlerErr>>
      /\ Ending => Ending'
      /\ Attachers' = Attachers
    BY ClientFrame, WriterFrame DEF pumpVars, runVars, Ending, Attachers
<1>1. CASE c # d
    <2>1. Chain(d) BY <1>0, <1>1, OtherWriter DEF Sound, Skipped
    <2> QED BY <1>0, <1>1, <2>1, OtherWriter, ChainUntouched
<1>2. CASE c = d
    <2>1. CASE WriterStops(d)
        <3>1. Chain(d) BY <1>0, <2>1 DEF WriterStops, Sound, Skipped, clientVars
        <3> QED BY <1>0, <2>1, <3>1, ChainUntouched DEF WriterStops, queueVars, clientVars
    <2>2. CASE WriterTakesSnapshot(d)
        <3>1. Chain(d) BY <1>0, <2>2 DEF WriterTakesSnapshot, Sound, Skipped, clientVars
        <3>2. inflight[d].tag = "none" /\ pendingSnapshot[d] \in Nat /\ pendingSnapshot[d] # NoSnapshot
            BY <2>2 DEF WriterTakesSnapshot, WriterHolds, TypeOK
        <3>3. /\ inflight'[d] = SnapshotFrame(pendingSnapshot[d]) /\ pendingSnapshot'[d] = NoSnapshot
              /\ buf'[d] = buf[d] /\ screen'[d] = screen[d]
            BY <2>2 DEF WriterTakesSnapshot, TypeOK, clientVars
        <3>4. Shown(d) = screen[d] BY <3>2 DEF Shown
        <3>5. InflightOK(d)'
            BY <1>0, <3>1, <3>2, <3>3, <3>4 DEF InflightOK, SnapshotFrame, Chain
        <3>6. Base(d)' = Base(d)
            BY <3>2, <3>3 DEF Base, Shown, SnapshotFrame
        <3>7. BufOK(d)' BY <1>0, <3>1, <3>3, <3>6 DEF BufOK, Chain, Linked, FrameOK, Ending
        <3>8. EndOK(d)' BY <1>0, <3>1, <3>3, <3>6 DEF EndOK, Chain, QueueEnd, EndOf
        <3> QED BY <1>0, <3>1, <3>3, <3>5, <3>7, <3>8 DEF Chain
    <2>3. CASE WriterTakesFrame(d)
        <3>1. Chain(d) BY <1>0, <2>3 DEF WriterTakesFrame, Sound, Skipped, clientVars
        <3>2. inflight[d].tag = "none" /\ pendingSnapshot[d] = NoSnapshot /\ buf[d] # <<>>
            BY <2>3 DEF WriterTakesFrame, WriterHolds
        <3>3. /\ inflight'[d] = Head(buf[d]) /\ pendingSnapshot'[d] = NoSnapshot
              /\ buf'[d] = Tail(buf[d]) /\ screen'[d] = screen[d]
            BY <2>3 DEF WriterTakesFrame, TypeOK, clientVars
        <3>4. buf[d] \in Seq(QueuedFrame) /\ Linked(screen[d], buf[d]) /\ Base(d) = screen[d]
            BY <3>1, <3>2 DEF TypeOK, Chain, BufOK, Base, Shown
        <3>5. /\ Head(buf[d]) = buf[d][1] /\ Head(buf[d]).from = screen[d]
              /\ Linked(Head(buf[d]).to, Tail(buf[d]))
              /\ EndOf(Head(buf[d]).to, Tail(buf[d])) = EndOf(screen[d], buf[d])
            BY <3>2, <3>4, LinkedTail
        <3>6. FrameOK(Head(buf[d]))
            <4>1. 1 \in 1..Len(buf[d]) BY <3>2, <3>4
            <4> QED BY <3>1, <3>5, <4>1 DEF Chain, BufOK
        <3>7. InflightOK(d)'
            BY <1>0, <3>3, <3>5, <3>6 DEF InflightOK, FrameOK, Ending
        <3>8. Base(d)' = Head(buf[d]).to
            BY <3>3, <3>6 DEF Base, Shown, FrameOK
        <3>9. BufOK(d)'
            <4>1. ASSUME NEW i \in 1..Len(Tail(buf[d])) PROVE FrameOK(buf[d][i])'
                <5>1. i + 1 \in 1..Len(buf[d]) /\ Tail(buf[d])[i] = buf[d][i + 1]
                    BY <3>2, <3>4
                <5>2. FrameOK(buf[d][i + 1]) BY <3>1, <5>1 DEF Chain, BufOK
                <5> QED BY <1>0, <3>3, <5>1, <5>2 DEF FrameOK, Ending
            <4>2. Linked(Base(d)', buf'[d]) BY <3>3, <3>5, <3>8
            <4> QED BY <3>3, <4>1, <4>2 DEF BufOK, Linked
        <3>10. QueueEnd(d)' = QueueEnd(d)
            BY <3>3, <3>4, <3>5, <3>8 DEF QueueEnd, EndOf
        <3>11. EndOK(d)' BY <1>0, <3>1, <3>10 DEF EndOK, Chain
        <3> QED BY <1>0, <3>1, <3>3, <3>7, <3>9, <3>11 DEF Chain
    <2>4. CASE WriteFrame(d)
        <3>1. Chain(d) BY <1>0, <2>4 DEF WriteFrame, Sound, Skipped
        <3>2. inflight[d].tag # "none"
            BY <2>4 DEF WriteFrame, WriterHolds
        <3>3. /\ inflight'[d] = NoFrame /\ pendingSnapshot'[d] = pendingSnapshot[d]
              /\ buf'[d] = buf[d] /\ screen'[d] = Receive(screen[d], inflight[d])
            BY <2>4 DEF WriteFrame, TypeOK, queueVars
        <3>4. inflight[d].tag \in Tags BY <3>1, <3>2, ChainBounds
        <3>5. screen'[d] = inflight[d].to
            BY <3>1, <3>3, <3>4 DEF Chain, InflightOK, FrameOK, Receive, Tags
        <3>6. screen'[d] = Shown(d) /\ Shown(d)' = Shown(d)
            BY <3>2, <3>3, <3>5 DEF Shown, NoFrame
        <3>7. screen'[d] \in Nat /\ screen'[d] <= rendered
            BY <3>1, <3>6, ChainBounds
        <3>8. Base(d)' = Base(d) BY <3>3, <3>6 DEF Base
        <3>9. InflightOK(d)' BY <3>3 DEF InflightOK, NoFrame
        <3>10. BufOK(d)' BY <1>0, <3>1, <3>3, <3>8 DEF BufOK, Chain, Linked, FrameOK, Ending
        <3>11. EndOK(d)' BY <1>0, <3>1, <3>3, <3>8 DEF EndOK, Chain, QueueEnd, EndOf
        <3> QED BY <1>0, <3>1, <3>3, <3>6, <3>7, <3>9, <3>10, <3>11 DEF Chain, Garbled
    <2>5. CASE WriteUnread(d) \/ WriteFails(d)
        BY <2>5 DEF WriteUnread, WriteFails, clientVars
    <2> QED BY <1>2, <2>1, <2>2, <2>3, <2>4, <2>5 DEF Writer
<1> QED BY <1>1, <1>2

\* The tail of Session.run keeps every tiling: ended frames stand at the end.
LEMMA RunSound ==
    ASSUME StateInv, NEW d \in Clients, Sound(d), Run
    PROVE  Sound(d)'
<1> SUFFICES ASSUME conn'[d] = "open", ~Skipped(d)' PROVE Chain(d)'
    BY DEF Sound
<1> USE DEF StateInv
<1>0. /\ UNCHANGED <<rendered, feedFrom, targets, inflight, screen, pendingSnapshot, handlerErr>>
      /\ Attachers' = Attachers /\ (Ending => Ending')
    BY DEF Run, Reap, CloseListener, ClosePty, EndAttachers, EndAttacher, Persist, Exit,
           pumpVars, writerVars, queueVars, clientVars, Attachers, Ending
<1>1. CASE Reap \/ CloseListener \/ ClosePty \/ Persist
    <2>1. UNCHANGED <<buf, conn, endTargets>>
        BY <1>1 DEF Reap, CloseListener, ClosePty, Persist, queueVars, clientVars
    <2>2. Chain(d) BY <1>0, <2>1 DEF Sound, Skipped
    <2> QED BY <1>0, <2>1, <2>2, ChainUntouched
<1>2. CASE EndAttachers
    <2>1. Chain(d) BY <1>0, <1>2 DEF EndAttachers, clientVars, Sound, Skipped
    <2>2. targets = {} BY <1>2 DEF EndAttachers, PumpInv
    <2> QED BY <1>0, <1>2, <2>1, <2>2, ChainUntouched DEF EndAttachers, queueVars
<1>3. ASSUME NEW c \in Clients, EndAttacher(c) PROVE Chain(d)'
    <2>1. Chain(d) BY <1>0, <1>3 DEF EndAttacher, clientVars, Sound, Skipped
    <2>2. CASE c # d
        BY <1>0, <1>3, <2>1, <2>2, ChainUntouched DEF EndAttacher, TypeOK
    <2>3. CASE c = d
        <3>1. /\ Ending /\ phase' = phase /\ d \in endTargets /\ endTargets' \subseteq endTargets
              /\ buf'[d] = Append(buf[d], ControlFrame("ended", d))
            BY <1>3, <2>3 DEF EndAttacher, Ending, TypeOK
        <3>2. QueueEnd(d) = rendered BY <2>1, <3>1 DEF Chain, EndOK
        <3>3. rendered \in Nat BY DEF TypeOK
        <3> QED BY <1>0, <2>1, <3>1, <3>2, <3>3, ControlAppended
    <2> QED BY <2>2, <2>3
<1>4. CASE Exit
    BY <1>4 DEF Exit
<1> QED BY <1>1, <1>2, <1>3, <1>4 DEF Run

\* Every step keeps every tiling.
LEMMA ChainStep ==
    ASSUME StateInv, ChainInv, [Next]_vars
    PROVE  ChainInv'
<1> SUFFICES ASSUME NEW d \in Clients PROVE Sound(d)'
    BY DEF ChainInv, Sound
<1>1. Sound(d) BY DEF ChainInv, Sound
<1>2. CASE UNCHANGED vars
    <2>1. UNCHANGED <<conn, handlerErr, handler, rendered, feedFrom, buf, pendingSnapshot, inflight,
                      screen, phase, targets, endTargets>>
        BY <1>2 DEF vars, pumpVars, runVars, writerVars, queueVars, clientVars
    <2> QED BY <1>1, <2>1, ChainUntouched DEF Sound, Skipped, Attachers, Ending
<1>3. ASSUME NEW c \in Clients, ClientLeaves(c) PROVE Sound(d)'
    <2>1. CASE c = d BY <1>3, <2>1 DEF ClientLeaves, Sound, StateInv, TypeOK
    <2>2. CASE c # d
        <3>1. /\ UNCHANGED <<handlerErr, handler, rendered, feedFrom, buf, pendingSnapshot, inflight,
                             screen, phase, targets, endTargets>>
              /\ conn'[d] = conn[d]
            BY <1>3, <2>2 DEF ClientLeaves, pumpVars, runVars, writerVars, queueVars, StateInv, TypeOK
        <3> QED BY <1>1, <3>1, ChainUntouched DEF Sound, Skipped, Attachers, Ending
    <2> QED BY <2>1, <2>2
<1> QED BY <1>1, <1>2, <1>3, PumpSound, HandlerSound, WriterSound, RunSound DEF Next

-----------------------------------------------------------------------------
(* What clients see.                                                       *)

\* Only its own writer changes what a client sees.
LEMMA ScreenFrame ==
    ASSUME TypeOK, [Next]_vars, NEW d \in Clients
    PROVE  \/ screen'[d] = screen[d] /\ gotEnded'[d] = gotEnded[d]
           \/ WriteFrame(d)
<1>1. ASSUME NEW c \in Clients, Handler(c) PROVE screen'[d] = screen[d] /\ gotEnded'[d] = gotEnded[d]
    BY <1>1 DEF Handler, Accept, Ack, Refuse, Join, JoinFails, RequestSize, ReadResize,
                ReadBreaks, SignalClose, HandlerReturns, clientVars
<1>2. ASSUME NEW c \in Clients, Writer(c)
      PROVE  WriteFrame(d) \/ (screen'[d] = screen[d] /\ gotEnded'[d] = gotEnded[d])
    <2>1. CASE c # d BY <1>2, <2>1, OtherWriter
    <2>2. CASE c = d
        BY <1>2, <2>2 DEF Writer, WriterStops, WriterTakesSnapshot, WriterTakesFrame, WriteUnread,
                          WriteFails, clientVars
    <2> QED BY <2>1, <2>2
<1>3. ASSUME NEW c \in Clients, ClientLeaves(c)
      PROVE  screen'[d] = screen[d] /\ gotEnded'[d] = gotEnded[d]
    BY <1>3 DEF ClientLeaves
<1>4. CASE UNCHANGED vars BY <1>4 DEF vars, clientVars
<1> QED BY <1>1, <1>2, <1>3, <1>4, DaemonFrame DEF Next

\* An error recorded about a client stays recorded.
LEMMA SkippedStays ==
    ASSUME TypeOK, [Next]_vars, NEW d \in Clients, Skipped(d)
    PROVE  Skipped(d)'
<1>1. CASE Pump
    <2>1. CASE UNCHANGED handlerErr BY <2>1 DEF Skipped
    <2>2. ASSUME NEW c \in Clients, SkipForwardFails(c) PROVE Skipped(d)'
        BY <2>2 DEF SkipForwardFails, Skipped, TypeOK
    <2>3. UNCHANGED handlerErr \/ \E c \in Clients : SkipForwardFails(c)
        BY <1>1 DEF Pump, ReadOutput, ReadFails, FeedNothing, FeedTerm, QueueOutput, SkipForward,
                    FanoutReturns
    <2> QED BY <2>1, <2>2, <2>3
<1>2. ASSUME NEW c \in Clients, Handler(c) PROVE Skipped(d)'
    <2>1. CASE JoinFails(c) BY <2>1 DEF JoinFails, Skipped, TypeOK
    <2>2. CASE ReadResize(c) BY <2>2 DEF ReadResize, Skipped, TypeOK
    <2> QED BY <1>2, <2>1, <2>2 DEF Handler, Accept, Ack, Refuse, Join, RequestSize, ReadBreaks,
                                    SignalClose, HandlerReturns, Skipped
<1>3. CASE Run
    BY <1>3 DEF Run, Reap, CloseListener, ClosePty, EndAttachers, EndAttacher, Persist, Exit, Skipped
<1>4. CASE UNCHANGED vars BY <1>4 DEF vars, Skipped
<1> QED BY <1>1, <1>2, <1>3, <1>4, WriterFrame DEF Next, Skipped

\* The frame a client is handed continues its screen.
LEMMA FrameReceived ==
    ASSUME StateInv, ChainInv, NEW d \in Clients, WriteFrame(d), ~Skipped(d)
    PROVE  /\ screen'[d] = inflight[d].to /\ screen'[d] \in Nat /\ screen'[d] >= screen[d]
           /\ inflight[d].tag = "ended" => Ending /\ screen'[d] = rendered
<1> USE DEF StateInv
<1>1. Chain(d) BY DEF ChainInv, WriteFrame
<1>2. inflight[d].tag # "none" BY DEF WriteFrame, WriterHolds
<1>3. inflight[d].tag \in Tags BY <1>1, <1>2, ChainBounds
<1>4. screen'[d] = Receive(screen[d], inflight[d]) BY DEF WriteFrame, TypeOK
<1>5. screen'[d] = inflight[d].to
    BY <1>1, <1>3, <1>4 DEF Chain, InflightOK, FrameOK, Receive, Tags
<1>6. screen'[d] = Shown(d) BY <1>2, <1>5 DEF Shown
<1>7. screen'[d] \in Nat /\ screen'[d] >= screen[d] BY <1>1, <1>6, ChainBounds
<1>8. inflight[d].tag = "ended" => Ending /\ screen'[d] = rendered
    BY <1>1, <1>5 DEF Chain, InflightOK, FrameOK
<1> QED BY <1>5, <1>7, <1>8

\* No step garbles a screen.
LEMMA TilesStep ==
    ASSUME StateInv, ChainInv, StreamTiles, [Next]_vars
    PROVE  StreamTiles'
<1> SUFFICES ASSUME NEW d \in Clients, ~Skipped(d)' PROVE screen'[d] # Garbled
    BY DEF StreamTiles
<1>1. ~Skipped(d) BY SkippedStays DEF StateInv
<1>2. CASE WriteFrame(d) BY <1>1, <1>2, FrameReceived DEF Garbled
<1>3. CASE screen'[d] = screen[d] BY <1>1, <1>3 DEF StreamTiles
<1> QED BY <1>2, <1>3, ScreenFrame DEF StateInv

\* A pump that is done reads and renders nothing more.
LEMMA PumpDone ==
    ASSUME [Next]_vars, pump = "done"
    PROVE  pump' = "done" /\ read' = read
<1>1. CASE Pump
    BY <1>1 DEF Pump, ReadOutput, ReadFails, FeedNothing, FeedTerm, QueueOutput, SkipForward,
                SkipForwardFails, FanoutReturns
<1>2. CASE Run
    BY <1>2 DEF Run, Reap, CloseListener, ClosePty, EndAttachers, EndAttacher, Persist, Exit, pumpVars
<1>3. CASE UNCHANGED vars BY <1>3 DEF vars, pumpVars
<1> QED BY <1>1, <1>2, <1>3, ClientFrame DEF Next, pumpVars

\* No step shows an ended frame to a client that has not seen everything.
LEMMA EndedStep ==
    ASSUME StateInv, ChainInv, EndedIsLast, [Next]_vars
    PROVE  EndedIsLast'
<1> SUFFICES ASSUME NEW d \in Clients, gotEnded'[d], ~Skipped(d)'
             PROVE  pump' = "done" /\ screen'[d] = read'
    BY DEF EndedIsLast
<1>1. ~Skipped(d) BY SkippedStays DEF StateInv
<1>2. CASE WriteFrame(d)
    <2>1. inflight[d].tag = "ended" BY <1>2 DEF WriteFrame, StateInv, TypeOK
    <2>2. Ending /\ screen'[d] = rendered BY <1>1, <1>2, <2>1, FrameReceived
    <2>3. pump = "done" /\ rendered = read BY <2>2 DEF StateInv, PumpInv
    <2> QED BY <2>2, <2>3, PumpDone
<1>3. CASE screen'[d] = screen[d] /\ gotEnded'[d] = gotEnded[d]
    BY <1>1, <1>3, PumpDone DEF EndedIsLast
<1> QED BY <1>2, <1>3, ScreenFrame DEF StateInv

\* No step hands out a snapshot taken inside a sequence.
LEMMA BoundaryStep ==
    ASSUME StateInv, SnapshotAtBoundary, [Next]_vars
    PROVE  SnapshotAtBoundary'
<1> SUFFICES ASSUME NEW d \in Clients, ~eof'
             PROVE  /\ pendingSnapshot'[d] # NoSnapshot => pendingSnapshot'[d] \in Ground
                    /\ inflight'[d].tag = "snapshot" => inflight'[d].to \in Ground
    BY DEF SnapshotAtBoundary
<1> DEFINE Goal == /\ pendingSnapshot'[d] # NoSnapshot => pendingSnapshot'[d] \in Ground
                   /\ inflight'[d].tag = "snapshot" => inflight'[d].to \in Ground
<1> USE DEF StateInv
<1>1. ~eof
    <2>1. CASE Pump
        BY <2>1 DEF Pump, ReadOutput, ReadFails, FeedNothing, FeedTerm, QueueOutput, SkipForward,
                    SkipForwardFails, FanoutReturns
    <2>2. CASE Run
        BY <2>2 DEF Run, Reap, CloseListener, ClosePty, EndAttachers, EndAttacher, Persist, Exit, pumpVars
    <2>3. CASE UNCHANGED vars BY <2>3 DEF vars, pumpVars
    <2> QED BY <2>1, <2>2, <2>3, ClientFrame DEF Next, pumpVars
<1>2. /\ pendingSnapshot[d] # NoSnapshot => pendingSnapshot[d] \in Ground
      /\ inflight[d].tag = "snapshot" => inflight[d].to \in Ground
    BY <1>1 DEF SnapshotAtBoundary
<1>3. rendered \in Ground BY <1>1 DEF PumpInv
<1>4. CASE UNCHANGED <<pendingSnapshot, inflight>> BY <1>2, <1>4
<1>5. CASE Pump
    <2>1. ASSUME NEW c \in Clients, SkipForward(c) PROVE Goal
        BY <1>2, <1>3, <2>1 DEF SkipForward, TypeOK, writerVars
    <2>2. UNCHANGED <<pendingSnapshot, inflight>> \/ \E c \in Clients : SkipForward(c)
        BY <1>5 DEF Pump, ReadOutput, ReadFails, FeedNothing, FeedTerm, QueueOutput,
                    SkipForwardFails, FanoutReturns, queueVars, writerVars
    <2> QED BY <1>4, <2>1, <2>2
<1>6. ASSUME NEW c \in Clients, Handler(c) PROVE Goal
    <2>1. CASE Join(c)
        BY <1>2, <1>3, <2>1 DEF Join, SnapshotFrame, TypeOK, queueVars
    <2> QED BY <1>4, <1>6, <2>1 DEF Handler, Accept, Ack, Refuse, JoinFails, RequestSize, ReadResize,
                ReadBreaks, SignalClose, HandlerReturns, writerVars, queueVars
<1>7. ASSUME NEW c \in Clients, Writer(c) PROVE Goal
    <2>1. CASE WriterStops(c)
        BY <1>2, <2>1 DEF WriterStops, queueVars
    <2>2. CASE WriterTakesSnapshot(c)
        BY <1>2, <2>2 DEF WriterTakesSnapshot, SnapshotFrame, TypeOK
    <2>3. CASE WriterTakesFrame(c)
        <3>1. CASE c # d BY <1>2, <2>3, <3>1 DEF WriterTakesFrame, TypeOK
        <3>2. CASE c = d
            <4>1. Head(buf[d]) \in QueuedFrame BY <2>3, <3>2 DEF WriterTakesFrame, TypeOK
            <4> QED BY <1>2, <2>3, <3>2, <4>1 DEF WriterTakesFrame, QueuedFrame, TypeOK
        <3> QED BY <3>1, <3>2
    <2>4. CASE WriteFrame(c)
        BY <1>2, <2>4 DEF WriteFrame, NoFrame, queueVars, TypeOK
    <2>5. CASE WriteUnread(c)
        BY <1>2, <2>5 DEF WriteUnread, NoFrame, queueVars, TypeOK
    <2>6. CASE WriteFails(c)
        BY <1>2, <2>6 DEF WriteFails, NoFrame, queueVars, TypeOK
    <2> QED BY <1>7, <2>1, <2>2, <2>3, <2>4, <2>5, <2>6 DEF Writer
<1>8. ASSUME NEW c \in Clients, ClientLeaves(c) PROVE Goal
    BY <1>4, <1>8 DEF ClientLeaves, writerVars, queueVars
<1>9. CASE Run
    BY <1>4, <1>9 DEF Run, Reap, CloseListener, ClosePty, EndAttachers, EndAttacher, Persist, Exit,
                      writerVars, queueVars
<1> QED BY <1>4, <1>5, <1>6, <1>7, <1>8, <1>9 DEF Next, vars, writerVars, queueVars

-----------------------------------------------------------------------------
\* The inductive invariant holds before any client connects.
LEMMA StreamInit == Init => StreamInv
<1> SUFFICES ASSUME Init PROVE StreamInv OBVIOUS
<1>1. TypeOK BY TypeInit
<1>2. ASSUME NEW c \in Clients
      PROVE  /\ writer[c] = "none" /\ inflight[c] = NoFrame /\ buf[c] = <<>>
             /\ pendingSnapshot[c] = NoSnapshot /\ screen[c] = 0 /\ ~gotEnded[c]
             /\ handlerErr[c] = {} /\ handler[c] = "none" /\ conn[c] = "none"
    BY DEF Init
<1>3. FreshIsEmpty BY <1>2 DEF FreshIsEmpty, Init
<1>9. NoFrame.tag = "none" BY DEF NoFrame
<1>4. WriterHolds BY <1>2, <1>9 DEF WriterHolds
<1>5. PumpInv BY GroundAssumption DEF PumpInv, Ending, Init
<1>6. ChainInv BY <1>2 DEF ChainInv
<1>7. StreamTiles /\ EndedIsLast BY <1>2 DEF StreamTiles, EndedIsLast, Garbled
<1>8. SnapshotAtBoundary BY <1>2, <1>9 DEF SnapshotAtBoundary
<1> QED BY <1>1, <1>3, <1>4, <1>5, <1>6, <1>7, <1>8 DEF StreamInv

\* The inductive invariant is kept by every step.
LEMMA StreamStep == StreamInv /\ [Next]_vars => StreamInv'
<1> SUFFICES ASSUME StreamInv, [Next]_vars PROVE StreamInv' OBVIOUS
<1>1. StateInv /\ ChainInv /\ StreamTiles /\ EndedIsLast /\ SnapshotAtBoundary
    BY DEF StreamInv, StateInv
<1>2. TypeOK /\ FreshIsEmpty /\ WriterHolds /\ PumpInv BY <1>1 DEF StateInv
<1> QED BY <1>1, <1>2, TypeStep, FreshStep, WriterStep, PumpStep, ChainStep, TilesStep, EndedStep,
           BoundaryStep DEF StreamInv

\* The inductive invariant: what is queued for a client continues what it
\* sees, up to what the terminal shows.
THEOREM StreamInvariant == Spec => []StreamInv
    BY StreamInit, StreamStep, PTL DEF Spec

\* No client is ever sent output with a hole or a repetition, whatever
\* snapshots feedTerm, serveAttach and deliverOutput put in its place.
THEOREM NoHoles == Spec => []StreamTiles
<1>1. StreamInv => StreamTiles BY DEF StreamInv
<1> QED BY <1>1, StreamInvariant, PTL

\* FrameEnded follows every byte the command wrote, the drained tail included.
THEOREM EndedAfterAllOutput == Spec => []EndedIsLast
<1>1. StreamInv => EndedIsLast BY DEF StreamInv
<1> QED BY <1>1, StreamInvariant, PTL

\* Snapshots stand at ground boundaries, so that live output continues them.
THEOREM SnapshotsAtBoundaries == Spec => []SnapshotAtBoundary
<1>1. StreamInv => SnapshotAtBoundary BY DEF StreamInv
<1> QED BY <1>1, StreamInvariant, PTL

\* A client's terminal is never taken back to an earlier state.
THEOREM ScreensAdvance == Spec => ScreenNeverGoesBack
<1>1. ASSUME StreamInv, [Next]_vars
      PROVE  [\A c \in Clients : ~Skipped(c) => screen'[c] >= screen[c]]_vars
    <2> SUFFICES ASSUME NEW c \in Clients, ~Skipped(c) PROVE screen'[c] >= screen[c]
        OBVIOUS
    <2>1. StateInv /\ ChainInv /\ TypeOK BY <1>1 DEF StreamInv, StateInv
    <2>2. CASE WriteFrame(c) BY <2>1, <2>2, FrameReceived
    <2>3. CASE screen'[c] = screen[c]
        <3>1. screen[c] \in Position BY <2>1 DEF TypeOK
        <3>2. screen[c] \in Int BY <3>1 DEF Position, Garbled
        <3> QED BY <2>3, <3>2
    <2> QED BY <1>1, <2>1, <2>2, <2>3, ScreenFrame
<1> QED BY <1>1, StreamInvariant, PTL DEF Spec, ScreenNeverGoesBack

-----------------------------------------------------------------------------
(* The inductive invariants.                                               *)

\* The frames a backlog may hold beyond Cap: the window-size request once the
\* handler has asked, and FrameEnded once endAttachers was here.
Asked(c) == handler[c] \in {"reading", "leaving", "signalled", "done"}
Extra(c) == (IF Asked(c) THEN 1 ELSE 0) + (IF Ending /\ c \notin endTargets THEN 1 ELSE 0)

BacklogInv == \A c \in Clients : Len(buf[c]) <= Cap + Extra(c)

\* What state a connection is in, and why its handler stopped reading.
ConnInv ==
    \A c \in Clients :
        /\ handler[c] = "none" => conn[c] = "none"
        /\ gotEnded[c] => conn[c] # "open"
        /\ handler[c] \in {"leaving", "signalled"} =>
              handlerErr[c] # {} \/ conn[c] \in {"left", "closed"}

\* Without failing snapshots no client is skipped.
NoSkip == \A c \in Clients : ~Skipped(c)

-----------------------------------------------------------------------------
(* The backlog.                                                            *)

\* What a step may do to a client's backlog: leave it alone or shorten it,
\* fill it up to Cap, ask for the window's size, or announce the end.
LEMMA BacklogFrame ==
    ASSUME TypeOK, FreshIsEmpty, [Next]_vars, NEW d \in Clients
    PROVE  \/ Len(buf'[d]) <= Len(buf[d]) /\ (Asked(d) => Asked(d)')
           \/ Len(buf'[d]) <= Cap
           \/ Len(buf'[d]) = Len(buf[d]) + 1 /\ ~Asked(d) /\ Asked(d)' /\ UNCHANGED runVars
           \/ Len(buf'[d]) = Len(buf[d]) + 1 /\ d \in endTargets /\ d \notin endTargets'
                 /\ phase = "ending" /\ phase' = "ending" /\ handler' = handler
<1> DEFINE Goal ==
           \/ Len(buf'[d]) <= Len(buf[d]) /\ (Asked(d) => Asked(d)')
           \/ Len(buf'[d]) <= Cap
           \/ Len(buf'[d]) = Len(buf[d]) + 1 /\ ~Asked(d) /\ Asked(d)' /\ UNCHANGED runVars
           \/ Len(buf'[d]) = Len(buf[d]) + 1 /\ d \in endTargets /\ d \notin endTargets'
                 /\ phase = "ending" /\ phase' = "ending" /\ handler' = handler
<1>0. /\ buf[d] \in Seq(QueuedFrame) /\ Len(buf[d]) \in Nat /\ Cap \in Nat /\ Len(<<>>) = 0
      /\ buf \in [Clients -> Seq(QueuedFrame)]
    <2>1. buf \in [Clients -> Seq(QueuedFrame)] BY DEF TypeOK
    <2> QED BY <2>1, CapAssumption
<1>1. CASE buf'[d] = buf[d] /\ (Asked(d) => Asked(d)')
    BY <1>0, <1>1
<1>2. CASE Pump
    <2>1. handler' = handler BY <1>2, DaemonFrame
    <2>2. ASSUME NEW c \in Clients, QueueOutput(c) PROVE Goal
        <3>1. CASE c # d BY <1>1, <2>1, <2>2, <3>1 DEF QueueOutput, TypeOK, Asked
        <3>2. CASE c = d
            <4>1. buf'[d] = Append(buf[d], OutputFrame(feedFrom, rendered)) /\ Len(buf[d]) < Cap
                BY <1>0, <2>2, <3>2 DEF QueueOutput
            <4>2. Len(buf'[d]) = Len(buf[d]) + 1 BY <1>0, <4>1
            <4> QED BY <1>0, <4>1, <4>2
        <3> QED BY <3>1, <3>2
    <2>3. ASSUME NEW c \in Clients, SkipForward(c) PROVE Goal
        <3>1. CASE c # d BY <1>1, <2>1, <2>3, <3>1 DEF SkipForward, TypeOK, Asked
        <3>2. CASE c = d
            <4>1. buf'[d] = <<>> BY <1>0, <2>3, <3>2 DEF SkipForward
            <4> QED BY <1>0, <4>1
        <3> QED BY <3>1, <3>2
    <2>4. UNCHANGED buf \/ \E c \in Clients : QueueOutput(c) \/ SkipForward(c)
        BY <1>2 DEF Pump, ReadOutput, ReadFails, FeedNothing, FeedTerm, SkipForwardFails,
                    FanoutReturns, queueVars
    <2> QED BY <1>1, <2>1, <2>2, <2>3, <2>4 DEF Asked
<1>3. ASSUME NEW c \in Clients, Handler(c) PROVE Goal
    <2>1. CASE c # d BY <1>1, <1>3, <2>1, OtherHandler DEF Asked
    <2>2. CASE c = d
        <3>1. CASE RequestSize(d)
            <4>1. buf'[d] = Append(buf[d], ControlFrame("resize", d))
                BY <1>0, <3>1 DEF RequestSize
            <4>2. handler[d] = "joined" /\ handler'[d] = "reading" /\ UNCHANGED runVars
                BY <3>1 DEF RequestSize, TypeOK
            <4>3. Len(buf'[d]) = Len(buf[d]) + 1 BY <1>0, <4>1
            <4> QED BY <4>2, <4>3 DEF Asked
        <3>2. CASE ~RequestSize(d)
            <4>1. buf' = buf
                BY <1>3, <2>2, <3>2 DEF Handler, Accept, Ack, Refuse, Join, JoinFails,
                   ReadResize, ReadBreaks, SignalClose, HandlerReturns, queueVars
            <4>2. Asked(d) => Asked(d)'
                BY <1>3, <2>2, <3>2 DEF Handler, Accept, Ack, Refuse, Join, JoinFails,
                   ReadResize, ReadBreaks, SignalClose, HandlerReturns, Asked, TypeOK
            <4> QED BY <1>1, <4>1, <4>2
        <3> QED BY <3>1, <3>2
    <2> QED BY <2>1, <2>2
<1>4. ASSUME NEW c \in Clients, Writer(c) PROVE Goal
    <2>0. handler' = handler BY <1>4, WriterFrame
    <2>1. CASE c # d BY <1>1, <1>4, <2>0, <2>1, OtherWriter DEF Asked
    <2>2. CASE c = d
        <3>1. CASE WriterTakesFrame(d)
            <4>1. buf[d] # <<>> /\ buf'[d] = Tail(buf[d])
                BY <1>0, <3>1 DEF WriterTakesFrame
            <4>2. Len(buf'[d]) = Len(buf[d]) - 1 BY <1>0, <4>1
            <4>3. Len(buf'[d]) <= Len(buf[d]) BY <1>0, <4>2
            <4> QED BY <2>0, <4>3 DEF Asked
        <3>2. CASE ~WriterTakesFrame(d)
            BY <1>1, <1>4, <2>0, <2>2, <3>2 DEF Writer, WriterStops, WriterTakesSnapshot,
               WriteFrame, WriteUnread, WriteFails, queueVars, Asked
        <3> QED BY <3>1, <3>2
    <2> QED BY <2>1, <2>2
<1>5. ASSUME NEW c \in Clients, ClientLeaves(c) PROVE Goal
    BY <1>1, <1>5 DEF ClientLeaves, queueVars, Asked
<1>6. CASE Run
    <2>0. handler' = handler BY <1>6, DaemonFrame
    <2>1. ASSUME NEW c \in Clients, EndAttacher(c) PROVE Goal
        <3>1. CASE c # d BY <1>1, <2>0, <2>1, <3>1 DEF EndAttacher, TypeOK, Asked
        <3>2. CASE c = d
            <4>1. /\ buf'[d] = Append(buf[d], ControlFrame("ended", d))
                  /\ d \in endTargets /\ d \notin endTargets'
                  /\ phase = "ending" /\ phase' = "ending"
                BY <1>0, <2>1, <3>2 DEF EndAttacher
            <4>2. Len(buf'[d]) = Len(buf[d]) + 1 BY <1>0, <4>1
            <4> QED BY <2>0, <4>1, <4>2
        <3> QED BY <3>1, <3>2
    <2>2. UNCHANGED buf \/ \E c \in Clients : EndAttacher(c)
        BY <1>6 DEF Run, Reap, CloseListener, ClosePty, EndAttachers, Persist, Exit, queueVars
    <2> QED BY <1>1, <2>0, <2>1, <2>2 DEF Asked
<1>7. CASE UNCHANGED vars
    BY <1>1, <1>7 DEF vars, queueVars, Asked
<1> QED BY <1>2, <1>3, <1>4, <1>5, <1>6, <1>7 DEF Next

\* The end is announced once: what endAttachers has done stays done.
LEMMA EndingStays ==
    ASSUME TypeOK, PumpInv, [Next]_vars, NEW d \in Clients, Ending, d \notin endTargets
    PROVE  Ending' /\ d \notin endTargets'
<1>1. CASE UNCHANGED runVars BY <1>1 DEF runVars, Ending
<1>2. CASE Run
    BY <1>2 DEF Run, Reap, CloseListener, ClosePty, EndAttachers, EndAttacher, Persist, Exit, Ending
<1>3. Pump => UNCHANGED runVars
    BY DEF Pump, ReadOutput, ReadFails, FeedNothing, FeedTerm, QueueOutput, SkipForward,
           SkipForwardFails, FanoutReturns
<1> QED BY <1>1, <1>2, <1>3, ClientFrame DEF Next, vars

\* No step makes a backlog longer than its allowance.
LEMMA BacklogStep ==
    ASSUME TypeOK, FreshIsEmpty, PumpInv, BacklogInv, [Next]_vars
    PROVE  BacklogInv'
<1> SUFFICES ASSUME NEW d \in Clients PROVE Len(buf'[d]) <= Cap + Extra(d)'
    BY DEF BacklogInv
<1> DEFINE a == IF Asked(d) THEN 1 ELSE 0
           b == IF Asked(d)' THEN 1 ELSE 0
           e == IF Ending /\ d \notin endTargets THEN 1 ELSE 0
           f == IF Ending' /\ d \notin endTargets' THEN 1 ELSE 0
<1>1. TypeOK' BY TypeStep
<1>2. Len(buf[d]) \in Nat /\ Len(buf'[d]) \in Nat /\ Cap \in Nat
    <2>1. buf \in [Clients -> Seq(QueuedFrame)] BY DEF TypeOK
    <2>2. buf' \in [Clients -> Seq(QueuedFrame)] BY <1>1 DEF TypeOK
    <2> QED BY <2>1, <2>2, CapAssumption
<1>3. Len(buf[d]) <= Cap + (a + e) BY DEF BacklogInv, Extra
<1>4. e <= f BY EndingStays
<1>5. a \in 0..1 /\ b \in 0..1 /\ e \in 0..1 /\ f \in 0..1 OBVIOUS
<1>6. CASE Len(buf'[d]) <= Len(buf[d]) /\ (Asked(d) => Asked(d)')
    <2>1. a <= b BY <1>6
    <2> QED BY <1>2, <1>3, <1>4, <1>5, <1>6, <2>1 DEF Extra
<1>7. CASE Len(buf'[d]) <= Cap
    BY <1>2, <1>5, <1>7 DEF Extra
<1>8. CASE Len(buf'[d]) = Len(buf[d]) + 1 /\ ~Asked(d) /\ Asked(d)'
    <2>1. a = 0 /\ b = 1 BY <1>8
    <2> QED BY <1>2, <1>3, <1>4, <1>5, <1>8, <2>1 DEF Extra
<1>9. CASE Len(buf'[d]) = Len(buf[d]) + 1 /\ d \in endTargets /\ d \notin endTargets'
           /\ phase' = "ending" /\ handler' = handler
    <2>1. e = 0 /\ f = 1 /\ a = b BY <1>9 DEF Ending, Asked
    <2> QED BY <1>2, <1>3, <1>5, <1>9, <2>1 DEF Extra
<1> QED BY <1>6, <1>7, <1>8, <1>9, BacklogFrame

\* A client, however slow, costs a bounded backlog: Cap frames of output, one
\* window-size request and one ended frame (deliverOutput, endAttachers).
THEOREM BacklogIsBounded == Spec => []BacklogBounded
<1>1. Init => BacklogInv
    <2> SUFFICES ASSUME Init, NEW c \in Clients PROVE Len(buf[c]) <= Cap + Extra(c)
        BY DEF BacklogInv
    <2>1. buf[c] = <<>> /\ Len(<<>>) = 0 BY DEF Init
    <2> QED BY <2>1, CapAssumption DEF Extra
<1>2. StreamInv /\ BacklogInv /\ [Next]_vars => BacklogInv'
    BY BacklogStep DEF StreamInv
<1>3. StreamInv /\ BacklogInv => BacklogBounded
    <2> SUFFICES ASSUME StreamInv, BacklogInv, NEW c \in Clients PROVE Len(buf[c]) <= Cap + 2
        BY DEF BacklogBounded
    <2>1. buf \in [Clients -> Seq(QueuedFrame)] BY DEF StreamInv, TypeOK
    <2>2. Len(buf[c]) \in Nat /\ Cap \in Nat BY <2>1, CapAssumption
    <2>3. Len(buf[c]) <= Cap + Extra(c) BY DEF BacklogInv
    <2>4. Extra(c) \in 0..2 BY DEF Extra
    <2> QED BY <2>2, <2>3, <2>4
<1> QED BY <1>1, <1>2, <1>3, StreamInvariant, PTL DEF Spec

-----------------------------------------------------------------------------
(* Hanging up.                                                             *)

ConnOK(c) ==
    /\ handler[c] = "none" => conn[c] = "none"
    /\ gotEnded[c] => conn[c] # "open"
    /\ handler[c] \in {"leaving", "signalled"} =>
          handlerErr[c] # {} \/ conn[c] \in {"left", "closed"}
    /\ conn[c] = "closed" /\ handler[c] # "refused" /\ handlerErr[c] = {} => gotEnded[c]

\* No step closes a connection whose client stayed without an ended frame or
\* a recorded error.
LEMMA ConnStep ==
    ASSUME TypeOK, FreshIsEmpty, [Next]_vars, NEW d \in Clients, ConnOK(d)
    PROVE  ConnOK(d)'
<1> USE DEF TypeOK
<1>1. CASE /\ handler'[d] = handler[d] /\ conn'[d] = conn[d] /\ gotEnded'[d] = gotEnded[d]
           /\ handlerErr'[d] = handlerErr[d]
    BY <1>1 DEF ConnOK
<1>2. CASE Pump
    <2>1. UNCHANGED <<handler, gotEnded, conn>>
        BY <1>2 DEF Pump, ReadOutput, ReadFails, FeedNothing, FeedTerm, QueueOutput, SkipForward,
                    SkipForwardFails, FanoutReturns, clientVars
    <2>2. ASSUME NEW c \in Clients, SkipForwardFails(c) PROVE handlerErr[d] \subseteq handlerErr'[d]
        BY <2>2 DEF SkipForwardFails
    <2>3. handlerErr[d] \subseteq handlerErr'[d]
        BY <1>2, <2>2 DEF Pump, ReadOutput, ReadFails, FeedNothing, FeedTerm, QueueOutput,
                          SkipForward, FanoutReturns
    <2> QED BY <2>1, <2>3 DEF ConnOK
<1>3. ASSUME NEW c \in Clients, Handler(c) PROVE ConnOK(d)'
    <2>1. CASE c # d BY <1>1, <1>3, <2>1, OtherHandler
    <2>2. CASE c = d
        <3>1. CASE Accept(d) BY <3>1 DEF Accept, ConnOK, FreshIsEmpty, Fresh
        <3>2. CASE Ack(d) BY <3>2 DEF Ack, ConnOK, clientVars
        <3>3. CASE Refuse(d) BY <3>3 DEF Refuse, ConnOK
        <3>4. CASE Join(d) BY <3>4 DEF Join, ConnOK, clientVars
        <3>5. CASE JoinFails(d) BY <3>5 DEF JoinFails, ConnOK
        <3>6. CASE RequestSize(d) BY <3>6 DEF RequestSize, ConnOK, clientVars
        <3>7. CASE ReadResize(d) BY <3>7 DEF ReadResize, ConnOK, clientVars
        <3>8. CASE ReadBreaks(d) BY <3>8 DEF ReadBreaks, ConnOK, clientVars
        <3>9. CASE SignalClose(d) BY <3>9 DEF SignalClose, ConnOK, clientVars
        <3>10. CASE HandlerReturns(d) BY <3>10 DEF HandlerReturns, ConnOK
        <3> QED BY <1>3, <2>2, <3>1, <3>2, <3>3, <3>4, <3>5, <3>6, <3>7, <3>8, <3>9, <3>10
               DEF Handler
    <2> QED BY <2>1, <2>2
<1>4. ASSUME NEW c \in Clients, Writer(c) PROVE ConnOK(d)'
    <2>0. UNCHANGED <<handler, handlerErr>> BY <1>4, WriterFrame
    <2>1. CASE c # d BY <1>1, <1>4, <2>0, <2>1, OtherWriter
    <2>2. CASE WriteFrame(d)
        <3>1. handler[d] # "none" BY <2>2 DEF WriteFrame, ConnOK
        <3> QED BY <2>0, <2>2, <3>1 DEF WriteFrame, ConnOK
    <2>3. CASE c = d /\ ~WriteFrame(d)
        BY <1>1, <1>4, <2>0, <2>3 DEF Writer, WriterStops, WriterTakesSnapshot, WriterTakesFrame,
                    WriteUnread, WriteFails, clientVars
    <2> QED BY <2>1, <2>2, <2>3
<1>5. ASSUME NEW c \in Clients, ClientLeaves(c) PROVE ConnOK(d)'
    BY <1>5 DEF ClientLeaves, ConnOK
<1>6. CASE Run
    BY <1>1, <1>6 DEF Run, Reap, CloseListener, ClosePty, EndAttachers, EndAttacher, Persist, Exit,
                clientVars, ConnOK
<1>7. CASE UNCHANGED vars BY <1>1, <1>7 DEF vars, clientVars
<1> QED BY <1>2, <1>3, <1>4, <1>5, <1>6, <1>7 DEF Next

\* The daemon hangs up on a client that stayed only after FrameEnded or after
\* recording why (serveAttach, attachWriter, handle).
THEOREM NoSilentHangup == Spec => [](ConnInv /\ NoSilentClose)
<1> DEFINE Inv == \A c \in Clients : ConnOK(c)
<1>1. Init => Inv BY DEF Init, ConnOK
<1>2. StreamInv /\ Inv /\ [Next]_vars => Inv'
    BY ConnStep DEF StreamInv
<1>3. Inv => ConnInv /\ NoSilentClose
    BY DEF ConnOK, ConnInv, NoSilentClose
<1> HIDE DEF Inv
<1> QED BY <1>1, <1>2, <1>3, StreamInvariant, PTL DEF Spec

-----------------------------------------------------------------------------
(* The refinement.                                                         *)

\* A daemon whose snapshots succeed skips nobody.
LEMMA NoSkipStep ==
    ASSUME TypeOK, ~SnapshotMayFail, NoSkip, [Next]_vars
    PROVE  NoSkip'
<1> USE DEF TypeOK, NoSkip, Skipped
<1>1. CASE Pump
    BY <1>1 DEF Pump, ReadOutput, ReadFails, FeedNothing, FeedTerm, QueueOutput, SkipForward,
                SkipForwardFails, FanoutReturns
<1>2. ASSUME NEW c \in Clients, Handler(c) PROVE NoSkip'
    <2>1. CASE ReadResize(c) BY <2>1 DEF ReadResize
    <2> QED BY <1>2, <2>1 DEF Handler, Accept, Ack, Refuse, Join, JoinFails, RequestSize, ReadBreaks,
                SignalClose, HandlerReturns
<1>3. CASE Run
    BY <1>3 DEF Run, Reap, CloseListener, ClosePty, EndAttachers, EndAttacher, Persist, Exit
<1>4. CASE UNCHANGED vars BY <1>4 DEF vars
<1> QED BY <1>1, <1>2, <1>3, <1>4, WriterFrame DEF Next

\* A client's status depends on its connection, its ended frame and whether it
\* has a writer.
LEMMA StatusKept ==
    ASSUME NEW d \in Clients, conn'[d] = conn[d], gotEnded'[d] = gotEnded[d],
           (writer'[d] = "none") <=> (writer[d] = "none")
    PROVE  Status(d)' = Status(d)
BY DEF Status

\* The abstract stream does not notice a step that keeps these.
LEMMA StreamStutters ==
    ASSUME rendered' = rendered, (pump' = "done") <=> (pump = "done"), screen' = screen,
           \A d \in Clients : Status(d)' = Status(d)
    PROVE  UNCHANGED Stream!vars
<1>1. [c \in Clients |-> Status(c)]' = [c \in Clients |-> Status(c)] OBVIOUS
<1>2. (pump = "done")' = (pump = "done") OBVIOUS
<1> QED BY <1>1, <1>2 DEF Stream!vars

\* A connection that is lost: the abstract client goes.
LEMMA StreamLoses ==
    ASSUME NEW S \in SUBSET Clients, UNCHANGED <<pumpVars, screen>>,
           \A c \in S : Status(c) \in {"away", "watching"} /\ Status(c)' = "gone",
           \A c \in Clients \ S : Status(c)' = Status(c)
    PROVE  Stream!Next
<1>1. [c \in Clients |-> Status(c)]' =
          [c \in Clients |-> IF c \in S THEN "gone" ELSE [d \in Clients |-> Status(d)][c]]
    OBVIOUS
<1>2. \A c \in S : [d \in Clients |-> Status(d)][c] \in {"away", "watching"}
    OBVIOUS
<1>3. (pump = "done")' = (pump = "done") /\ rendered' = rendered BY DEF pumpVars
<1>4. Stream!Lose(S) BY <1>1, <1>2, <1>3 DEF Stream!Lose
<1> QED BY <1>4 DEF Stream!Next

\* A client that joins starts to watch.
LEMMA StreamWatched ==
    ASSUME NEW c \in Clients, UNCHANGED <<pumpVars, screen>>,
           Status(c) = "away", Status(c)' = "watching",
           \A d \in Clients \ {c} : Status(d)' = Status(d)
    PROVE  Stream!Next
<1>1. [d \in Clients |-> Status(d)]' = [[d \in Clients |-> Status(d)] EXCEPT ![c] = "watching"]
    OBVIOUS
<1>2. (pump = "done")' = (pump = "done") /\ rendered' = rendered BY DEF pumpVars
<1>3. Stream!Watch(c) BY <1>1, <1>2 DEF Stream!Watch
<1> QED BY <1>3 DEF Stream!Next

\* A client that is told the session ended has seen the whole stream.
LEMMA StreamEnded ==
    ASSUME NEW c \in Clients, UNCHANGED <<pumpVars, screen>>, pump = "done",
           screen[c] = rendered, Status(c) = "watching", Status(c)' = "ended",
           \A d \in Clients \ {c} : Status(d)' = Status(d)
    PROVE  Stream!Next
<1>1. [d \in Clients |-> Status(d)]' = [[d \in Clients |-> Status(d)] EXCEPT ![c] = "ended"]
    OBVIOUS
<1>2. (pump = "done")' = (pump = "done") /\ rendered' = rendered BY DEF pumpVars
<1>3. Stream!End(c) BY <1>1, <1>2 DEF Stream!End
<1> QED BY <1>3 DEF Stream!Next

\* A client that is sent output or a snapshot sees a later state of the stream.
LEMMA StreamAdvances ==
    ASSUME TypeOK, NEW c \in Clients, NEW p \in screen[c]..rendered, UNCHANGED pumpVars,
           screen' = [screen EXCEPT ![c] = p], Status(c) = "watching",
           \A d \in Clients : Status(d)' = Status(d)
    PROVE  Stream!Next
<1>1. [d \in Clients |-> Status(d)]' = [d \in Clients |-> Status(d)] OBVIOUS
<1>2. (pump = "done")' = (pump = "done") /\ rendered' = rendered BY DEF pumpVars
<1>3. Stream!Advance(c) BY <1>1, <1>2 DEF Stream!Advance
<1> QED BY <1>3 DEF Stream!Next

\* The pump produces the stream, completes it, or does what nobody sees.
LEMMA PumpRefines ==
    ASSUME TypeOK, PumpInv, Pump
    PROVE  [Stream!Next]_(Stream!vars)
<1>1. UNCHANGED <<screen, gotEnded, writer, conn>>
    BY DEF Pump, ReadOutput, ReadFails, FeedNothing, FeedTerm, QueueOutput, SkipForward,
           SkipForwardFails, FanoutReturns, clientVars, writerVars
<1>2. \A d \in Clients : Status(d)' = Status(d) BY <1>1, StatusKept
<1>3. [d \in Clients |-> Status(d)]' = [d \in Clients |-> Status(d)] BY <1>2
<1>4. CASE FeedTerm
    <2>1. rendered' \in rendered + 1 .. MaxOut /\ pump # "done" /\ pump' # "done"
        <3>1. rendered' \in 0..read /\ rendered' > rendered /\ pump = "feed" /\ pump' = "fan"
            BY <1>4 DEF FeedTerm
        <3>2. rendered \in Nat /\ read \in Nat /\ read <= MaxOut
            BY MaxOutAssumption DEF TypeOK
        <3> QED BY <3>1, <3>2, MaxOutAssumption
    <2>2. Stream!Produce BY <1>1, <1>3, <2>1 DEF Stream!Produce
    <2> QED BY <2>2 DEF Stream!Next
<1>5. CASE (FeedNothing \/ FanoutReturns) /\ eof
    <2>1. rendered' = rendered /\ pump # "done" /\ pump' = "done"
        BY <1>5 DEF FeedNothing, FanoutReturns, PumpContinues
    <2>2. Stream!Complete BY <1>1, <1>3, <2>1 DEF Stream!Complete
    <2> QED BY <2>2 DEF Stream!Next
<1>6. CASE ~FeedTerm /\ ~((FeedNothing \/ FanoutReturns) /\ eof)
    <2>1. rendered' = rendered /\ pump # "done" /\ pump' # "done"
        BY <1>6 DEF Pump, ReadOutput, ReadFails, FeedNothing, QueueOutput, SkipForward,
                    SkipForwardFails, FanoutReturns, PumpContinues
    <2> QED BY <1>1, <1>2, <2>1, StreamStutters
<1> QED BY <1>4, <1>5, <1>6

\* A handler's step: the client starts to watch, is lost, or sees nothing.
LEMMA HandlerRefines ==
    ASSUME TypeOK, FreshIsEmpty, NEW c \in Clients, ConnOK(c), Handler(c)
    PROVE  [Stream!Next]_(Stream!vars)
<1> USE DEF TypeOK
<1>1. UNCHANGED pumpVars BY ClientFrame
<1>2. UNCHANGED <<screen, gotEnded>>
    BY DEF Handler, Accept, Ack, Refuse, Join, JoinFails, RequestSize, ReadResize, ReadBreaks,
           SignalClose, HandlerReturns, clientVars
<1>3. \A d \in Clients \ {c} : Status(d)' = Status(d)
    <2> TAKE d \in Clients \ {c}
    <2>1. conn'[d] = conn[d] /\ writer'[d] = writer[d] /\ gotEnded'[d] = gotEnded[d]
        BY OtherHandler
    <2> QED BY <2>1, StatusKept
<1>4. CASE Status(c)' = Status(c)
    BY <1>1, <1>2, <1>3, <1>4, StreamStutters DEF pumpVars
<1>5. CASE Accept(c)
    <2>1. conn[c] = "none" /\ conn'[c] = "open" /\ writer[c] = "none" /\ ~gotEnded[c]
        BY <1>5 DEF Accept, ConnOK, FreshIsEmpty, Fresh
    <2>2. writer'[c] = "none" /\ ~gotEnded'[c] BY <1>2, <1>5, <2>1 DEF Accept, writerVars
    <2> QED BY <1>4, <2>1, <2>2 DEF Status
<1>6. CASE Join(c)
    <2>1. writer[c] = "none" /\ ~gotEnded[c] BY <1>6 DEF Join, FreshIsEmpty, Fresh
    <2>2. writer'[c] = "writing" /\ conn'[c] = conn[c] /\ ~gotEnded'[c]
        BY <1>2, <1>6, <2>1 DEF Join, clientVars
    <2>3. CASE conn[c] = "open"
        <3>1. Status(c) = "away" /\ Status(c)' = "watching" BY <2>1, <2>2, <2>3 DEF Status
        <3> QED BY <1>1, <1>2, <1>3, <3>1, StreamWatched
    <2>4. CASE conn[c] # "open"
        <3>1. Status(c)' = Status(c) BY <2>1, <2>2, <2>4 DEF Status
        <3> QED BY <1>4, <3>1
    <2> QED BY <2>3, <2>4
<1>7. CASE Refuse(c) \/ JoinFails(c) \/ HandlerReturns(c)
    <2>1. conn'[c] = (IF conn[c] = "left" THEN "left" ELSE "closed")
        BY <1>7 DEF Refuse, JoinFails, HandlerReturns
    <2>2. writer'[c] = writer[c] /\ gotEnded'[c] = gotEnded[c]
        BY <1>2, <1>7 DEF Refuse, JoinFails, HandlerReturns, writerVars
    <2>3. CASE gotEnded[c] \/ conn[c] \in {"left", "closed", "cut"}
        <3>1. Status(c)' = Status(c) BY <2>1, <2>2, <2>3 DEF Status
        <3> QED BY <1>4, <3>1
    <2>4. CASE ~gotEnded[c] /\ conn[c] \in {"none", "open"}
        <3>1. Status(c) \in {"away", "watching"} BY <2>4 DEF Status
        <3>2. Status(c)' = "gone" BY <2>1, <2>2, <2>4 DEF Status
        <3> DEFINE S == {c}
        <3>3. /\ S \in SUBSET Clients
              /\ \A d \in S : Status(d) \in {"away", "watching"} /\ Status(d)' = "gone"
              /\ \A d \in Clients \ S : Status(d)' = Status(d)
            BY <1>3, <3>1, <3>2
        <3> HIDE DEF S
        <3> QED BY <1>1, <1>2, <3>3, StreamLoses
    <2> QED BY <2>3, <2>4
<1>8. CASE Ack(c) \/ RequestSize(c) \/ ReadResize(c) \/ ReadBreaks(c) \/ SignalClose(c)
    <2>1. UNCHANGED <<conn, writer>>
        BY <1>8 DEF Ack, RequestSize, ReadResize, ReadBreaks, SignalClose, clientVars, writerVars
    <2>2. Status(c)' = Status(c) BY <1>2, <2>1, StatusKept
    <2> QED BY <1>4, <2>2
<1> QED BY <1>5, <1>6, <1>7, <1>8 DEF Handler

\* A writer's step: the client sees a later state, is told of the end, or
\* sees nothing.
LEMMA WriterRefines ==
    ASSUME StateInv, ChainInv, NoSkip, NEW c \in Clients, ConnOK(c), Writer(c)
    PROVE  [Stream!Next]_(Stream!vars)
<1> USE DEF StateInv
<1>1. UNCHANGED pumpVars BY ClientFrame
<1>2. \A d \in Clients \ {c} : Status(d)' = Status(d)
    <2> TAKE d \in Clients \ {c}
    <2>1. conn'[d] = conn[d] /\ writer'[d] = writer[d] /\ gotEnded'[d] = gotEnded[d]
        BY OtherWriter
    <2> QED BY <2>1, StatusKept
<1>3. CASE WriteFrame(c)
    <2>1. Chain(c) /\ ~Skipped(c) BY <1>3 DEF ChainInv, WriteFrame, NoSkip
    <2>2. conn[c] = "open" /\ ~gotEnded[c] /\ writer[c] = "writing"
        BY <1>3 DEF WriteFrame, ConnOK, TypeOK
    <2>3. Status(c) = "watching" BY <2>2 DEF Status
    <2>4. inflight[c].tag # "none" BY <2>2 DEF WriterHolds
    <2>5. /\ gotEnded'[c] = (inflight[c].tag = "ended")
          /\ writer'[c] # "none"
          /\ conn'[c] = (IF inflight[c].tag = "ended" THEN "closed" ELSE "open")
          /\ screen' = [screen EXCEPT ![c] = screen'[c]]
        BY <1>3, <2>2 DEF WriteFrame, TypeOK
    <2>6. CASE inflight[c].tag = "ended"
        <3>1. screen'[c] = screen[c]
            BY <1>3, <2>6 DEF WriteFrame, Receive, TypeOK
        <3>2. screen' = screen BY <2>5, <3>1 DEF TypeOK
        <3>3. Ending /\ screen'[c] = rendered BY <1>3, <2>1, <2>6, FrameReceived
        <3>4. pump = "done" BY <3>3 DEF PumpInv
        <3>5. Status(c)' = "ended" BY <2>5, <2>6 DEF Status
        <3> QED BY <1>1, <1>2, <2>3, <3>1, <3>2, <3>3, <3>4, <3>5, StreamEnded
    <2>7. CASE inflight[c].tag # "ended"
        <3>1. screen'[c] = inflight[c].to /\ screen'[c] \in Nat /\ screen'[c] >= screen[c]
            BY <1>3, <2>1, FrameReceived
        <3>2. screen[c] \in Nat /\ Shown(c) <= rendered BY <2>1, ChainBounds
        <3>3. screen'[c] <= rendered BY <2>4, <3>1, <3>2 DEF Shown
        <3>4. rendered \in Nat BY DEF TypeOK
        <3>5. screen'[c] \in screen[c]..rendered BY <3>1, <3>2, <3>3, <3>4
        <3>6. Status(c)' = "watching" BY <2>5, <2>7 DEF Status
        <3> QED BY <1>1, <1>2, <2>3, <2>5, <3>5, <3>6, StreamAdvances
    <2> QED BY <2>6, <2>7
<1>4. CASE ~WriteFrame(c)
    <2>1. UNCHANGED <<conn, screen, gotEnded>>
        BY <1>4 DEF Writer, WriterStops, WriterTakesSnapshot, WriterTakesFrame, WriteUnread,
                    WriteFails, clientVars
    <2>2. writer[c] # "none" /\ writer'[c] # "none"
        BY <1>4 DEF Writer, WriterStops, WriterTakesSnapshot, WriterTakesFrame, WriteUnread,
                    WriteFails, TypeOK
    <2>3. Status(c)' = Status(c) BY <2>1, <2>2, StatusKept
    <2> QED BY <1>1, <1>2, <2>1, <2>3, StreamStutters DEF pumpVars
<1> QED BY <1>3, <1>4

\* A client that leaves is lost.
LEMMA LeaveRefines ==
    ASSUME TypeOK, NEW c \in Clients, ConnOK(c), ClientLeaves(c)
    PROVE  [Stream!Next]_(Stream!vars)
<1>1. UNCHANGED <<pumpVars, screen, gotEnded, writer>> BY DEF ClientLeaves, writerVars
<1>2. conn[c] = "open" /\ ~gotEnded[c] /\ conn' = [conn EXCEPT ![c] = "left"]
    BY DEF ClientLeaves, ConnOK, TypeOK
<1>3. \A d \in Clients \ {c} : Status(d)' = Status(d)
    BY <1>1, <1>2, StatusKept DEF TypeOK
<1>4. Status(c) \in {"away", "watching"} BY <1>2 DEF Status
<1>5. conn'[c] = "left" /\ ~gotEnded'[c] BY <1>1, <1>2 DEF TypeOK
<1>6. Status(c)' = "gone" BY <1>5 DEF Status
<1> QED BY <1>1, <1>3, <1>4, <1>6, StreamLoses

\* Session.run: nobody sees its steps until the process exits, which loses
\* everyone whose connection is still open.
LEMMA RunRefines ==
    ASSUME TypeOK, \A c \in Clients : ConnOK(c), Run
    PROVE  [Stream!Next]_(Stream!vars)
<1>1. UNCHANGED <<pumpVars, screen, gotEnded, writer>>
    BY DEF Run, Reap, CloseListener, ClosePty, EndAttachers, EndAttacher, Persist, Exit, clientVars,
           writerVars
<1>2. CASE Exit
    <2> DEFINE S == {c \in Clients : conn[c] = "open"}
    <2>1. ASSUME NEW c \in S PROVE Status(c) \in {"away", "watching"} /\ Status(c)' = "gone"
        <3>1. conn[c] = "open" /\ ~gotEnded[c] BY DEF ConnOK
        <3>2. conn'[c] = "cut" /\ ~gotEnded'[c] BY <1>1, <1>2, <3>1 DEF Exit
        <3> QED BY <3>1, <3>2 DEF Status
    <2>2. ASSUME NEW c \in Clients \ S PROVE Status(c)' = Status(c)
        <3>1. conn'[c] = conn[c] BY <1>2 DEF Exit
        <3> QED BY <1>1, <3>1, StatusKept
    <2> HIDE DEF S
    <2>3. S \in SUBSET Clients BY DEF S
    <2> QED BY <1>1, <2>1, <2>2, <2>3, StreamLoses
<1>3. CASE ~Exit
    <2>1. UNCHANGED conn
        BY <1>3 DEF Run, Reap, CloseListener, ClosePty, EndAttachers, EndAttacher, Persist, clientVars
    <2>2. \A d \in Clients : Status(d)' = Status(d) BY <1>1, <2>1, StatusKept
    <2> QED BY <1>1, <2>1, <2>2, StreamStutters DEF pumpVars
<1> QED BY <1>2, <1>3

\* A daemon whose snapshots succeed implements OutputStream: every client sees
\* ever later states of one stream and is told of the end only after all of it,
\* whatever is queued, skipped forward or shut down meanwhile.
THEOREM RefinesOutputStream ==
    ASSUME ~SnapshotMayFail
    PROVE  Spec => ImplementsOutputStream
<1> DEFINE Inv == (\A c \in Clients : ConnOK(c)) /\ NoSkip
<1>1. Init => Inv BY DEF Init, ConnOK, NoSkip, Skipped
<1>2. StreamInv /\ Inv /\ [Next]_vars => Inv'
    BY ConnStep, NoSkipStep DEF StreamInv
<1>3. Init => Stream!Init
    <2> SUFFICES ASSUME Init PROVE Stream!Init OBVIOUS
    <2>1. \A c \in Clients : ~gotEnded[c] /\ conn[c] = "none" /\ writer[c] = "none" BY DEF Init
    <2>2. \A c \in Clients : Status(c) = "away" BY <2>1 DEF Status
    <2>3. [c \in Clients |-> Status(c)] = [c \in Clients |-> "away"] BY <2>2
    <2>4. (pump = "done") = FALSE BY DEF Init
    <2> QED BY <2>3, <2>4 DEF Init, Stream!Init
<1>4. StreamInv /\ Inv /\ [Next]_vars => [Stream!Next]_(Stream!vars)
    <2> SUFFICES ASSUME StreamInv, Inv, [Next]_vars PROVE [Stream!Next]_(Stream!vars)
        OBVIOUS
    <2>1. StateInv /\ ChainInv /\ TypeOK /\ FreshIsEmpty /\ PumpInv BY DEF StreamInv, StateInv
    <2>2. CASE UNCHANGED vars
        <3>1. UNCHANGED <<rendered, pump, screen, gotEnded, conn, writer>>
            BY <2>2 DEF vars, pumpVars, clientVars, writerVars
        <3>2. \A d \in Clients : Status(d)' = Status(d) BY <3>1, StatusKept
        <3> QED BY <3>1, <3>2, StreamStutters
    <2> QED BY <2>1, <2>2, PumpRefines, HandlerRefines, WriterRefines, LeaveRefines, RunRefines
           DEF Next
<1> HIDE DEF Inv
<1> QED BY <1>1, <1>2, <1>3, <1>4, StreamInvariant, PTL
       DEF Spec, ImplementsOutputStream, Stream!Spec
=============================================================================
