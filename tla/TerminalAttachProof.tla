------------------------ MODULE TerminalAttachProof ------------------------
(***************************************************************************)
(* Proofs about how an attachment ends, for any routes, faults, pipe sizes *)
(* and amounts of output and input, and transports that can be killed or   *)
(* not: Attach returns with nothing left behind, returns no error only     *)
(* when the attachment is over, and what the user is told on the way out   *)
(* is what happened, as far as OutcomeIsTrue says.                         *)
(***************************************************************************)
EXTENDS TerminalAttach, TLAPS

-----------------------------------------------------------------------------
(* The inductive invariants.                                               *)

Errors == {"none", "nil", "eof", "reset", "closed", "broken", "canceled", "local", "detached",
           "ctx", "protocol", "refused", "transport"}
Pipe == [q : Seq(Messages), eof : BOOLEAN, gone : BOOLEAN, reset : BOOLEAN]
Process ==
    [out : {"dial", "copy", "join", "exited"}, in : {"idle", "copy", "done"}, shut : BOOLEAN,
     failed : BOOLEAN, kind : {"killable", "unkillable", "held"}]
Looping == {"select", "pickFrame", "pickInput", "join"}
MainState ==
    [pc : {"request", "response", "start", "defer", "returned"} \cup Looping,
     result : SUBSET Errors, shuttingDown : BOOLEAN, frameDone : BOOLEAN, inputDone : BOOLEAN,
     resizeTaken : BOOLEAN, terminated : BOOLEAN,
     outcome : {"none", "detached", "ended", "disconnected", "aborted"}]

TypeOK ==
    /\ route \in {"socket", "bridge"}
    /\ pipe \in [PipeNames -> Pipe]
    /\ sess \in {"listening", "serving", "leaving", "gone"} /\ out \in Nat /\ endSent \in BOOLEAN
    /\ bridge \in Process
    /\ ctx \in BOOLEAN /\ stopped \in BOOLEAN /\ closer \in {"open", "closing", "closed"}
    /\ main \in MainState
    /\ frame \in [pc : {"idle", "reading", "sizing", "done"}, err : Errors]
    /\ input \in [pc : {"idle", "reading", "sending", "detaching", "done"}, err : Errors]
    /\ resize \in [pc : {"idle", "waiting", "sizing", "done"}, err : Errors]
    /\ viewErr \in BOOLEAN /\ shown \in Nat
    /\ flags \in [detached : BOOLEAN, sessionEnded : BOOLEAN]
    /\ events \in Nat

\* Without a transport there is no process; a stream that is closed has none, nor a
\* descendant of one that holds its stderr.
BridgeInv ==
    /\ route = "socket" => bridge.out = "exited" /\ bridge.in = "done" /\ bridge.kind = "killable"
    /\ closer = "closed" => Reaped

\* The goroutines run from Start to Join, and the deferred close comes last.
GoInv ==
    /\ main.pc \in {"request", "response", "start"} =>
          frame.pc = "idle" /\ input.pc = "idle" /\ resize.pc = "idle"
    /\ main.pc \in {"defer", "returned"} => \A g \in {frame, input, resize} : g.pc \in {"idle", "done"}
    /\ main.pc = "returned" => closer = "closed"

\* The client's ends of the stream are open until the client closes it, which
\* it does before the loop has ended only when it is canceled.
CloseInv ==
    /\ closer = "open" => ~pipe[Down].gone /\ ~pipe[Up].eof
    /\ main.pc \notin {"join", "defer", "returned"} /\ closer # "open" => ctx
    /\ ctx => "cancel" \in hit

\* What the goroutines report, and what made them.
ErrInv ==
    /\ (frame.err # "none") <=> (frame.pc = "done")
    /\ frame.err \in {"none", "nil", "eof", "reset", "closed", "broken", "local"}
    /\ frame.err = "closed" => closer # "open"
    /\ frame.err = "nil" => flags.sessionEnded
    /\ (input.err # "none") <=> (input.pc = "done")
    /\ input.err \in {"none", "nil", "closed", "broken", "canceled", "local", "detached"}
    /\ input.err = "nil" => "eof" \in hit
    /\ flags.detached <=> input.err = "detached"
    /\ resize.err \in {"none", "closed", "broken", "local"}

\* An error that the return does not filter, or a reason to return none.
Justified ==
    \/ main.result \ {"detached"} # {} \/ "eof" \in hit \/ flags.detached
    \/ main.frameDone /\ ~main.shuttingDown /\ frame.err # "closed"

\* What the loop of runTerminalAttach has collected.
LoopInv ==
    /\ main.pc \in {"pickFrame", "pickInput", "join"} =>
          /\ Justified
          /\ main.frameDone => frame.err # "none"
          /\ main.frameDone /\ frame.err = "closed" /\ ~main.shuttingDown => "cancel" \in hit
    /\ main.pc = "join" => (main.terminated => main.frameDone /\ ~main.shuttingDown)
    /\ main.pc \in {"defer", "returned"} =>
          \/ main.result \ {"detached"} # {}
          \/ /\ main.outcome \in {"ended", "detached"} \/ "eof" \in hit
             /\ main.outcome = "disconnected" => "cancel" \in hit

AttachInv == TypeOK /\ BridgeInv /\ GoInv /\ CloseInv /\ ErrInv /\ LoopInv

-----------------------------------------------------------------------------
(* Pipes.                                                                  *)

Pipes == [PipeNames -> Pipe]

\* Writing a message changes no end.
LEMMA PutPipe ==
    ASSUME NEW ps \in Pipes, NEW p \in PipeNames, NEW m \in Messages
    PROVE  /\ Put(ps, p, m) \in Pipes
           /\ \A o \in PipeNames : /\ Put(ps, p, m)[o].eof <=> ps[o].eof
                                   /\ Put(ps, p, m)[o].gone <=> ps[o].gone
                                   /\ Put(ps, p, m)[o].q = IF o = p THEN Append(ps[p].q, m) ELSE ps[o].q
<1> DEFINE t == Append(ps[p].q, m)
<1>1. Put(ps, p, m) = [ps EXCEPT ![p].q = t] BY DEF Put
<1>2. ps[p].q \in Seq(Messages) BY DEF Pipes, Pipe
<1>3. t \in Seq(Messages) BY <1>2
<1> HIDE DEF t
<1>4. Append(ps[p].q, m) = t BY DEF t
<1> QED BY <1>1, <1>3, <1>4 DEF Pipes, Pipe

\* Nor does reading one.
LEMMA PopPipe ==
    ASSUME NEW ps \in Pipes, NEW p \in PipeNames, ps[p].q # <<>>
    PROVE  /\ Pop(ps, p) \in Pipes /\ Head(ps[p].q) \in Messages
           /\ \A o \in PipeNames : /\ Pop(ps, p)[o].eof <=> ps[o].eof
                                   /\ Pop(ps, p)[o].gone <=> ps[o].gone
                                   /\ Pop(ps, p)[o].q = IF o = p THEN Tail(ps[p].q) ELSE ps[o].q
<1>1. ps[p] \in Pipe /\ ps[p].q \in Seq(Messages) BY DEF Pipes, Pipe
<1>2. Tail(ps[p].q) \in Seq(Messages) /\ Head(ps[p].q) \in Messages BY <1>1
<1> DEFINE t == Tail(ps[p].q)
<1>3. Pop(ps, p) = [ps EXCEPT ![p].q = t] BY DEF Pop
<1> HIDE DEF t
<1>4. t \in Seq(Messages) BY <1>2 DEF t
<1>5. Pop(ps, p) \in Pipes BY <1>3, <1>4 DEF Pipes, Pipe
<1>6. \A o \in PipeNames : /\ Pop(ps, p)[o].eof <=> ps[o].eof
                           /\ Pop(ps, p)[o].gone <=> ps[o].gone
                           /\ Pop(ps, p)[o].q = IF o = p THEN t ELSE ps[o].q
    BY <1>3, <1>4 DEF Pipes, Pipe
<1> QED BY <1>2, <1>5, <1>6 DEF t

\* Closing a connection ends what is written to it and drops what it was sent.
LEMMA ClosePipe ==
    ASSUME NEW ps \in Pipes, NEW r \in PipeNames, NEW w \in PipeNames, r # w
    PROVE  /\ Close(ps, r, w) \in Pipes
           /\ \A o \in PipeNames : /\ Close(ps, r, w)[o].eof <=> (ps[o].eof \/ o = w)
                                   /\ Close(ps, r, w)[o].gone <=> (ps[o].gone \/ o = r)
                                   /\ Close(ps, r, w)[o].q = IF o = r THEN <<>> ELSE ps[o].q
<1> DEFINE a == [ps EXCEPT ![r].gone = TRUE]
           b == [a EXCEPT ![r].q = <<>>]
           c == [b EXCEPT ![w].eof = TRUE]
           x == ps[w].reset \/ (r \in {"sockUp", "sockDown"} /\ ps[r].q # <<>>)
           d == [c EXCEPT ![w].reset = x]
<1>1. a \in Pipes BY DEF Pipes, Pipe
<1>2. b \in Pipes
    <2> HIDE DEF a
    <2>1. <<>> \in Seq(Messages) OBVIOUS
    <2> QED BY <1>1, <2>1 DEF Pipes, Pipe
<1>3. c \in Pipes
    <2> HIDE DEF b
    <2> QED BY <1>2 DEF Pipes, Pipe
<1>4. d \in Pipes
    <2>1. x \in BOOLEAN BY DEF Pipes, Pipe
    <2> HIDE DEF c, x
    <2> QED BY <1>3, <2>1 DEF Pipes, Pipe
<1>6. Close(ps, r, w) = d BY DEF Close
<1>5. ASSUME NEW o \in PipeNames
      PROVE  /\ Close(ps, r, w)[o].eof <=> (ps[o].eof \/ o = w)
             /\ Close(ps, r, w)[o].gone <=> (ps[o].gone \/ o = r)
             /\ Close(ps, r, w)[o].q = IF o = r THEN <<>> ELSE ps[o].q
    BY DEF Close, Pipes, Pipe
<1> HIDE DEF d
<1> QED BY <1>4, <1>5, <1>6

LEMMA CloseEnds ==
    ASSUME NEW ps \in Pipes, NEW r \in PipeNames, NEW w \in PipeNames, r # w, NEW o \in PipeNames
    PROVE  /\ Close(ps, r, w)[o].eof <=> (ps[o].eof \/ o = w)
           /\ Close(ps, r, w)[o].gone <=> (ps[o].gone \/ o = r)
BY ClosePipe

\* The writing end of p is closed.
LEMMA EndPipe ==
    ASSUME NEW ps \in Pipes, NEW p \in PipeNames
    PROVE  /\ [ps EXCEPT ![p].eof = TRUE] \in Pipes
           /\ \A o \in PipeNames : /\ [ps EXCEPT ![p].eof = TRUE][o].eof <=> (ps[o].eof \/ o = p)
                                   /\ [ps EXCEPT ![p].eof = TRUE][o].gone <=> ps[o].gone
                                   /\ [ps EXCEPT ![p].eof = TRUE][o].q = ps[o].q
BY DEF Pipes, Pipe

\* The reading end of p is closed.
Drop(ps, p) == [ps EXCEPT ![p].gone = TRUE, ![p].q = <<>>]

LEMMA DropPipe ==
    ASSUME NEW ps \in Pipes, NEW p \in PipeNames
    PROVE  /\ Drop(ps, p) \in Pipes
           /\ \A o \in PipeNames : /\ Drop(ps, p)[o].eof <=> ps[o].eof
                                   /\ Drop(ps, p)[o].gone <=> (ps[o].gone \/ o = p)
                                   /\ Drop(ps, p)[o].q = IF o = p THEN <<>> ELSE ps[o].q
<1> DEFINE a == [ps EXCEPT ![p].gone = TRUE]
           b == [a EXCEPT ![p].q = <<>>]
<1>1. a \in Pipes BY DEF Pipes, Pipe
<1>2. b \in Pipes
    <2> HIDE DEF a
    <2>1. <<>> \in Seq(Messages) OBVIOUS
    <2> QED BY <1>1, <2>1 DEF Pipes, Pipe
<1>3. ASSUME NEW o \in PipeNames
      PROVE  (b[o].eof <=> ps[o].eof) /\ (b[o].gone <=> (ps[o].gone \/ o = p))
             /\ b[o].q = IF o = p THEN <<>> ELSE ps[o].q
    BY DEF Pipes, Pipe
<1>4. Drop(ps, p) = b BY DEF Drop
<1> HIDE DEF b
<1> QED BY <1>2, <1>3, <1>4

\* An attachment keeps its route.
LEMMA RouteKept == [Next]_vars => route' = route
BY DEF Next, Reader, Writer, Outbound, Closer, Main, Frames, Resizes, Inputs, Happens, Finished,
       SessionAccepts, SessionReads, SessionLeaves, SessionWrites, SessionEnds, BridgeDials,
       BridgeOutbound, BridgeReturns, BridgeInbound, CloseSocket, CloseStdin, CloseStdout,
       ShutdownGraceExpires, SendRequest, ReadResponse, Start, Select, PickFrame, PickInput, Join,
       Return, FrameReads, FrameSizes, ResizeSizes, ResizeStops, InputCanceled, InputSends,
       SessionCrashes, TransportFails, Cancel, CommandCanceled, WindowChanges, InputReads, ViewFails,
       rest, vars

\* What a step does to the client's ends of the stream: nothing, as long as the
\* client has not begun to close it.
LEMMA PipeStep ==
    ASSUME TypeOK, BridgeInv, [Next]_vars
    PROVE  /\ pipe' \in Pipes
           /\ closer' = "open" => (pipe'[Down].gone <=> pipe[Down].gone) /\ (pipe'[Up].eof <=> pipe[Up].eof)
<1> DEFINE Goal ==
           /\ pipe' \in Pipes
           /\ closer' = "open" => (pipe'[Down].gone <=> pipe[Down].gone) /\ (pipe'[Up].eof <=> pipe[Up].eof)
<1> SUFFICES Goal OBVIOUS
<1>0. /\ pipe \in Pipes /\ Down \in PipeNames /\ Up \in PipeNames /\ Down # Up
      /\ route = "socket" => Down = "sockDown" /\ Up = "sockUp"
      /\ route # "socket" => Down = "stdout" /\ Up = "stdin"
    BY DEF TypeOK, Pipes, Down, Up, PipeNames
<1>1. CASE pipe' = pipe BY <1>0, <1>1
<1>2. ASSUME NEW m \in Messages, NEW p \in PipeNames, pipe' = Put(pipe, p, m) PROVE Goal
    BY <1>0, <1>2, PutPipe
<1>3. ASSUME NEW p \in PipeNames, CanRead(p), pipe' = Pop(pipe, p) PROVE Goal
    BY <1>0, <1>3, PopPipe DEF CanRead
<1>4. ASSUME NEW m \in Messages, NEW p \in PipeNames, NEW o \in PipeNames, CanRead(p), p # o,
             pipe' = Put(Pop(pipe, p), o, m)
      PROVE  Goal
    <2>1. Pop(pipe, p) \in Pipes BY <1>0, <1>4, PopPipe DEF CanRead
    <2> QED BY <1>0, <1>4, <2>1, PopPipe, PutPipe DEF CanRead
<1>5. ASSUME NEW p \in PipeNames, NEW o \in PipeNames, CanRead(p), p # o,
             pipe' = Pop(Put(pipe, o, Head(pipe[p].q)), p)
      PROVE  Goal
    <2> DEFINE m == Head(pipe[p].q)
               ps == Put(pipe, o, m)
    <2>1. m \in Messages /\ pipe[p].q # <<>> BY <1>0, <1>5, PopPipe DEF CanRead
    <2> HIDE DEF m
    <2>2. /\ ps \in Pipes /\ ps[p].q = pipe[p].q
          /\ \A x \in PipeNames : (ps[x].eof <=> pipe[x].eof) /\ (ps[x].gone <=> pipe[x].gone)
        BY <1>0, <1>5, <2>1, PutPipe
    <2> HIDE DEF ps
    <2>3. pipe' = Pop(ps, p) BY <1>5 DEF ps, m
    <2> QED BY <1>0, <2>1, <2>2, <2>3, PopPipe
<1>6. ASSUME NEW ps \in Pipes, pipe' = Close(ps, "sockUp", "sockDown"),
             \A x \in PipeNames : (ps[x].eof <=> pipe[x].eof) /\ (ps[x].gone <=> pipe[x].gone)
      PROVE  Goal
    <2>1. "sockUp" \in PipeNames /\ "sockDown" \in PipeNames BY DEF PipeNames
    <2>2. pipe' \in Pipes BY <1>6, <2>1, ClosePipe
    <2>3. \A o \in PipeNames : /\ pipe'[o].eof <=> (ps[o].eof \/ o = "sockDown")
                               /\ pipe'[o].gone <=> (ps[o].gone \/ o = "sockUp")
        BY <1>6, <2>1, CloseEnds
    <2> QED BY <1>0, <1>6, <2>2, <2>3
<1>7. ASSUME route # "socket" \/ closer' # "open", pipe' = Close(pipe, "sockDown", "sockUp") PROVE Goal
    <2>1. "sockUp" \in PipeNames /\ "sockDown" \in PipeNames BY DEF PipeNames
    <2>2. pipe' \in Pipes BY <1>0, <1>7, <2>1, ClosePipe
    <2>3. \A o \in PipeNames : /\ pipe'[o].eof <=> (pipe[o].eof \/ o = "sockUp")
                               /\ pipe'[o].gone <=> (pipe[o].gone \/ o = "sockDown")
        BY <1>0, <1>7, <2>1, CloseEnds
    <2> QED BY <1>0, <1>7, <2>2, <2>3
<1>8. ASSUME route # "socket", pipe' = Close(pipe, "stdin", "stdout") PROVE Goal
    <2>1. "stdin" \in PipeNames /\ "stdout" \in PipeNames BY DEF PipeNames
    <2> QED BY <1>0, <1>8, <2>1, ClosePipe
<1>9. ASSUME ProcessDies PROVE Goal
    <2>1. /\ "stdin" \in PipeNames /\ "stdout" \in PipeNames
          /\ "sockUp" \in PipeNames /\ "sockDown" \in PipeNames
        BY DEF PipeNames
    <2>2. route # "socket" BY <1>9 DEF ProcessDies, BridgeInv
    <2> DEFINE ps == Close(pipe, "stdin", "stdout")
    <2>3. ps \in Pipes BY <1>0, <2>1, ClosePipe
    <2>4. \A o \in PipeNames : /\ ps[o].eof <=> (pipe[o].eof \/ o = "stdout")
                               /\ ps[o].gone <=> (pipe[o].gone \/ o = "stdin")
        BY <1>0, <2>1, CloseEnds
    <2> HIDE DEF ps
    <2>5. pipe' = Close(ps, "sockDown", "sockUp") BY <1>9 DEF ProcessDies, ps
    <2>6. /\ pipe' \in Pipes
          /\ \A o \in PipeNames : /\ pipe'[o].eof <=> (ps[o].eof \/ o = "sockUp")
                                  /\ pipe'[o].gone <=> (ps[o].gone \/ o = "sockDown")
        <3>1. pipe' \in Pipes BY <2>1, <2>3, <2>5, ClosePipe
        <3> QED BY <2>1, <2>3, <2>5, <3>1, CloseEnds
    <2> QED BY <1>0, <2>2, <2>4, <2>6
<1>10. ASSUME NEW p \in PipeNames, pipe' = [pipe EXCEPT ![p].eof = TRUE], p # Up \/ closer' # "open"
       PROVE  Goal
    BY <1>0, <1>10, EndPipe
<1>11. ASSUME pipe' = [pipe EXCEPT !["stdout"].gone = TRUE, !["stdout"].q = <<>>], closer' # "open"
       PROVE  Goal
    <2>1. "stdout" \in PipeNames BY DEF PipeNames
    <2>2. pipe' = Drop(pipe, "stdout") BY <1>11 DEF Drop
    <2> QED BY <1>0, <1>11, <2>1, <2>2, DropPipe
<1>12. ASSUME NEW ps \in Pipes, NEW x \in Messages
       PROVE  /\ Put(ps, "sockDown", x) \in Pipes
              /\ \A o \in PipeNames : /\ Put(ps, "sockDown", x)[o].eof <=> ps[o].eof
                                      /\ Put(ps, "sockDown", x)[o].gone <=> ps[o].gone
    <2>1. "sockDown" \in PipeNames BY DEF PipeNames
    <2> QED BY <2>1, PutPipe
<1> HIDE DEF Goal
<1>20. CASE Reader \/ Writer
    <2> USE <1>0 DEF PipeNames, Messages
    <2>1. CASE SessionAccepts
        <3> DEFINE ps == Put(Pop(pipe, "sockUp"), "sockDown", "refused")
        <3>1. CASE pipe' = Put(Pop(pipe, "sockUp"), "sockDown", "ok")
            BY <1>4, <2>1, <3>1 DEF SessionAccepts
        <3>2. CASE pipe' = Close(ps, "sockUp", "sockDown")
            <4>1. Pop(pipe, "sockUp") \in Pipes BY <2>1, PopPipe DEF SessionAccepts, CanRead
            <4>2. /\ ps \in Pipes
                  /\ \A x \in PipeNames : (ps[x].eof <=> pipe[x].eof) /\ (ps[x].gone <=> pipe[x].gone)
                <5> DEFINE pp == Pop(pipe, "sockUp")
                <5>1. \A x \in PipeNames : (pp[x].eof <=> pipe[x].eof) /\ (pp[x].gone <=> pipe[x].gone)
                    BY <2>1, PopPipe DEF SessionAccepts, CanRead
                <5> HIDE DEF pp
                <5>2. ps = Put(pp, "sockDown", "refused") /\ pp \in Pipes BY <4>1 DEF pp
                <5> HIDE DEF ps
                <5> QED BY <1>12, <5>1, <5>2
            <4> QED BY <1>6, <3>2, <4>2
        <3> QED BY <2>1, <3>1, <3>2 DEF SessionAccepts
    <2>2. CASE SessionReads
        BY <1>1, <1>3, <2>2 DEF SessionReads
    <2>3. CASE SessionLeaves
        BY <1>6, <2>3 DEF SessionLeaves
    <2>4. CASE SessionWrites
        BY <1>2, <2>4 DEF SessionWrites
    <2>5. CASE SessionEnds
        <3> DEFINE ps == Put(pipe, "sockDown", "ended")
        <3>1. /\ ps \in Pipes
              /\ \A x \in PipeNames : (ps[x].eof <=> pipe[x].eof) /\ (ps[x].gone <=> pipe[x].gone)
            BY <1>12
        <3>2. pipe' = Close(ps, "sockUp", "sockDown") BY <2>5 DEF SessionEnds
        <3> QED BY <1>6, <3>1, <3>2
    <2> QED BY <1>20, <2>1, <2>2, <2>3, <2>4, <2>5 DEF Reader, Writer
<1>21. CASE Outbound \/ BridgeInbound
    <2> USE <1>0 DEF PipeNames, Messages
    <2>0. route # "socket"
        BY <1>21 DEF Outbound, BridgeInbound, BridgeDials, BridgeOutbound, BridgeReturns, BridgeInv
    <2>1. CASE BridgeDials BY <1>1, <1>8, <2>0, <2>1 DEF BridgeDials
    <2>2. CASE BridgeOutbound BY <1>5, <1>8, <2>0, <2>2 DEF BridgeOutbound
    <2>3. CASE BridgeReturns BY <1>7, <2>0, <2>3 DEF BridgeReturns
    <2>4. CASE BridgeInbound
        <3>1. \/ CanRead("stdin") /\ pipe' = Pop(Put(pipe, "sockUp", Head(pipe["stdin"].q)), "stdin")
              \/ pipe' = [pipe EXCEPT !["sockUp"].eof = TRUE]
              \/ pipe' = Close(pipe, "sockDown", "sockUp")
            BY <2>4 DEF BridgeInbound
        <3>2. CASE CanRead("stdin") /\ pipe' = Pop(Put(pipe, "sockUp", Head(pipe["stdin"].q)), "stdin")
            BY <1>5, <3>2
        <3>3. CASE pipe' = [pipe EXCEPT !["sockUp"].eof = TRUE]
            BY <1>10, <2>0, <3>3
        <3>4. CASE pipe' = Close(pipe, "sockDown", "sockUp")
            BY <1>7, <2>0, <3>4
        <3> QED BY <3>1, <3>2, <3>3, <3>4
    <2> QED BY <1>21, <2>1, <2>2, <2>3, <2>4 DEF Outbound
<1>22. CASE Closer
    <2> USE <1>0 DEF PipeNames
    <2>1. CASE CloseSocket BY <1>7, <2>1 DEF CloseSocket
    <2>2. CASE CloseStdin BY <1>10, <2>2 DEF CloseStdin, outer
    <2>3. CASE CloseStdout BY <1>11, <2>3 DEF CloseStdout
    <2>4. CASE ShutdownGraceExpires BY <1>1, <1>9, <2>4 DEF ShutdownGraceExpires, Kill
    <2> QED BY <1>22, <2>1, <2>2, <2>3, <2>4 DEF Closer
<1>23. CASE Main
    <2> USE <1>0 DEF Messages
    <2>1. CASE SendRequest BY <1>1, <1>2, <2>1 DEF SendRequest, EarlyReturn
    <2>2. CASE ReadResponse BY <1>1, <1>3, <2>2 DEF ReadResponse, EarlyReturn
    <2>3. CASE Start BY <1>1, <1>2, <2>3 DEF Start, EarlyReturn
    <2> QED BY <1>1, <1>23, <2>1, <2>2, <2>3 DEF Main, Select, PickFrame, PickInput, Join, Return
<1>24. CASE Frames \/ Resizes \/ Inputs
    <2> USE <1>0 DEF Messages
    <2>1. CASE FrameReads BY <1>1, <1>3, <2>1 DEF FrameReads
    <2>2. CASE FrameSizes \/ ResizeSizes \/ InputSends
        BY <1>1, <1>2, <2>2 DEF FrameSizes, ResizeSizes, InputSends, SendSize, Send
    <2> QED BY <1>1, <1>24, <2>1, <2>2 DEF Frames, Resizes, Inputs, ResizeStops, InputCanceled
<1>25. CASE Happens
    <2>1. CASE SessionCrashes BY <1>0, <1>6, <2>1 DEF SessionCrashes
    <2>2. CASE TransportFails \/ CommandCanceled
        BY <1>1, <1>9, <2>2 DEF TransportFails, CommandCanceled, Kill
    <2> QED BY <1>1, <1>25, <2>1, <2>2 DEF Happens, Cancel, WindowChanges, InputReads, ViewFails
<1>26. CASE Finished \/ UNCHANGED vars BY <1>1, <1>26 DEF Finished, vars
<1> QED BY <1>20, <1>21, <1>22, <1>23, <1>24, <1>25, <1>26 DEF Next

-----------------------------------------------------------------------------
(* What the shape of the actions gives.                                    *)

\* What happens outside runTerminalAttach and its goroutines.
Outside ==
    \/ Reader \/ Writer \/ Outbound \/ BridgeInbound \/ Closer
    \/ SessionCrashes \/ TransportFails \/ Cancel \/ CommandCanceled

\* What its goroutines do.
Working == Frames \/ Resizes \/ Inputs \/ WindowChanges \/ InputReads \/ ViewFails

LEMMA NextParts == Next <=> Outside \/ Main \/ Working \/ Finished
BY DEF Next, Outside, Working, Happens

\* The session, the transport and the closer leave the client's loop alone.
LEMMA OutsideFrame ==
    ASSUME Outside
    PROVE  UNCHANGED <<main, stopped, workers>> /\ hit \subseteq hit'
BY DEF Outside, Reader, Writer, Outbound, Closer, SessionAccepts, SessionReads, SessionLeaves,
       SessionWrites, SessionEnds, BridgeDials, BridgeOutbound, BridgeReturns, BridgeInbound,
       CloseSocket, CloseStdin, CloseStdout, ShutdownGraceExpires, SessionCrashes, TransportFails,
       Cancel, CommandCanceled, Fault, outer

\* The goroutines leave everyone else alone.
LEMMA WorkingFrame ==
    ASSUME Working
    PROVE  UNCHANGED rest /\ hit \subseteq hit'
BY DEF Working, Frames, Resizes, Inputs, WindowChanges, InputReads, ViewFails, FrameReads,
       FrameSizes, ResizeSizes, ResizeStops, InputCanceled, InputSends, SendSize, Send, Fault, Broken,
       StreamEnded

\* The loop leaves the session and the transport alone, and once it runs, the
\* goroutines.
LEMMA MainFrame ==
    ASSUME Main
    PROVE  /\ UNCHANGED <<route, session, bridge, ctx>> /\ hit \subseteq hit'
           /\ UNCHANGED <<viewErr, shown, flags, events>>
           /\ UNCHANGED <<frame, input, resize>> \/ (Start /\ main'.pc = "select" /\ closer' = closer)
<1>1. CASE Start
    <2>1. CASE UNCHANGED workers
        BY <1>1, <2>1 DEF Start, Fault, Broken, workers
    <2>2. CASE ~UNCHANGED workers
        <3>1. main' = [main EXCEPT !.pc = "select"] /\ closer' = closer /\ UNCHANGED hit
              /\ UNCHANGED <<viewErr, shown, flags, events>>
            BY <1>1, <2>2 DEF Start, EarlyReturn
        <3> QED BY <1>1, <3>1 DEF Start
    <2> QED BY <2>1, <2>2
<1> QED BY <1>1 DEF Main, SendRequest, ReadResponse, Select, PickFrame, PickInput, Join, Return,
                EarlyReturn, workers

\* What befell the attachment stays on record.
LEMMA HitGrows == [Next]_vars => hit \subseteq hit'
BY NextParts, OutsideFrame, WorkingFrame, MainFrame DEF Finished, vars

-----------------------------------------------------------------------------
(* Types.                                                                  *)

OuterType ==
    /\ sess \in {"listening", "serving", "leaving", "gone"} /\ out \in Nat /\ endSent \in BOOLEAN
    /\ bridge \in Process
    /\ ctx \in BOOLEAN /\ stopped \in BOOLEAN /\ closer \in {"open", "closing", "closed"}

WorkerType ==
    /\ frame \in [pc : {"idle", "reading", "sizing", "done"}, err : Errors]
    /\ input \in [pc : {"idle", "reading", "sending", "detaching", "done"}, err : Errors]
    /\ resize \in [pc : {"idle", "waiting", "sizing", "done"}, err : Errors]
    /\ viewErr \in BOOLEAN /\ shown \in Nat
    /\ flags \in [detached : BOOLEAN, sessionEnded : BOOLEAN]
    /\ events \in Nat

LEMMA TypeParts ==
    TypeOK <=> /\ route \in {"socket", "bridge"} /\ pipe \in [PipeNames -> Pipe]
               /\ OuterType /\ main \in MainState /\ WorkerType
BY DEF TypeOK, OuterType, WorkerType

\* The session, the transport and the closer keep their types.
LEMMA OuterStep ==
    ASSUME OuterType, [Next]_vars
    PROVE  OuterType'
<1> USE DEF OuterType, Process
<1>1. CASE UNCHANGED <<session, bridge, ctx, stopped, closer>> BY <1>1 DEF session
<1>2. CASE Reader \/ Writer \/ SessionCrashes
    <2>1. CASE SessionAccepts BY <2>1 DEF SessionAccepts, outer
    <2>2. CASE SessionReads BY <2>2 DEF SessionReads, outer
    <2>3. CASE SessionLeaves BY <2>3 DEF SessionLeaves, outer
    <2>4. CASE SessionWrites BY <2>4 DEF SessionWrites, outer
    <2>5. CASE SessionEnds BY <2>5 DEF SessionEnds, outer
    <2>6. CASE SessionCrashes BY <2>6 DEF SessionCrashes, outer
    <2> QED BY <1>2, <2>1, <2>2, <2>3, <2>4, <2>5, <2>6 DEF Reader, Writer
<1>3. CASE Outbound \/ BridgeInbound \/ TransportFails \/ CommandCanceled
    <2>1. UNCHANGED <<session, ctx, stopped, closer>>
        BY <1>3 DEF Outbound, BridgeInbound, TransportFails, CommandCanceled, BridgeDials,
                    BridgeOutbound, BridgeReturns, outer
    <2>2. CASE BridgeDials BY <2>1, <2>2 DEF BridgeDials, session
    <2>3. CASE BridgeOutbound BY <2>1, <2>3 DEF BridgeOutbound, session
    <2>4. CASE BridgeReturns BY <2>1, <2>4 DEF BridgeReturns, session
    <2>5. CASE BridgeInbound BY <2>1, <2>5 DEF BridgeInbound, session
    <2>6. CASE ProcessDies BY <2>1, <2>6 DEF ProcessDies, session
    <2>7. CASE bridge' = [bridge EXCEPT !.failed = TRUE] BY <2>1, <2>7 DEF session
    <2> QED BY <1>3, <2>2, <2>3, <2>4, <2>5, <2>6, <2>7 DEF Outbound, TransportFails, CommandCanceled, Kill
<1>4. CASE Closer
    <2>1. CASE ShutdownGraceExpires
        BY <2>1 DEF ShutdownGraceExpires, Kill, ProcessDies, session, outer
    <2> QED BY <1>4, <2>1 DEF Closer, CloseSocket, CloseStdin, CloseStdout, session, outer
<1>5. CASE Cancel BY <1>5 DEF Cancel, StartClose, session
<1>6. CASE Main
    BY <1>6, MainFrame, ZenonT(30) DEF Main, SendRequest, ReadResponse, Start, EarlyReturn, Select, PickFrame,
                PickInput, Join, Return, StartClose, session
<1> QED BY <1>1, <1>2, <1>3, <1>4, <1>5, <1>6, NextParts, WorkingFrame
       DEF Outside, Finished, vars, rest, outer, session

\* The goroutines keep theirs.
LEMMA WorkerStep ==
    ASSUME WorkerType, [Next]_vars
    PROVE  WorkerType'
<1> USE DEF WorkerType, Errors
<1>1. CASE UNCHANGED workers BY <1>1 DEF workers
<1>2. CASE Main
    <2>1. UNCHANGED <<viewErr, shown, flags, events>> BY <1>2, MainFrame
    <2>2. CASE Start BY <1>1, <2>1, <2>2 DEF Start, EarlyReturn
    <2> QED BY <1>1, <1>2, <2>1, <2>2, MainFrame DEF workers
<1>4. CASE Frames
    <2>1. CASE FrameReads
        <3>1. \/ frame' = [frame EXCEPT !.pc = "sizing"] \/ frame' = frame
              \/ \E e \in Errors : frame' = Done(e)
            BY <2>1 DEF FrameReads, ReadError
        <3>2. frame' \in [pc : {"idle", "reading", "sizing", "done"}, err : Errors]
            BY <3>1 DEF Done
        <3>3. shown' \in Nat /\ UNCHANGED <<input, resize, viewErr, events>> BY <2>1 DEF FrameReads
        <3>4. flags' \in [detached : BOOLEAN, sessionEnded : BOOLEAN] BY <2>1 DEF FrameReads
        <3> QED BY <3>2, <3>3, <3>4
    <2>2. CASE FrameSizes BY <2>2 DEF FrameSizes, SendSize, Send, Done, WriteError
    <2> QED BY <1>4, <2>1, <2>2 DEF Frames
<1>5. CASE Resizes
    <2>1. CASE ResizeSizes BY <2>1 DEF ResizeSizes, SendSize, Send, Done, WriteError
    <2>2. CASE ResizeStops BY <2>2 DEF ResizeStops
    <2> QED BY <1>5, <2>1, <2>2 DEF Resizes
<1>6. CASE Inputs
    <2>1. CASE InputSends
        <3>1. input' = [input EXCEPT !.pc = "reading"] \/ \E e \in Errors : input' = Done(e)
            BY <2>1 DEF InputSends, Send, WriteError
        <3>2. input' \in [pc : {"idle", "reading", "sending", "detaching", "done"}, err : Errors]
            BY <3>1 DEF Done
        <3>3. UNCHANGED <<frame, resize, viewErr, shown, events>> BY <2>1 DEF InputSends
        <3>4. \E b \in BOOLEAN : flags' = [flags EXCEPT !.detached = b] BY <2>1 DEF InputSends
        <3>5. flags' \in [detached : BOOLEAN, sessionEnded : BOOLEAN] BY <3>4
        <3> QED BY <3>2, <3>3, <3>5
    <2>2. CASE InputCanceled BY <2>2 DEF InputCanceled, Done
    <2> QED BY <1>6, <2>1, <2>2 DEF Inputs
<1>7. CASE WindowChanges BY <1>7 DEF WindowChanges
<1>8. CASE InputReads BY <1>8 DEF InputReads, Done
<1>9. CASE ViewFails BY <1>9 DEF ViewFails
<1> QED BY <1>1, <1>2, <1>4, <1>5, <1>6, <1>7, <1>8, <1>9, NextParts, OutsideFrame
       DEF Working, Finished, vars, workers

\* The loop keeps its.
LEMMA MainStep ==
    ASSUME TypeOK, [Next]_vars
    PROVE  main' \in MainState
<1> USE DEF MainState, Looping, Errors
<1>1. CASE main' = main BY <1>1 DEF TypeOK
<1>2. CASE Main
    <2>0. main \in MainState BY DEF TypeOK
    <2>1. ASSUME NEW err \in Errors, NEW o \in {"none", "aborted"}, EarlyReturn(err, o)
          PROVE  main' \in MainState
        BY <2>0, <2>1, ZenonT(30) DEF EarlyReturn
    <2>2. CASE SendRequest BY <2>0, <2>1, <2>2 DEF SendRequest
    <2>3. CASE ReadResponse BY <2>0, <2>1, <2>3 DEF ReadResponse
    <2>4. CASE Start BY <2>0, <2>1, <2>4 DEF Start, WriteError
    <2>10. \A e \in Errors, b \in BOOLEAN : Unexpected(e, b) \in SUBSET Errors BY DEF Unexpected
    <2>11. frame.err \in Errors /\ input.err \in Errors /\ resize.err \in Errors BY DEF TypeOK
    <2>5. CASE Select
        <3>1. PICK R \in SUBSET Errors, a \in BOOLEAN, b \in BOOLEAN, c \in BOOLEAN :
                 main' = [main EXCEPT !.pc = "pickFrame", !.shuttingDown = ctx, !.frameDone = a,
                                      !.inputDone = b, !.resizeTaken = c, !.result = R]
            <4> DEFINE Err(c) == CASE c = "resize" -> resize.err [] c = "input" -> input.err
                                   [] c = "view" -> "local" [] OTHER -> "nil"
                       Res(c) == IF ctx THEN {"ctx"} \cup Unexpected(Err(c), TRUE) ELSE {Err(c)} \ {"nil"}
            <4>1. PICK c \in {"ctx", "resize", "frame", "input", "view"} :
                     main' = [main EXCEPT !.pc = "pickFrame", !.shuttingDown = ctx,
                                          !.frameDone = c = "frame", !.inputDone = c = "input",
                                          !.resizeTaken = c = "resize", !.result = Res(c)]
                BY <2>5 DEF Select
            <4>2. Err(c) \in Errors BY <2>11
            <4> HIDE DEF Err
            <4>3. Res(c) \in SUBSET Errors BY <2>10, <4>2
            <4> HIDE DEF Res
            <4> QED BY <4>1, <4>3
        <3>2. ctx \in BOOLEAN BY DEF TypeOK
        <3> QED BY <2>0, <3>1, <3>2, ZenonT(30)
    <2>6. CASE PickFrame BY <2>0, <2>6 DEF PickFrame
    <2>7. CASE PickInput
        <3>1. PICK R \in SUBSET Errors, a \in BOOLEAN, b \in BOOLEAN :
                 main' = [main EXCEPT !.pc = "join", !.inputDone = a, !.result = R, !.terminated = b]
            <4> DEFINE R == IF main.inputDone THEN main.result
                            ELSE main.result \cup Unexpected(input.err, main.shuttingDown)
                       a == main.inputDone \/ input.err # "none"
                       b == RemoteStreamTerminated
            <4>1. main' = [main EXCEPT !.pc = "join", !.inputDone = a, !.result = R, !.terminated = b]
                BY <2>7 DEF PickInput
            <4>2. Unexpected(input.err, main.shuttingDown) \in SUBSET Errors BY <2>0, <2>10, <2>11
            <4>3. R \in SUBSET Errors BY <2>0, <4>2
            <4>4. a \in BOOLEAN /\ b \in BOOLEAN BY <2>0 DEF RemoteStreamTerminated
            <4> HIDE DEF R, a, b
            <4> QED BY <4>1, <4>3, <4>4
        <3> QED BY <2>0, <3>1
    <2>8. CASE Join
        <3>1. PICK R \in SUBSET Errors, o \in {"detached", "ended", "disconnected", "aborted"} :
                 main' = [main EXCEPT !.pc = "defer", !.result = R, !.outcome = o]
            <4> DEFINE R == main.result \cup (IF main.resizeTaken THEN {} ELSE Unexpected(resize.err, TRUE))
                              \cup (IF main.inputDone THEN {} ELSE Unexpected(input.err, TRUE))
                              \cup Unexpected(frame.err, main.shuttingDown \/ ~main.frameDone
                                                                           \/ flags.detached)
                       o == IF flags.detached THEN "detached" ELSE IF flags.sessionEnded THEN "ended"
                            ELSE IF main.terminated THEN "disconnected" ELSE "aborted"
            <4>1. main' = [main EXCEPT !.pc = "defer", !.result = R, !.outcome = o]
                BY <2>8 DEF Join
            <4>2. /\ Unexpected(resize.err, TRUE) \in SUBSET Errors
                  /\ Unexpected(input.err, TRUE) \in SUBSET Errors
                  /\ \A b \in BOOLEAN : Unexpected(frame.err, b) \in SUBSET Errors
                BY <2>10, <2>11, ZenonT(30)
            <4>3. (main.shuttingDown \/ ~main.frameDone \/ flags.detached) \in BOOLEAN OBVIOUS
            <4>4. R \in SUBSET Errors BY <2>0, <4>2, <4>3
            <4>5. o \in {"detached", "ended", "disconnected", "aborted"} OBVIOUS
            <4> HIDE DEF R, o
            <4> QED BY <4>1, <4>4, <4>5
        <3> QED BY <2>0, <3>1
    <2>9. CASE Return BY <2>0, <2>9 DEF Return
    <2> QED BY <1>2, <2>2, <2>3, <2>4, <2>5, <2>6, <2>7, <2>8, <2>9 DEF Main
<1> QED BY <1>1, <1>2, NextParts, OutsideFrame, WorkingFrame DEF Finished, vars, rest, outer

LEMMA TypeStep ==
    ASSUME TypeOK, BridgeInv, [Next]_vars
    PROVE  TypeOK'
<1>1. OuterType' /\ WorkerType' BY TypeParts, OuterStep, WorkerStep
<1>2. main' \in MainState BY MainStep
<1>3. pipe' \in [PipeNames -> Pipe] BY PipeStep DEF Pipes
<1>4. route' \in {"socket", "bridge"} BY RouteKept DEF TypeOK
<1> QED BY <1>1, <1>2, <1>3, <1>4 DEF TypeOK, OuterType, WorkerType

-----------------------------------------------------------------------------
(* Nothing is left behind.                                                 *)

\* The transport process is gone before the stream counts as closed.
LEMMA BridgeStep ==
    ASSUME TypeOK, BridgeInv, [Next]_vars
    PROVE  BridgeInv'
<1>1. route' = route BY RouteKept
<1>2. CASE UNCHANGED bridge /\ (closer' = "closed" => closer = "closed")
    BY <1>1, <1>2 DEF BridgeInv, Reaped
<1>3. CASE Outbound \/ BridgeInbound
    <2>1. closer' = closer
        BY <1>3 DEF Outbound, BridgeInbound, BridgeDials, BridgeOutbound, BridgeReturns, outer
    <2>2. \/ route # "socket" /\ closer # "closed"
          \/ BridgeInbound /\ route # "socket" /\ bridge'.out = bridge.out /\ bridge'.kind = bridge.kind
        BY <1>3 DEF Outbound, BridgeInbound, BridgeDials, BridgeOutbound, BridgeReturns, BridgeInv,
           Reaped, TypeOK, Process
    <2> QED BY <1>1, <2>1, <2>2 DEF BridgeInv, Reaped
<1>4. CASE ShutdownGraceExpires \/ TransportFails \/ CommandCanceled
    <2>1. bridge.out # "exited" /\ closer' = closer
        BY <1>4 DEF ShutdownGraceExpires, TransportFails, CommandCanceled, Kill, ProcessDies, outer
    <2>2. route # "socket" /\ closer # "closed" BY <2>1 DEF BridgeInv, Reaped
    <2> QED BY <1>1, <2>1, <2>2 DEF BridgeInv
<1>5. CASE CloseSocket BY <1>1, <1>5 DEF CloseSocket, BridgeInv, Reaped
<1>6. CASE CloseStdout BY <1>1, <1>6 DEF CloseStdout, BridgeInv, Reaped
<1>7. CASE Reader \/ Writer \/ SessionCrashes \/ Cancel \/ CloseStdin
    BY <1>2, <1>7 DEF Reader, Writer, SessionAccepts, SessionReads, SessionLeaves, SessionWrites,
                SessionEnds, SessionCrashes, Cancel, CloseStdin, StartClose, outer
<1>8. CASE Main
    <2>1. closer' = closer \/ closer' = StartClose(closer)
        BY <1>8 DEF Main, SendRequest, ReadResponse, Start, EarlyReturn, Select, PickFrame,
                PickInput, Join, Return
    <2> QED BY <1>2, <1>8, <2>1, MainFrame DEF StartClose
<1>9. CASE Working BY <1>2, <1>9, WorkingFrame DEF rest, outer
<1>10. CASE Finished \/ UNCHANGED vars BY <1>2, <1>10 DEF Finished, vars
<1> QED BY <1>3, <1>4, <1>5, <1>6, <1>7, <1>8, <1>9, <1>10, NextParts DEF Outside, Closer

\* A goroutine that is not running takes no step.
LEMMA IdleWorkers ==
    ASSUME TypeOK, Working
    PROVE  /\ frame.pc \in {"idle", "done"} => frame' = frame
           /\ input.pc \in {"idle", "done"} => input' = input
           /\ resize.pc \in {"idle", "done"} => resize' = resize
BY DEF Working, Frames, Resizes, Inputs, WindowChanges, InputReads, ViewFails, FrameReads, FrameSizes,
       ResizeSizes, ResizeStops, InputCanceled, InputSends

\* What an early return of Attach leaves.
LEMMA EarlyReturned ==
    ASSUME TypeOK, NEW err \in Errors, NEW o \in {"none", "aborted"}, EarlyReturn(err, o)
    PROVE  /\ main'.pc = "defer" /\ main'.outcome = o
           /\ main'.result = {err} \/ (ctx /\ main'.result = {"ctx"})
           /\ closer' = StartClose(closer) /\ UNCHANGED <<frame, input, resize, flags, pipe>>
<1>1. main \in MainState BY DEF TypeOK
<1> QED BY <1>1 DEF EarlyReturn, workers, MainState

\* The three steps of Attach before the loop: on, or out.
LEMMA BeforeLoop ==
    ASSUME TypeOK, SendRequest \/ ReadResponse \/ Start
    PROVE  /\ main.pc \in {"request", "response", "start"}
           /\ \/ /\ main'.pc = "response" \/ main'.pc = "start"
                 /\ UNCHANGED <<frame, input, resize, closer>>
              \/ /\ main'.pc = "select"
                 /\ frame' = [frame EXCEPT !.pc = "reading"] /\ input' = [input EXCEPT !.pc = "reading"]
                 /\ resize' = [resize EXCEPT !.pc = "waiting"] /\ UNCHANGED closer
              \/ \E err \in Errors \ {"none", "nil", "detached"}, o \in {"none", "aborted"} :
                    EarlyReturn(err, o)
<1>0. main \in MainState BY DEF TypeOK
<1>1. CASE SendRequest BY <1>0, <1>1 DEF SendRequest, workers, MainState, Errors
<1>2. CASE ReadResponse BY <1>0, <1>2 DEF ReadResponse, workers, MainState, Errors
<1>3. CASE Start
    <2>1. CASE CanWrite(Up) /\ pipe' = Put(pipe, Up, "data")
               /\ main' = [main EXCEPT !.pc = "select"]
               /\ frame' = [frame EXCEPT !.pc = "reading"]
               /\ input' = [input EXCEPT !.pc = "reading"]
               /\ resize' = [resize EXCEPT !.pc = "waiting"] /\ UNCHANGED closer
        BY <1>0, <1>3, <2>1 DEF Start, MainState
    <2>2. CASE EarlyReturn(WriteError(Up), "aborted")
        <3>1. WriteError(Up) \in Errors \ {"none", "nil", "detached"} BY DEF WriteError, Errors
        <3> QED BY <1>3, <2>2, <3>1 DEF Start
    <2>3. CASE EarlyReturn("local", "aborted")
        <3>1. "local" \in Errors \ {"none", "nil", "detached"} BY DEF Errors
        <3> QED BY <1>3, <2>3, <3>1 DEF Start
    <2> QED BY <1>3, <2>1, <2>2, <2>3 DEF Start
<1> QED BY <1>1, <1>2, <1>3

\* Goroutines start with the loop and have ended when it is left.
LEMMA GoStep ==
    ASSUME TypeOK, GoInv, [Next]_vars
    PROVE  GoInv'
<1> USE DEF GoInv
<1>1. CASE UNCHANGED <<main, frame, input, resize>> /\ (closer = "closed" => closer' = "closed")
    BY <1>1
<1>2. CASE Outside
    <2>1. closer = "closed" => closer' = "closed"
        BY <1>2 DEF Outside, Reader, Writer, Outbound, Closer, SessionAccepts, SessionReads, SessionLeaves,
           SessionWrites, SessionEnds, BridgeDials, BridgeOutbound, BridgeReturns, BridgeInbound,
           CloseSocket, CloseStdin, CloseStdout, ShutdownGraceExpires, SessionCrashes, TransportFails,
           Cancel, CommandCanceled, StartClose, outer
    <2> QED BY <1>1, <1>2, <2>1, OutsideFrame DEF workers
<1>3. CASE Working
    <2>1. UNCHANGED <<main, closer>> BY <1>3, WorkingFrame DEF rest, outer
    <2> QED BY <1>3, <2>1, IdleWorkers
<1>4. CASE Main
    <2>1. CASE SendRequest \/ ReadResponse \/ Start
        <3>1. CASE \E err \in Errors \ {"none", "nil", "detached"}, o \in {"none", "aborted"} :
                      EarlyReturn(err, o)
            <4>1. main'.pc = "defer" /\ UNCHANGED <<frame, input, resize>> BY <3>1, EarlyReturned
            <4> QED BY <2>1, <4>1, BeforeLoop
        <3>2. CASE main'.pc = "select" BY <3>2
        <3> QED BY <2>1, <3>1, <3>2, BeforeLoop
    <2> USE DEF TypeOK, MainState
    <2>4. CASE Select BY <2>4 DEF Select, workers
    <2>5. CASE PickFrame BY <2>5 DEF PickFrame, workers
    <2>6. CASE PickInput BY <2>6 DEF PickInput, workers
    <2>7. CASE Join BY <2>7 DEF Join, WorkersEnded, workers
    <2>8. CASE Return BY <2>8 DEF Return, workers
    <2> QED BY <1>4, <2>1, <2>4, <2>5, <2>6, <2>7, <2>8 DEF Main
<1>5. CASE Finished \/ UNCHANGED vars BY <1>1, <1>5 DEF Finished, vars
<1> QED BY <1>2, <1>3, <1>4, <1>5, NextParts

-----------------------------------------------------------------------------
(* Who closes the stream, and what the goroutines report.                  *)

\* The stream is closed once, by a cancelation, an early return or the end of
\* the loop.
LEMMA CloserMoves ==
    ASSUME TypeOK, [Next]_vars
    PROVE  /\ closer # "open" => closer' # "open"
           /\ closer = "open" /\ closer' # "open" =>
                 Cancel \/ (Main /\ main'.pc \in {"join", "defer"})
           /\ ctx' # ctx => Cancel
<1>1. CASE Outside
    BY <1>1 DEF Outside, Reader, Writer, Outbound, Closer, SessionAccepts, SessionReads, SessionLeaves,
       SessionWrites, SessionEnds, BridgeDials, BridgeOutbound, BridgeReturns, BridgeInbound,
       CloseSocket, CloseStdin, CloseStdout, ShutdownGraceExpires, SessionCrashes, TransportFails,
       Cancel, CommandCanceled, StartClose, outer
<1>2. CASE Working BY <1>2, WorkingFrame DEF rest, outer
<1>3. CASE Main
    <2>1. ctx' = ctx BY <1>3, MainFrame
    <2>2. CASE SendRequest \/ ReadResponse \/ Start
        <3>1. CASE \E err \in Errors \ {"none", "nil", "detached"}, o \in {"none", "aborted"} :
                      EarlyReturn(err, o)
            BY <1>3, <2>1, <3>1, EarlyReturned DEF StartClose
        <3> QED BY <1>3, <2>1, <2>2, <3>1, BeforeLoop
    <2>3. CASE PickInput
        <3>1. main'.pc = "join" BY <2>3 DEF PickInput, TypeOK, MainState
        <3> QED BY <1>3, <2>1, <2>3, <3>1 DEF PickInput, StartClose
    <2> QED BY <1>3, <2>1, <2>2, <2>3 DEF Main, Select, PickFrame, Join, Return
<1>4. CASE Finished \/ UNCHANGED vars BY <1>4 DEF Finished, vars
<1> QED BY <1>1, <1>2, <1>3, <1>4, NextParts

\* Before the loop is left, only a cancelation closes the stream.
LEMMA CloseStep ==
    ASSUME TypeOK, BridgeInv, CloseInv, [Next]_vars
    PROVE  CloseInv'
<1>1. closer' = "open" => ~pipe'[Down].gone /\ ~pipe'[Up].eof
    BY PipeStep, CloserMoves DEF CloseInv
<1>2. Down' = Down /\ Up' = Up BY RouteKept DEF Down, Up
<1>3. ctx' => "cancel" \in hit'
    BY CloserMoves, HitGrows DEF CloseInv, Cancel, Fault
<1>4. Cancel => ctx' /\ main' = main BY DEF Cancel
<1>5. main'.pc \notin {"join", "defer", "returned"} => main.pc \notin {"join", "defer", "returned"}
    <2>1. CASE Main
        <3>1. main \in MainState BY DEF TypeOK
        <3> QED BY <2>1, <3>1 DEF Main, SendRequest, ReadResponse, Start, Select, PickFrame, PickInput,
                Join, Return, MainState
    <2> QED BY <2>1, NextParts, OutsideFrame, WorkingFrame DEF Finished, vars, rest, outer
<1>6. ctx => ctx' BY CloserMoves DEF TypeOK, Cancel
<1>7. main'.pc \notin {"join", "defer", "returned"} /\ closer' # "open" => ctx'
    BY <1>4, <1>5, <1>6, CloserMoves DEF CloseInv
<1> QED BY <1>1, <1>2, <1>3, <1>7 DEF CloseInv

\* What a goroutine is told of a failed write or read of the stream.
LEMMA StreamErrors ==
    ASSUME TypeOK, CloseInv
    PROVE  /\ WriteError(Up) \in {"closed", "broken"} /\ (WriteError(Up) = "closed" => closer # "open")
           /\ ReadError(Down) \in {"closed", "eof", "reset"} /\ (ReadError(Down) = "closed" => closer # "open")
BY DEF WriteError, ReadError, CloseInv

FrameErrInv ==
    /\ (frame.err # "none") <=> (frame.pc = "done")
    /\ frame.err \in {"none", "nil", "eof", "reset", "closed", "broken", "local"}
    /\ frame.err = "closed" => closer # "open"
    /\ frame.err = "nil" => flags.sessionEnded

InputErrInv ==
    /\ (input.err # "none") <=> (input.pc = "done")
    /\ input.err \in {"none", "nil", "closed", "broken", "canceled", "local", "detached"}
    /\ input.err = "nil" => "eof" \in hit
    /\ flags.detached <=> input.err = "detached"

ResizeErrInv == resize.err \in {"none", "closed", "broken", "local"}

\* A goroutine's report is true and final.
LEMMA ErrStep ==
    ASSUME TypeOK, GoInv, CloseInv, ErrInv, [Next]_vars
    PROVE  ErrInv'
<1>0. FrameErrInv /\ InputErrInv /\ ResizeErrInv
    BY DEF ErrInv, FrameErrInv, InputErrInv, ResizeErrInv
<1>1. hit \subseteq hit' /\ (closer # "open" => closer' # "open") BY HitGrows, CloserMoves
<1>2. CASE UNCHANGED <<frame, input, resize, flags>> BY <1>1, <1>2 DEF ErrInv
<1>3. CASE Outside BY <1>2, <1>3, OutsideFrame DEF workers
<1>4. CASE Main
    <2>1. CASE SendRequest \/ ReadResponse \/ Start
        <3>1. CASE \E err \in Errors \ {"none", "nil", "detached"}, o \in {"none", "aborted"} :
                      EarlyReturn(err, o)
            BY <1>2, <3>1, EarlyReturned
        <3>2. CASE /\ frame' = [frame EXCEPT !.pc = "reading"] /\ input' = [input EXCEPT !.pc = "reading"]
                   /\ resize' = [resize EXCEPT !.pc = "waiting"]
            <4>1. frame.pc = "idle" /\ input.pc = "idle" BY <2>1, BeforeLoop DEF GoInv
            <4>2. flags' = flags BY <1>4, MainFrame
            <4>3. /\ frame'.pc = "reading" /\ input'.pc = "reading"
                  /\ frame'.err = frame.err /\ input'.err = input.err /\ resize'.err = resize.err
                BY <3>2 DEF TypeOK
            <4> QED BY <1>1, <4>1, <4>2, <4>3 DEF ErrInv
        <3> QED BY <1>2, <1>4, <2>1, <3>1, <3>2, BeforeLoop, MainFrame
    <2> QED BY <1>2, <1>4, <2>1, MainFrame DEF Main, Select, PickFrame, PickInput, Join, Return, workers
<1>5. CASE Working
    <2>0. UNCHANGED closer BY <1>5, WorkingFrame DEF rest, outer
    <2>1. FrameErrInv'
        <3>1. CASE FrameReads
            <4>1. CASE frame' = [frame EXCEPT !.pc = "sizing"] \/ frame' = frame
                <5>1. frame'.pc # "done" /\ frame'.err = frame.err /\ frame.pc = "reading"
                    BY <3>1, <4>1 DEF FrameReads, TypeOK
                <5> QED BY <1>0, <5>1 DEF FrameErrInv
            <4>2. CASE frame' = Done("local") BY <4>2 DEF Done, FrameErrInv
            <4>3. CASE frame' = Done("nil") /\ flags' = [flags EXCEPT !.sessionEnded = TRUE]
                BY <4>3 DEF Done, FrameErrInv, TypeOK
            <4>4. CASE frame' = Done(ReadError(Down))
                <5>1. frame'.pc = "done" /\ frame'.err = ReadError(Down) BY <4>4 DEF Done
                <5> QED BY <2>0, <5>1, StreamErrors DEF FrameErrInv
            <4> QED BY <3>1, <4>1, <4>2, <4>3, <4>4 DEF FrameReads
        <3>2. CASE FrameSizes
            <4>1. flags' = flags BY <3>2 DEF FrameSizes
            <4>2. CASE frame' = [frame EXCEPT !.pc = "reading"]
                <5>1. frame'.pc # "done" /\ frame'.err = frame.err /\ frame.pc = "sizing"
                    BY <3>2, <4>2 DEF FrameSizes, TypeOK
                <5> QED BY <1>0, <5>1 DEF FrameErrInv
            <4>3. CASE frame' = Done("local") BY <4>3 DEF Done, FrameErrInv
            <4>4. CASE frame' = Done(WriteError(Up))
                <5>1. frame'.pc = "done" /\ frame'.err = WriteError(Up) BY <4>4 DEF Done
                <5> QED BY <2>0, <5>1, StreamErrors DEF FrameErrInv
            <4> QED BY <3>2, <4>2, <4>3, <4>4 DEF FrameSizes, SendSize, Send
        <3>3. CASE ~Frames
            <4>1. frame' = frame /\ (flags' = flags \/ InputSends)
                BY <1>5, <3>3 DEF Working, Resizes, Inputs, ResizeSizes, ResizeStops, InputCanceled,
                   InputSends, WindowChanges, InputReads, ViewFails
            <4>2. flags'.sessionEnded = flags.sessionEnded BY <4>1 DEF InputSends, TypeOK
            <4> QED BY <1>0, <2>0, <4>1, <4>2 DEF FrameErrInv
        <3> QED BY <3>1, <3>2, <3>3 DEF Frames
    <2>2. InputErrInv'
        <3>1. CASE InputReads
            <4>1. flags' = flags /\ input.err = "none" /\ ~flags.detached
                BY <1>0, <3>1 DEF InputReads, InputErrInv, TypeOK
            <4>2. CASE input' = [input EXCEPT !.pc = "sending"] \/ input' = [input EXCEPT !.pc = "detaching"]
                <5>1. input'.pc # "done" /\ input'.err = "none" BY <4>1, <4>2 DEF TypeOK
                <5> QED BY <4>1, <5>1 DEF InputErrInv
            <4>3. CASE input' = Done("nil") /\ hit' = hit \cup {"eof"}
                BY <4>1, <4>3 DEF Done, InputErrInv
            <4>4. CASE input' = Done("local")
                BY <4>1, <4>4 DEF Done, InputErrInv
            <4> QED BY <3>1, <4>2, <4>3, <4>4 DEF InputReads
        <3>2. CASE InputCanceled
            BY <1>0, <3>2 DEF InputCanceled, InputErrInv, Done, TypeOK
        <3>3. CASE InputSends
            <4>1. flags'.detached <=> input'.err = "detached"
                <5> DEFINE b == input'.err = "detached"
                <5>1. flags' = [flags EXCEPT !.detached = b] BY <3>3 DEF InputSends
                <5> HIDE DEF b
                <5>2. flags'.detached = b BY <5>1 DEF TypeOK
                <5> QED BY <5>2 DEF b
            <4>2. CASE input' = [input EXCEPT !.pc = "reading"]
                <5>1. input'.pc # "done" /\ input'.err = "none"
                    BY <1>0, <3>3, <4>2 DEF InputSends, InputErrInv, TypeOK
                <5> QED BY <4>1, <5>1 DEF InputErrInv
            <4>3. CASE input' = Done("detached") BY <4>1, <4>3 DEF Done, InputErrInv
            <4>4. CASE input' = Done(WriteError(Up))
                <5>1. input'.pc = "done" /\ input'.err = WriteError(Up) BY <4>4 DEF Done
                <5> QED BY <4>1, <5>1, StreamErrors DEF InputErrInv
            <4> QED BY <3>3, <4>2, <4>3, <4>4 DEF InputSends, Send
        <3>4. CASE ~InputReads /\ ~Inputs
            <4>1. input' = input /\ (flags' = flags \/ FrameReads)
                BY <1>5, <3>4 DEF Working, Frames, Resizes, FrameReads, FrameSizes, ResizeSizes,
                   ResizeStops, WindowChanges, ViewFails
            <4>2. flags'.detached = flags.detached BY <4>1 DEF FrameReads, TypeOK
            <4> QED BY <1>0, <1>1, <4>1, <4>2 DEF InputErrInv
        <3> QED BY <3>1, <3>2, <3>3, <3>4 DEF Inputs
    <2>3. ResizeErrInv'
        <3>1. CASE ResizeSizes
            <4>1. \/ resize' = [resize EXCEPT !.pc = "waiting"] \/ resize' = Done("local")
                  \/ resize' = Done(WriteError(Up))
                BY <3>1 DEF ResizeSizes, SendSize, Send
            <4>2. resize'.err \in {resize.err, "local", WriteError(Up)} BY <4>1 DEF Done, TypeOK
            <4> QED BY <1>0, <4>2, StreamErrors DEF ResizeErrInv
        <3>2. CASE ~ResizeSizes
            <4>1. resize'.err = resize.err
                BY <1>5, <3>2 DEF Working, Frames, Resizes, Inputs, FrameReads, FrameSizes, ResizeStops,
                   InputCanceled, InputSends, WindowChanges, InputReads, ViewFails, TypeOK
            <4> QED BY <1>0, <4>1 DEF ResizeErrInv
        <3> QED BY <3>1, <3>2
    <2> QED BY <2>1, <2>2, <2>3 DEF ErrInv, FrameErrInv, InputErrInv, ResizeErrInv
<1>6. CASE Finished \/ UNCHANGED vars BY <1>2, <1>6 DEF Finished, vars
<1> QED BY <1>3, <1>4, <1>5, <1>6, NextParts

-----------------------------------------------------------------------------
(* What Attach returns.                                                    *)

\* The loop drops no error but those of its own teardown.
LEMMA LoopStep ==
    ASSUME TypeOK, CloseInv, ErrInv, ErrInv', LoopInv, [Next]_vars
    PROVE  LoopInv'
<1>0. main \in MainState BY DEF TypeOK
<1>1. hit \subseteq hit' BY HitGrows
<1>2. CASE main' = main /\ frame' = frame /\ (flags.detached => flags'.detached)
    BY <1>1, <1>2 DEF LoopInv, Justified
<1>3. CASE Outside BY <1>2, <1>3, OutsideFrame DEF workers
<1>4. CASE Working
    <2>1. main' = main BY <1>4, WorkingFrame DEF rest, outer
    <2>2. flags.detached => flags'.detached BY <1>4, IdleWorkers DEF ErrInv
    <2>3. frame.err # "none" => frame' = frame BY <1>4, IdleWorkers DEF ErrInv
    <2> QED BY <1>1, <2>1, <2>2, <2>3 DEF LoopInv, Justified
<1>5. CASE Main
    <2>1. CASE SendRequest \/ ReadResponse \/ Start
        <3>1. CASE \E err \in Errors \ {"none", "nil", "detached"}, o \in {"none", "aborted"} :
                      EarlyReturn(err, o)
            <4>1. main'.pc = "defer" /\ main'.result \ {"detached"} # {}
                BY <3>1, EarlyReturned
            <4> QED BY <4>1 DEF LoopInv
        <3>2. CASE main'.pc \in {"response", "start", "select"} BY <3>2 DEF LoopInv
        <3> QED BY <2>1, <3>1, <3>2, BeforeLoop
    <2>2. CASE Select
        <3> DEFINE Err(c) == CASE c = "resize" -> resize.err [] c = "input" -> input.err
                               [] c = "view" -> "local" [] OTHER -> "nil"
                   Res(c) == IF ctx THEN {"ctx"} \cup Unexpected(Err(c), TRUE) ELSE {Err(c)} \ {"nil"}
        <3>0. UNCHANGED <<frame, flags, hit>> BY <2>2 DEF Select, workers
        <3>1. PICK c \in {"ctx", "resize", "frame", "input", "view"} :
                 /\ CASE c = "ctx" -> ctx [] c = "resize" -> resize.err # "none"
                      [] c = "frame" -> frame.err # "none" [] c = "input" -> input.err # "none"
                      [] c = "view" -> viewErr
                 /\ main' = [main EXCEPT !.pc = "pickFrame", !.shuttingDown = ctx,
                                      !.frameDone = c = "frame", !.inputDone = c = "input",
                                      !.resizeTaken = c = "resize", !.result = Res(c)]
            BY <2>2 DEF Select
        <3>2. /\ main'.pc = "pickFrame" /\ main'.result = Res(c)
              /\ main'.shuttingDown = ctx /\ (main'.frameDone <=> c = "frame")
            <4> HIDE DEF Res
            <4> QED BY <1>0, <3>1 DEF MainState
        <3>3. /\ c = "ctx" => ctx
              /\ c = "resize" => resize.err # "none"
              /\ c = "frame" => frame.err # "none"
              /\ c = "input" => input.err # "none"
            BY <3>1
        <3>4. main.pc = "select" BY <2>2 DEF Select
        <3>5. ~ctx => closer = "open" BY <3>4 DEF CloseInv
        <3>6. frame.err = "closed" => ctx /\ "cancel" \in hit BY <3>5 DEF ErrInv, CloseInv
        <3>7. Justified'
            <4>1. CASE ctx
                <5>1. "ctx" \in Res(c) BY <4>1
                <5> HIDE DEF Res
                <5> QED BY <3>2, <5>1 DEF Justified
            <4>2. CASE ~ctx
                <5>1. Res(c) = {Err(c)} \ {"nil"} BY <4>2
                <5>2. CASE c = "frame" BY <3>0, <3>2, <3>3, <3>6, <4>2, <5>2 DEF Justified
                <5>3. CASE c = "view"
                    <6>1. "local" \in Res(c) BY <5>1, <5>3
                    <6> QED BY <3>2, <6>1 DEF Justified
                <5>4. CASE c = "resize"
                    <6>1. resize.err \in {"closed", "broken", "local"} BY <3>1, <5>4 DEF ErrInv
                    <6>2. resize.err \in Res(c) BY <5>1, <5>4, <6>1
                    <6> QED BY <3>2, <6>1, <6>2 DEF Justified
                <5>5. CASE c = "input"
                    <6>1. CASE input.err \in {"nil", "detached"}
                        BY <3>0, <6>1 DEF Justified, ErrInv
                    <6>2. CASE input.err \notin {"nil", "detached"}
                        <7>1. input.err \in Res(c) BY <5>1, <5>5, <6>2
                        <7> QED BY <3>2, <6>2, <7>1 DEF Justified
                    <6> QED BY <6>1, <6>2
                <5>6. CASE c = "ctx" BY <3>1, <4>2, <5>6
                <5> QED BY <5>2, <5>3, <5>4, <5>5, <5>6
            <4> QED BY <4>1, <4>2
        <3>8. main'.frameDone => frame'.err # "none" BY <3>0, <3>1, <3>2
        <3>9. frame'.err = "closed" => "cancel" \in hit' BY <3>0, <3>6
        <3> QED BY <3>2, <3>7, <3>8, <3>9 DEF LoopInv
    <2>3. CASE PickFrame
        <3>0. UNCHANGED <<frame, flags, hit>> BY <2>3 DEF PickFrame, workers
        <3>1. /\ main.pc = "pickFrame" /\ main'.pc = "pickInput" /\ main'.result = main.result
              /\ main'.shuttingDown = main.shuttingDown
              /\ main'.frameDone <=> (main.frameDone \/ frame.err # "none")
            BY <1>0, <2>3 DEF PickFrame, MainState
        <3>2. frame.err = "closed" => "cancel" \in hit BY <3>1 DEF ErrInv, CloseInv
        <3> QED BY <3>0, <3>1, <3>2 DEF LoopInv, Justified
    <2>4. CASE PickInput
        <3> DEFINE R == IF main.inputDone THEN main.result
                        ELSE main.result \cup Unexpected(input.err, main.shuttingDown)
                   a == main.inputDone \/ input.err # "none"
                   b == RemoteStreamTerminated
        <3>0. UNCHANGED <<frame, flags, hit>> BY <2>4 DEF PickInput, workers
        <3>1. main' = [main EXCEPT !.pc = "join", !.inputDone = a, !.result = R, !.terminated = b]
              /\ main.pc = "pickInput"
            BY <2>4 DEF PickInput
        <3>2. main.result \subseteq R OBVIOUS
        <3> HIDE DEF R, a
        <3>3. /\ main'.pc = "join" /\ main'.result = R /\ main'.terminated = b
              /\ main'.shuttingDown = main.shuttingDown /\ main'.frameDone = main.frameDone
            BY <1>0, <3>1 DEF MainState
        <3>4. main'.terminated => main'.frameDone /\ ~main'.shuttingDown
            BY <3>3 DEF RemoteStreamTerminated
        <3>5. Justified' BY <3>0, <3>1, <3>2, <3>3 DEF LoopInv, Justified
        <3> QED BY <3>0, <3>1, <3>3, <3>4, <3>5 DEF LoopInv
    <2>5. CASE Join
        <3> DEFINE teardown == main.shuttingDown \/ ~main.frameDone \/ flags.detached
                   R == main.result \cup (IF main.resizeTaken THEN {} ELSE Unexpected(resize.err, TRUE))
                           \cup (IF main.inputDone THEN {} ELSE Unexpected(input.err, TRUE))
                           \cup Unexpected(frame.err, teardown)
                   o == IF flags.detached THEN "detached" ELSE IF flags.sessionEnded THEN "ended"
                        ELSE IF main.terminated THEN "disconnected" ELSE "aborted"
        <3>0. UNCHANGED <<frame, flags, hit>> BY <2>5 DEF Join, workers
        <3>1. main' = [main EXCEPT !.pc = "defer", !.result = R, !.outcome = o] /\ main.pc = "join"
            BY <2>5 DEF Join
        <3>2. main.result \subseteq R /\ Unexpected(frame.err, teardown) \subseteq R OBVIOUS
        <3>3. /\ o = "detached" <=> flags.detached
              /\ o = "disconnected" => ~flags.detached /\ ~flags.sessionEnded /\ main.terminated
              /\ ~flags.detached /\ flags.sessionEnded => o = "ended"
            <4>1. CASE flags.detached BY <4>1
            <4>2. CASE ~flags.detached /\ flags.sessionEnded BY <4>2
            <4>3. CASE ~flags.detached /\ ~flags.sessionEnded /\ main.terminated BY <4>3
            <4>4. CASE ~flags.detached /\ ~flags.sessionEnded /\ ~main.terminated BY <4>4
            <4> QED BY <4>1, <4>2, <4>3, <4>4
        <3> HIDE DEF R, o
        <3>4. main'.pc = "defer" /\ main'.result = R /\ main'.outcome = o
            BY <1>0, <3>1 DEF MainState
        <3>5. ASSUME R \ {"detached"} = {}, main.frameDone, ~main.shuttingDown, ~flags.detached
              PROVE  frame.err \in {"closed", "nil"}
            <4>1. Unexpected(frame.err, teardown) = {frame.err} \ {"none", "nil", "closed", "canceled"}
                BY <3>5 DEF Unexpected
            <4>2. frame.err # "none" /\ frame.err \in {"none", "nil", "eof", "reset", "closed", "broken", "local"}
                BY <3>1, <3>5 DEF LoopInv, ErrInv
            <4> QED BY <3>2, <3>5, <4>1, <4>2
        <3>6. ASSUME R \ {"detached"} = {}
              PROVE  o \in {"ended", "detached"} \/ "eof" \in hit
            <4>1. Justified BY <3>1 DEF LoopInv
            <4>2. main.result \ {"detached"} = {} BY <3>2, <3>6
            <4>3. CASE "eof" \in hit BY <4>3
            <4>4. CASE flags.detached BY <3>3, <4>4
            <4>5. CASE main.frameDone /\ ~main.shuttingDown /\ frame.err # "closed" /\ ~flags.detached
                <5>1. frame.err = "nil" BY <3>5, <3>6, <4>5
                <5>2. flags.sessionEnded BY <5>1 DEF ErrInv
                <5> QED BY <3>3, <4>5, <5>2
            <4> QED BY <4>1, <4>2, <4>3, <4>4, <4>5 DEF Justified
        <3>7. ASSUME R \ {"detached"} = {}, o = "disconnected"
              PROVE  "cancel" \in hit
            <4>1. ~flags.detached /\ ~flags.sessionEnded /\ main.frameDone /\ ~main.shuttingDown
                BY <3>1, <3>3, <3>7 DEF LoopInv
            <4>2. frame.err = "closed" BY <3>5, <3>7, <4>1 DEF ErrInv
            <4> QED BY <3>1, <4>1, <4>2 DEF LoopInv
        <3> QED BY <3>0, <3>4, <3>6, <3>7 DEF LoopInv
    <2>6. CASE Return
        <3> DEFINE R == (main.result \ {"detached"}) \cup (IF bridge.failed THEN {"transport"} ELSE {})
        <3>1. main' = [main EXCEPT !.pc = "returned", !.result = R] /\ main.pc = "defer" /\ UNCHANGED hit
            BY <2>6 DEF Return
        <3>2. main.result \ {"detached"} \subseteq R \ {"detached"} OBVIOUS
        <3> HIDE DEF R
        <3>3. main'.pc = "returned" /\ main'.result = R /\ main'.outcome = main.outcome
            BY <1>0, <3>1 DEF MainState
        <3> QED BY <3>1, <3>2, <3>3 DEF LoopInv
    <2> QED BY <1>5, <2>1, <2>2, <2>3, <2>4, <2>5, <2>6 DEF Main
<1>6. CASE Finished \/ UNCHANGED vars BY <1>2, <1>6 DEF Finished, vars
<1> QED BY <1>3, <1>4, <1>5, <1>6, NextParts

-----------------------------------------------------------------------------
LEMMA AttachInit == Init => AttachInv
<1> SUFFICES ASSUME Init PROVE AttachInv OBVIOUS
<1>1. pipe \in [PipeNames -> Pipe]
    <2>1. Empty \in Pipe BY DEF Empty, Pipe
    <2> QED BY <2>1 DEF Init
<1>2. TypeOK
    <2>1. main \in MainState BY DEF Init, MainState
    <2>2. bridge \in Process BY TransportsAssumption DEF Init, Process
    <2>3. route \in {"socket", "bridge"} BY RoutesAssumption DEF Init
    <2> QED BY <1>1, <2>1, <2>2, <2>3 DEF TypeOK, Init, Errors
<1>3. BridgeInv BY <1>2 DEF Init, BridgeInv, TypeOK
<1>4. GoInv BY DEF Init, GoInv
<1>5. CloseInv
    <2>1. Down \in PipeNames /\ Up \in PipeNames BY DEF Down, Up, PipeNames
    <2>2. pipe[Down] = Empty /\ pipe[Up] = Empty BY <2>1 DEF Init
    <2> QED BY <2>2 DEF CloseInv, Init, Empty
<1>6. ErrInv BY DEF Init, ErrInv
<1>7. LoopInv BY DEF Init, LoopInv
<1> QED BY <1>2, <1>3, <1>4, <1>5, <1>6, <1>7 DEF AttachInv

LEMMA AttachStep == AttachInv /\ [Next]_vars => AttachInv'
<1> SUFFICES ASSUME AttachInv, [Next]_vars PROVE AttachInv' OBVIOUS
<1>1. TypeOK /\ BridgeInv /\ GoInv /\ CloseInv /\ ErrInv /\ LoopInv BY DEF AttachInv
<1>2. ErrInv' BY <1>1, ErrStep
<1> QED BY <1>1, <1>2, TypeStep, BridgeStep, GoStep, CloseStep, LoopStep DEF AttachInv

\* The inductive invariant of an attachment.
THEOREM AttachInvariant == Spec => []AttachInv
    BY AttachInit, AttachStep, PTL DEF Spec

\* Attach returns only when its goroutines have ended, the stream is closed and
\* the transport process is gone and reaped (runTerminalAttach, transportConn.Close).
THEOREM AttachCleansUp == Spec => []NothingLeftBehind
<1>1. AttachInv => NothingLeftBehind
    BY DEF AttachInv, NothingLeftBehind, Returned, GoInv, BridgeInv, Reaped
<1> QED BY <1>1, AttachInvariant, PTL

\* Attach returns no error only when the session ended, the user detached or the
\* terminal's input closed (withoutExpectedAttachShutdownErrors).
THEOREM NilErrorMeansOver == Spec => []NilMeansOver
<1>1. AttachInv => NilMeansOver
    BY DEF AttachInv, NilMeansOver, Returned, LoopInv
<1> QED BY <1>1, AttachInvariant, PTL

-----------------------------------------------------------------------------
(* What the user is told.  The stream from the session to the client, in two *)
(* stretches when there is a transport: far, what the session has written,   *)
(* and near, what the bridge has passed on.                                  *)

Far == pipe["sockDown"].q
Near == pipe["stdout"].q

Has(q, m) == \E i \in 1..Len(q) : q[i] = m
EndsLast(q) == \A i \in 1..Len(q) : q[i] = "ended" => i = Len(q)

\* Attach waits for the answer to its request; or has it, and shows the session.
Waiting == main.pc \in {"request", "response"}
Attached == main.pc \in {"start", "select", "pickFrame", "pickInput", "join"}

\* Which ends of the connections can be closed, and what a session that has not
\* answered and a client that has not asked can have done.
SessionInv ==
    /\ sess = "listening" => Far = <<>> /\ Near = <<>> /\ out = 0 /\ shown = 0 /\ ~endSent /\ ~Attached
    /\ bridge.out = "dial" => bridge.in = "idle" /\ sess \in {"listening", "gone"} /\ Far = <<>> /\ ~endSent
    /\ endSent => sess = "gone"
    /\ main.pc = "request" =>
          sess \in {"listening", "gone"} /\ ~endSent /\ pipe["sockUp"].q = <<>> /\ pipe["stdin"].q = <<>>
    /\ pipe["sockDown"].eof \/ pipe["sockUp"].gone => sess = "gone"
    /\ pipe["stdout"].eof \/ pipe["stdin"].gone => bridge.out \in {"join", "exited"}
    /\ route = "socket" => Near = <<>> /\ ~pipe["stdout"].gone

\* FrameEnded is the last frame; a refusal comes from a session that is gone.
OrderInv ==
    /\ EndsLast(Far) /\ EndsLast(Near)
    /\ Has(Far, "ended") \/ Has(Near, "ended") => endSent
    /\ Has(Near, "ended") => Far = <<>>
    /\ Has(Far, "refused") \/ Has(Near, "refused") => sess = "gone" /\ ~endSent

\* No frame is lost on the way while the connections are open: what the session
\* wrote is what the client has handled and what is still to be read.
CountInv ==
    /\ flags.sessionEnded => endSent /\ shown = out /\ frame.pc = "done"
    /\ /\ Waiting \/ Attached
       /\ ~flags.sessionEnded /\ (sess = "serving" \/ endSent)
       /\ ~pipe["stdout"].gone /\ (~pipe["sockDown"].gone \/ Has(Near, "ended"))
       => shown + Len(Near) + Len(Far)
             = out + (IF Waiting THEN 1 ELSE 0) + (IF endSent THEN 1 ELSE 0)

\* Neither the user, nor the caller, nor a failure has ended the attachment.
Clean == hit \cap {"key", "eof", "cancel", "local", "broken", "transport", "killed"} = {}

\* Then FrameEnded is not lost either, until the client closes the stream.
LossInv ==
    Clean /\ closer = "open" =>
       /\ endSent /\ ~flags.sessionEnded => Has(Far, "ended") \/ Has(Near, "ended")
       /\ route = "bridge" /\ bridge.out \in {"join", "exited"} => Far = <<>> /\ sess = "gone"
       /\ route = "bridge" /\ bridge.out \in {"dial", "copy"} => ~pipe["sockDown"].gone

\* Why each goroutine has ended.
ReasonInv ==
    /\ frame.err \in {"local", "broken"} => frame.err \in hit
    /\ input.err \in {"local", "broken"} => input.err \in hit
    /\ resize.err \in {"local", "broken"} => resize.err \in hit
    /\ frame.err \in {"eof", "reset"} => "stream" \in hit \/ closer # "open"
    /\ frame.err \in {"eof", "reset"} /\ Clean => (sess = "gone" /\ ~endSent) \/ closer # "open"
    /\ input.err = "closed" \/ resize.err = "closed" => closer # "open"
    /\ input.err = "canceled" => ctx \/ stopped
    /\ input.pc = "detaching" \/ input.err = "detached" => "key" \in hit
    /\ viewErr => "local" \in hit
    /\ stopped => main.pc \in {"join", "defer", "returned"} /\ closer # "open"

\* What makes the frame reader end without FrameEnded before the client closes the
\* stream for another reason.
FrameCause == "stream" \in hit \/ frame.err \in {"broken", "local"} \/ ctx

\* What the loop and the early returns conclude from it.
VerdictInv ==
    /\ main.pc \in {"pickFrame", "pickInput", "join", "defer", "returned"} /\ Clean =>
          flags.sessionEnded \/ (sess = "gone" /\ ~endSent)
    /\ main.pc \in {"pickFrame", "pickInput", "join"} /\ main.frameDone /\ frame.err # "nil" => FrameCause
    /\ main.pc \in {"defer", "returned"} =>
          /\ main.outcome = "ended" => flags.sessionEnded
          /\ main.outcome = "disconnected" => FrameCause
          /\ Clean /\ flags.sessionEnded => main.outcome = "ended"

StreamInv == SessionInv /\ OrderInv /\ CountInv /\ LossInv
TruthInv == StreamInv /\ ReasonInv /\ VerdictInv

-----------------------------------------------------------------------------
(* Frames in a stretch of the stream.                                      *)

LEMMA EmptyHas == EndsLast(<<>>) /\ \A x : ~Has(<<>>, x)
BY DEF EndsLast, Has

\* A frame is written behind the others.
LEMMA AppendHas ==
    ASSUME NEW q \in Seq(Messages), NEW m \in Messages, NEW a, a = Append(q, m)
    PROVE  /\ \A x : Has(a, x) <=> (Has(q, x) \/ x = m)
           /\ EndsLast(q) /\ ~Has(q, "ended") => EndsLast(a)
           /\ Len(a) = Len(q) + 1 /\ Len(q) \in Nat
<1>1. /\ Len(q) \in Nat /\ Len(a) = Len(q) + 1 /\ a[Len(q) + 1] = m
      /\ \A i \in 1..Len(q) : a[i] = q[i]
    OBVIOUS
<1>2. ASSUME NEW x PROVE Has(a, x) <=> (Has(q, x) \/ x = m)
    <2>1. ASSUME Has(a, x) PROVE Has(q, x) \/ x = m
        <3>1. PICK i \in 1..Len(a) : a[i] = x BY <2>1 DEF Has
        <3> QED BY <1>1, <3>1 DEF Has
    <2>2. ASSUME Has(q, x) PROVE Has(a, x)
        <3>1. PICK i \in 1..Len(q) : q[i] = x BY <2>2 DEF Has
        <3>2. i \in 1..Len(a) /\ a[i] = x BY <1>1, <3>1
        <3> QED BY <3>2 DEF Has
    <2>3. ASSUME x = m PROVE Has(a, x)
        <3>1. Len(a) \in 1..Len(a) /\ a[Len(a)] = x BY <1>1, <2>3
        <3> QED BY <3>1 DEF Has
    <2> QED BY <2>1, <2>2, <2>3
<1>3. ASSUME ~Has(q, "ended") PROVE EndsLast(a)
    BY <1>1, <1>3 DEF EndsLast, Has
<1> QED BY <1>1, <1>2, <1>3

\* A queue of one message has that message only.
LEMMA OneHas ==
    ASSUME NEW m \in Messages, NEW a, a = Append(<<>>, m)
    PROVE  Len(a) = 1 /\ EndsLast(a) /\ \A x : Has(a, x) <=> x = m
<1>1. Len(a) = 1 /\ a[1] = m OBVIOUS
<1> QED BY <1>1 DEF EndsLast, Has

\* A sequence t is q without its first frame m.
LEMMA ShiftHas ==
    ASSUME NEW q \in Seq(Messages), NEW t \in Seq(Messages), NEW m,
           Len(q) \in Nat \ {0}, Len(t) = Len(q) - 1, q[1] = m, \A i \in 1..Len(t) : t[i] = q[i + 1]
    PROVE  /\ \A x : Has(t, x) => Has(q, x)
           /\ \A x : Has(q, x) => x = m \/ Has(t, x)
           /\ Has(q, m)
           /\ EndsLast(q) => EndsLast(t)
           /\ EndsLast(q) /\ m = "ended" => Len(q) = 1 /\ t = <<>>
<1>1. /\ Len(q) \in Nat \ {0} /\ Len(t) = Len(q) - 1 /\ q[1] = m
      /\ \A i \in 1..Len(t) : t[i] = q[i + 1]
    OBVIOUS
<1>2. Len(t) = 0 => t = <<>> OBVIOUS
<1>3. \A x : Has(t, x) => Has(q, x)
    <2> SUFFICES ASSUME NEW x, Has(t, x) PROVE Has(q, x) OBVIOUS
    <2>1. PICK i \in 1..Len(t) : t[i] = x BY DEF Has
    <2>2. i + 1 \in 1..Len(q) /\ q[i + 1] = x BY <1>1, <2>1
    <2> QED BY <2>2 DEF Has
<1>4. \A x : Has(q, x) => x = m \/ Has(t, x)
    <2> SUFFICES ASSUME NEW x, Has(q, x), x # m PROVE Has(t, x) OBVIOUS
    <2>1. PICK i \in 1..Len(q) : q[i] = x BY DEF Has
    <2>2. i # 1 BY <1>1, <2>1
    <2>3. i - 1 \in 1..Len(t) /\ t[i - 1] = x BY <1>1, <2>1, <2>2
    <2> QED BY <2>3 DEF Has
<1>5. Has(q, m)
    <2>1. 1 \in 1..Len(q) BY <1>1
    <2> QED BY <1>1, <2>1 DEF Has
<1>6. ASSUME EndsLast(q) PROVE EndsLast(t)
    <2> SUFFICES ASSUME NEW i \in 1..Len(t), t[i] = "ended" PROVE i = Len(t) BY DEF EndsLast
    <2>1. i + 1 \in 1..Len(q) /\ q[i + 1] = "ended" BY <1>1
    <2>2. i + 1 = Len(q) BY <1>6, <2>1 DEF EndsLast
    <2> QED BY <1>1, <2>2
<1>7. ASSUME EndsLast(q), m = "ended" PROVE Len(q) = 1 /\ t = <<>>
    <2>1. 1 \in 1..Len(q) BY <1>1
    <2>2. Len(q) = 1 BY <1>1, <1>7, <2>1 DEF EndsLast
    <2>3. Len(t) = 0 BY <1>1, <2>2
    <2> QED BY <1>2, <2>2, <2>3
<1> QED BY <1>1, <1>3, <1>4, <1>5, <1>6, <1>7

\* A frame is read from the front.
LEMMA TailHas ==
    ASSUME NEW q \in Seq(Messages), q # <<>>, NEW m, m = Head(q), NEW t, t = Tail(q)
    PROVE  /\ \A x : Has(t, x) => Has(q, x)
           /\ \A x : Has(q, x) => x = m \/ Has(t, x)
           /\ Has(q, m) /\ m \in Messages
           /\ EndsLast(q) => EndsLast(t)
           /\ EndsLast(q) /\ m = "ended" => Len(q) = 1 /\ t = <<>>
           /\ Len(t) = Len(q) - 1 /\ Len(q) \in Nat \ {0} /\ t \in Seq(Messages)
<1>1. /\ Len(q) \in Nat \ {0} /\ t \in Seq(Messages) /\ Len(t) = Len(q) - 1 /\ q[1] = m /\ m \in Messages
      /\ \A i \in 1..Len(t) : t[i] = q[i + 1]
    OBVIOUS
<1>2. /\ \A x : Has(t, x) => Has(q, x)
      /\ \A x : Has(q, x) => x = m \/ Has(t, x)
      /\ Has(q, m)
      /\ EndsLast(q) => EndsLast(t)
      /\ EndsLast(q) /\ m = "ended" => Len(q) = 1 /\ t = <<>>
    BY <1>1, ShiftHas, Zenon
<1> QED BY <1>1, <1>2

-----------------------------------------------------------------------------
(* The stream.                                                             *)

\* What every step keeps.
LEMMA StreamFrame ==
    ASSUME TypeOK, CloseInv, [Next]_vars
    PROVE  /\ route' = route /\ (Clean' => Clean) /\ (closer' = "open" => closer = "open")
           /\ route = "bridge" /\ closer = "open" => ~pipe["stdout"].gone
           /\ pipe \in Pipes /\ Far \in Seq(Messages) /\ Near \in Seq(Messages)
           /\ Len(Far) \in Nat /\ Len(Near) \in Nat /\ out \in Nat /\ shown \in Nat
<1>1. hit \subseteq hit' BY HitGrows
<1>2. Clean' => Clean BY <1>1 DEF Clean
<1>3. closer' = "open" => closer = "open" BY CloserMoves DEF TypeOK
<1>4. route = "bridge" /\ closer = "open" => ~pipe["stdout"].gone BY DEF CloseInv, Down
<1>5. pipe["sockDown"] \in Pipe /\ pipe["stdout"] \in Pipe BY DEF TypeOK, PipeNames
<1>6. Far \in Seq(Messages) /\ Near \in Seq(Messages) BY <1>5 DEF Far, Near, Pipe
<1>7. Len(Far) \in Nat /\ Len(Near) \in Nat BY <1>6
<1> QED BY <1>2, <1>3, <1>4, <1>6, <1>7, RouteKept DEF TypeOK, Pipes

\* The ends that matter to the stream are as they were.
SameEnds(qs, ps) ==
    /\ qs["sockDown"].eof <=> ps["sockDown"].eof
    /\ qs["sockDown"].gone <=> ps["sockDown"].gone
    /\ qs["stdout"].eof <=> ps["stdout"].eof
    /\ qs["stdout"].gone <=> ps["stdout"].gone
    /\ qs["sockUp"].gone <=> ps["sockUp"].gone
    /\ qs["stdin"].gone <=> ps["stdin"].gone

\* A step that neither writes, nor passes on, nor reads, nor drops a frame.
LEMMA QuietStep ==
    ASSUME TypeOK, CloseInv, StreamInv, [Next]_vars, SameEnds(pipe', pipe), Far' = Far, Near' = Near,
           sess' = sess \/ (sess = "serving" /\ sess' = "leaving"), UNCHANGED <<out, endSent, shown>>,
           bridge'.out = bridge.out, bridge.in = "idle" => bridge'.in = "idle",
           flags'.sessionEnded <=> flags.sessionEnded, frame.pc = "done" => frame'.pc = "done",
           main'.pc = "request" =>
              /\ main.pc = "request"
              /\ pipe'["sockUp"].q = pipe["sockUp"].q /\ pipe'["stdin"].q = pipe["stdin"].q,
           Waiting' => Waiting, Attached' => Attached
    PROVE  StreamInv'
<1> USE StreamFrame
<1>0. SessionInv /\ OrderInv /\ CountInv /\ LossInv BY DEF StreamInv
<1>1. SessionInv' BY <1>0 DEF SessionInv, SameEnds
<1>2. OrderInv' BY <1>0 DEF SessionInv, OrderInv
<1>3. CountInv'
    <2>1. ~(Waiting /\ Attached) BY DEF Waiting, Attached
    <2> QED BY <1>0, <2>1 DEF SessionInv, CountInv, SameEnds
<1>4. LossInv' BY <1>0 DEF SessionInv, LossInv, SameEnds
<1> QED BY <1>1, <1>2, <1>3, <1>4 DEF StreamInv

\* The four byte streams between the session and the client.
LEMMA Names ==
    /\ "stdin" \in PipeNames /\ "stdout" \in PipeNames
    /\ "sockUp" \in PipeNames /\ "sockDown" \in PipeNames
BY DEF PipeNames

\* The session writes.
LEMMA SessionPuts ==
    ASSUME NEW ps \in Pipes, NEW m \in Messages, NEW qs, qs = Put(ps, "sockDown", m)
    PROVE  /\ qs \in Pipes /\ SameEnds(qs, ps)
           /\ qs["sockDown"].q = Append(ps["sockDown"].q, m) /\ qs["stdout"].q = ps["stdout"].q
           /\ qs["sockUp"].q = ps["sockUp"].q /\ qs["stdin"].q = ps["stdin"].q
<1>1. qs \in Pipes BY Names, PutPipe
<1>2. ASSUME NEW o \in PipeNames
      PROVE  /\ qs[o].eof <=> ps[o].eof
             /\ qs[o].gone <=> ps[o].gone
             /\ qs[o].q = IF o = "sockDown" THEN Append(ps["sockDown"].q, m) ELSE ps[o].q
    BY Names, PutPipe
<1>3. SameEnds(qs, ps) BY <1>2, Names DEF SameEnds
<1> QED BY <1>1, <1>2, <1>3, Names

\* Closing an end of a connection leaves the bytes on their way where they are.
LEMMA CloseQueue ==
    ASSUME NEW ps \in Pipes, NEW r \in PipeNames, NEW w \in PipeNames, r # w, NEW o \in PipeNames
    PROVE  Close(ps, r, w)[o].q = IF o = r THEN <<>> ELSE ps[o].q
BY ClosePipe

\* The session closes its connection.
LEMMA SessionCloses ==
    ASSUME NEW ps \in Pipes, NEW qs, qs = Close(ps, "sockUp", "sockDown")
    PROVE  /\ qs \in Pipes /\ qs["sockDown"].eof /\ qs["sockUp"].gone
           /\ qs["sockDown"].q = ps["sockDown"].q /\ qs["stdout"].q = ps["stdout"].q
           /\ qs["sockUp"].q = <<>> /\ qs["stdin"].q = ps["stdin"].q
           /\ qs["sockDown"].gone <=> ps["sockDown"].gone
           /\ qs["stdout"].eof <=> ps["stdout"].eof
           /\ qs["stdout"].gone <=> ps["stdout"].gone
           /\ qs["stdin"].gone <=> ps["stdin"].gone
<1>1. qs \in Pipes BY Names, ClosePipe
<1>2. ASSUME NEW o \in PipeNames
      PROVE  /\ qs[o].eof <=> (ps[o].eof \/ o = "sockDown")
             /\ qs[o].gone <=> (ps[o].gone \/ o = "sockUp")
    BY Names, CloseEnds
<1>3. ASSUME NEW o \in PipeNames PROVE qs[o].q = IF o = "sockUp" THEN <<>> ELSE ps[o].q
    BY Names, CloseQueue
<1> QED BY <1>1, <1>2, <1>3, Names

\* The other end of the session's connection is closed.
LEMMA FarDrops ==
    ASSUME NEW ps \in Pipes, NEW qs, qs = Close(ps, "sockDown", "sockUp")
    PROVE  /\ qs \in Pipes /\ qs["sockDown"].gone
           /\ qs["sockDown"].q = <<>> /\ qs["stdout"].q = ps["stdout"].q
           /\ qs["sockUp"].q = ps["sockUp"].q /\ qs["stdin"].q = ps["stdin"].q
           /\ qs["sockDown"].eof <=> ps["sockDown"].eof
           /\ qs["stdout"].eof <=> ps["stdout"].eof
           /\ qs["stdout"].gone <=> ps["stdout"].gone
           /\ qs["sockUp"].gone <=> ps["sockUp"].gone
           /\ qs["stdin"].gone <=> ps["stdin"].gone
<1>1. qs \in Pipes BY Names, ClosePipe
<1>2. ASSUME NEW o \in PipeNames
      PROVE  /\ qs[o].eof <=> (ps[o].eof \/ o = "sockUp")
             /\ qs[o].gone <=> (ps[o].gone \/ o = "sockDown")
    BY Names, CloseEnds
<1>3. ASSUME NEW o \in PipeNames PROVE qs[o].q = IF o = "sockDown" THEN <<>> ELSE ps[o].q
    BY Names, CloseQueue
<1> QED BY <1>1, <1>2, <1>3, Names

\* The bridge closes the streams of its process.
LEMMA NearEnds ==
    ASSUME NEW ps \in Pipes, NEW qs, qs = Close(ps, "stdin", "stdout")
    PROVE  /\ qs \in Pipes
           /\ qs["sockDown"].q = ps["sockDown"].q /\ qs["stdout"].q = ps["stdout"].q
           /\ qs["sockUp"].q = ps["sockUp"].q /\ qs["stdin"].q = <<>>
           /\ qs["sockDown"].eof <=> ps["sockDown"].eof
           /\ qs["sockDown"].gone <=> ps["sockDown"].gone
           /\ qs["stdout"].gone <=> ps["stdout"].gone
           /\ qs["sockUp"].gone <=> ps["sockUp"].gone
<1>1. qs \in Pipes BY Names, ClosePipe
<1>2. ASSUME NEW o \in PipeNames
      PROVE  /\ qs[o].eof <=> (ps[o].eof \/ o = "stdout")
             /\ qs[o].gone <=> (ps[o].gone \/ o = "stdin")
    BY Names, CloseEnds
<1>3. ASSUME NEW o \in PipeNames PROVE qs[o].q = IF o = "stdin" THEN <<>> ELSE ps[o].q
    BY Names, CloseQueue
<1> QED BY <1>1, <1>2, <1>3, Names

\* The session answers.
LEMMA AcceptStep ==
    ASSUME TypeOK, BridgeInv, CloseInv, StreamInv, [Next]_vars, SessionAccepts
    PROVE  StreamInv'
<1> USE StreamFrame
<1>0. SessionInv /\ OrderInv /\ CountInv /\ LossInv BY DEF StreamInv
<1>1. /\ sess = "listening" /\ pipe["sockUp"].q # <<>> /\ (route = "socket" \/ bridge.in # "idle")
      /\ UNCHANGED <<out, endSent, bridge, closer, main, shown, flags, frame>>
    BY DEF SessionAccepts, CanRead, Connected, outer, workers
<1>2. /\ Far = <<>> /\ Near = <<>> /\ out = 0 /\ shown = 0 /\ ~endSent /\ ~Attached
      /\ main.pc # "request" /\ bridge.out # "dial"
    BY <1>0, <1>1 DEF SessionInv, BridgeInv
<1> DEFINE pp == Pop(pipe, "sockUp")
<1>3. pp \in Pipes /\ pp["sockDown"].q = <<>> /\ pp["stdout"].q = <<>> /\ SameEnds(pp, pipe)
    <2>1. pp \in Pipes BY <1>1, Names, PopPipe
    <2>2. ASSUME NEW o \in PipeNames
          PROVE  /\ pp[o].eof <=> pipe[o].eof
                 /\ pp[o].gone <=> pipe[o].gone
                 /\ pp[o].q = IF o = "sockUp" THEN Tail(pipe["sockUp"].q) ELSE pipe[o].q
        BY <1>1, Names, PopPipe
    <2> HIDE DEF pp
    <2>3. SameEnds(pp, pipe) BY <2>2, Names DEF SameEnds
    <2> QED BY <1>2, <2>1, <2>2, <2>3, Names DEF Far, Near
<1> HIDE DEF pp
<1>4. ASSUME NEW m \in Messages
      PROVE  /\ Len(Append(<<>>, m)) = 1 /\ EndsLast(Append(<<>>, m))
             /\ \A x : Has(Append(<<>>, m), x) <=> x = m
    BY OneHas
<1>5. ~Has(<<>>, "ended") /\ ~Has(<<>>, "refused") /\ EndsLast(<<>>) /\ Len(<<>>) = 0 BY EmptyHas
<1>6. CASE sess' = "serving" /\ pipe' = Put(pp, "sockDown", "ok")
    <2>1. "ok" \in Messages BY DEF Messages
    <2> DEFINE f == Append(<<>>, "ok")
    <2>2. Far' = f /\ Near' = <<>> /\ SameEnds(pipe', pp)
        <3>1. /\ pipe'["sockDown"].q = Append(pp["sockDown"].q, "ok")
              /\ pipe'["stdout"].q = pp["stdout"].q /\ SameEnds(pipe', pp)
            BY <1>3, <1>6, <2>1, SessionPuts
        <3> QED BY ONLY <1>3, <3>1 DEF Far, Near
    <2>3. Len(f) = 1 /\ EndsLast(f) /\ ~Has(f, "ended") /\ ~Has(f, "refused") BY <1>4, <2>1
    <2> HIDE DEF f
    <2>4. SameEnds(pipe', pipe) BY <1>3, <2>2 DEF SameEnds
    <2>5. SessionInv' BY <1>0, <1>1, <1>2, <1>6, <2>2, <2>4 DEF SessionInv, SameEnds
    <2>6. OrderInv' BY <1>5, <2>2, <2>3 DEF OrderInv
    <2>7. CountInv' BY <1>0, <1>1, <1>2, <1>5, <2>2, <2>3 DEF CountInv, Waiting, Attached
    <2>8. LossInv' BY <1>0, <1>1, <1>2, <2>4 DEF LossInv, SameEnds
    <2> QED BY <2>5, <2>6, <2>7, <2>8 DEF StreamInv
<1>7. CASE sess' = "gone" /\ pipe' = Close(Put(pp, "sockDown", "refused"), "sockUp", "sockDown")
    <2>1. "refused" \in Messages BY DEF Messages
    <2> DEFINE f == Append(<<>>, "refused")
               ps == Put(pp, "sockDown", "refused")
    <2>0. ps = Put(pp, "sockDown", "refused") OBVIOUS
    <2> HIDE DEF ps
    <2>2. ps \in Pipes /\ ps["sockDown"].q = f /\ ps["stdout"].q = <<>> /\ SameEnds(ps, pp)
        <3>1. /\ ps \in Pipes /\ SameEnds(ps, pp) /\ ps["stdout"].q = pp["stdout"].q
              /\ ps["sockDown"].q = Append(pp["sockDown"].q, "refused")
            BY <1>3, <2>0, <2>1, SessionPuts
        <3> QED BY <1>3, <3>1
    <2>3. pipe' = Close(ps, "sockUp", "sockDown") BY <1>7 DEF ps
    <2>4. /\ Far' = f /\ Near' = <<>>
          /\ pipe'["sockDown"].gone <=> ps["sockDown"].gone
          /\ pipe'["stdout"].eof <=> ps["stdout"].eof
          /\ pipe'["stdout"].gone <=> ps["stdout"].gone
          /\ pipe'["stdin"].gone <=> ps["stdin"].gone
        BY <2>2, <2>3, SessionCloses DEF Far, Near
    <2>5. /\ pipe'["stdout"].eof <=> pipe["stdout"].eof
          /\ pipe'["stdout"].gone <=> pipe["stdout"].gone
          /\ pipe'["stdin"].gone <=> pipe["stdin"].gone
          /\ pipe'["sockDown"].gone <=> pipe["sockDown"].gone
        BY <1>3, <2>2, <2>4 DEF SameEnds
    <2>6. Len(f) = 1 /\ EndsLast(f) /\ ~Has(f, "ended") BY <1>4, <2>1
    <2> HIDE DEF f
    <2>7. SessionInv' BY <1>0, <1>1, <1>2, <1>7, <2>4, <2>5 DEF SessionInv
    <2>8. OrderInv' BY <1>1, <1>2, <1>5, <1>7, <2>4, <2>6 DEF OrderInv
    <2>9. CountInv' BY <1>0, <1>1, <1>2, <1>7 DEF CountInv
    <2>10. LossInv' BY <1>0, <1>1, <1>2, <2>5 DEF LossInv
    <2> QED BY <2>7, <2>8, <2>9, <2>10 DEF StreamInv
<1> QED BY <1>6, <1>7 DEF SessionAccepts, pp

\* The session writes a frame.
LEMMA WriteStep ==
    ASSUME TypeOK, CloseInv, StreamInv, [Next]_vars, SessionWrites
    PROVE  StreamInv'
<1> USE StreamFrame
<1>0. SessionInv /\ OrderInv /\ CountInv /\ LossInv BY DEF StreamInv
<1>1. /\ sess = "serving" /\ out' = out + 1
      /\ UNCHANGED <<sess, endSent, bridge, closer, main, shown, flags, frame>>
    BY DEF SessionWrites, outer, workers
<1>2. PICK m \in {"output", "size"} : pipe' = Put(pipe, "sockDown", m) BY DEF SessionWrites
<1>3. m \in Messages /\ m # "ended" /\ m # "refused" BY DEF Messages
<1>4. Far' = Append(Far, m) /\ Near' = Near /\ SameEnds(pipe', pipe)
    BY <1>2, <1>3, SessionPuts DEF Far, Near
<1>5. ~endSent /\ main.pc # "request" /\ bridge.out # "dial" BY <1>0, <1>1 DEF SessionInv
<1>6. ~Has(Far, "ended") /\ ~Has(Near, "ended") BY <1>0, <1>5 DEF OrderInv
<1>7. ~Has(Far, "refused") /\ ~Has(Near, "refused") BY <1>0, <1>1 DEF OrderInv
<1>8. ~Has(Far', "ended") /\ ~Has(Far', "refused") /\ EndsLast(Far') /\ Len(Far') = Len(Far) + 1
    <2>1. EndsLast(Far) BY <1>0 DEF OrderInv
    <2> QED BY <1>3, <1>4, <1>6, <1>7, <2>1, AppendHas
<1>9. SessionInv' BY <1>0, <1>1, <1>4, <1>5 DEF SessionInv, SameEnds
<1>10. OrderInv' BY <1>0, <1>4, <1>6, <1>7, <1>8 DEF OrderInv
<1>11. CountInv'
    <2>1. ~flags.sessionEnded BY <1>0, <1>5 DEF CountInv
    <2>2. (Waiting' <=> Waiting) /\ (Attached' <=> Attached) BY <1>1 DEF Waiting, Attached
    <2>3. /\ Near' = Near /\ (pipe'["stdout"].gone <=> pipe["stdout"].gone)
          /\ pipe'["sockDown"].gone <=> pipe["sockDown"].gone
        BY <1>4 DEF SameEnds
    <2>4. CASE /\ Waiting \/ Attached
               /\ ~pipe["stdout"].gone /\ (~pipe["sockDown"].gone \/ Has(Near, "ended"))
        <3>1. shown + Len(Near) + Len(Far) = out + (IF Waiting THEN 1 ELSE 0)
            BY <1>0, <1>1, <1>5, <2>1, <2>4 DEF CountInv
        <3>2. shown' + Len(Near') + Len(Far') = out' + (IF Waiting' THEN 1 ELSE 0)
            BY <1>1, <1>8, <2>2, <2>3, <3>1
        <3> QED BY <1>1, <1>5, <2>1, <3>2 DEF CountInv
    <2> QED BY <1>1, <1>5, <2>1, <2>2, <2>3, <2>4 DEF CountInv
<1>12. LossInv' BY <1>0, <1>1, <1>4, <1>5 DEF LossInv, SameEnds
<1> QED BY <1>9, <1>10, <1>11, <1>12 DEF StreamInv

\* The session writes its last frame and closes the connection.
LEMMA EndStep ==
    ASSUME TypeOK, CloseInv, StreamInv, [Next]_vars, SessionEnds
    PROVE  StreamInv'
<1> USE StreamFrame
<1>0. SessionInv /\ OrderInv /\ CountInv /\ LossInv BY DEF StreamInv
<1>1. /\ sess = "serving" /\ sess' = "gone" /\ endSent' = TRUE
      /\ ~pipe["sockDown"].gone
      /\ UNCHANGED <<out, bridge, closer, main, shown, flags, frame>>
    BY DEF SessionEnds, CanWrite, outer, workers
<1>2. "ended" \in Messages BY DEF Messages
<1> DEFINE ps == Put(pipe, "sockDown", "ended")
<1>3. ps \in Pipes /\ ps["sockDown"].q = Append(Far, "ended") /\ ps["stdout"].q = Near /\ SameEnds(ps, pipe)
    BY <1>2, SessionPuts DEF Far, Near
<1> HIDE DEF ps
<1>4. pipe' = Close(ps, "sockUp", "sockDown") BY DEF SessionEnds, ps
<1>5. /\ Far' = Append(Far, "ended") /\ Near' = Near
      /\ pipe'["sockDown"].gone <=> ps["sockDown"].gone
      /\ pipe'["stdout"].eof <=> ps["stdout"].eof
      /\ pipe'["stdout"].gone <=> ps["stdout"].gone
      /\ pipe'["stdin"].gone <=> ps["stdin"].gone
    BY <1>3, <1>4, SessionCloses DEF Far, Near
<1>6. /\ pipe'["stdout"].eof <=> pipe["stdout"].eof
      /\ pipe'["stdout"].gone <=> pipe["stdout"].gone
      /\ pipe'["stdin"].gone <=> pipe["stdin"].gone
      /\ pipe'["sockDown"].gone <=> pipe["sockDown"].gone
    BY <1>3, <1>5 DEF SameEnds
<1>7. ~endSent /\ main.pc # "request" /\ bridge.out # "dial" BY <1>0, <1>1 DEF SessionInv
<1>8. ~Has(Far, "ended") /\ ~Has(Near, "ended") /\ ~Has(Far, "refused") /\ ~Has(Near, "refused")
    BY <1>0, <1>1, <1>7 DEF OrderInv
<1>9. Has(Far', "ended") /\ ~Has(Far', "refused") /\ EndsLast(Far') /\ Len(Far') = Len(Far) + 1
    <2>1. EndsLast(Far) BY <1>0 DEF OrderInv
    <2> QED BY <1>2, <1>5, <1>8, <2>1, AppendHas
<1>10. SessionInv' BY <1>0, <1>1, <1>5, <1>6, <1>7 DEF SessionInv
<1>11. OrderInv' BY <1>0, <1>1, <1>5, <1>8, <1>9 DEF OrderInv
<1>12. CountInv'
    <2>1. ~flags.sessionEnded BY <1>0, <1>7 DEF CountInv
    <2>2. (Waiting' <=> Waiting) /\ (Attached' <=> Attached) BY <1>1 DEF Waiting, Attached
    <2> QED BY <1>0, <1>1, <1>5, <1>6, <1>7, <1>9, <2>1, <2>2 DEF CountInv
<1>13. LossInv' BY <1>0, <1>1, <1>6, <1>9 DEF LossInv
<1> QED BY <1>10, <1>11, <1>12, <1>13 DEF StreamInv

\* The session is left, or its daemon dies.
LEMMA GoneStep ==
    ASSUME TypeOK, CloseInv, StreamInv, [Next]_vars, SessionLeaves \/ SessionCrashes
    PROVE  StreamInv'
<1> USE StreamFrame
<1>0. SessionInv /\ OrderInv /\ CountInv /\ LossInv BY DEF StreamInv
<1>1. /\ sess # "gone" /\ sess' = "gone" /\ pipe' = Close(pipe, "sockUp", "sockDown")
      /\ UNCHANGED <<out, endSent, bridge, closer, main, shown, flags, frame>>
    BY DEF SessionLeaves, SessionCrashes, outer, workers
<1>2. ~endSent BY <1>0, <1>1 DEF SessionInv
<1>3. /\ Far' = Far /\ Near' = Near /\ pipe'["sockUp"].q = <<>> /\ pipe'["stdin"].q = pipe["stdin"].q
      /\ pipe'["stdout"].eof <=> pipe["stdout"].eof
      /\ pipe'["stdout"].gone <=> pipe["stdout"].gone
      /\ pipe'["stdin"].gone <=> pipe["stdin"].gone
      /\ pipe'["sockDown"].gone <=> pipe["sockDown"].gone
    BY <1>1, SessionCloses DEF Far, Near
<1>5. SessionInv' BY <1>0, <1>1, <1>2, <1>3 DEF SessionInv
<1>6. OrderInv' BY <1>0, <1>1, <1>2, <1>3 DEF OrderInv
<1>7. CountInv' BY <1>0, <1>1, <1>2 DEF CountInv
<1>8. LossInv' BY <1>0, <1>1, <1>2, <1>3 DEF LossInv
<1> QED BY <1>5, <1>6, <1>7, <1>8 DEF StreamInv

\* The bridge dials.
LEMMA DialStep ==
    ASSUME TypeOK, CloseInv, StreamInv, [Next]_vars, BridgeDials
    PROVE  StreamInv'
<1> USE StreamFrame
<1>0. SessionInv /\ OrderInv /\ CountInv /\ LossInv BY DEF StreamInv
<1>1. bridge.out = "dial" /\ UNCHANGED <<sess, out, endSent, closer, main, shown, flags, frame>>
    BY DEF BridgeDials, session, outer, workers
<1>2. sess \in {"listening", "gone"} /\ Far = <<>> /\ ~endSent BY <1>0, <1>1 DEF SessionInv
<1>3. CASE bridge'.out = "copy" /\ UNCHANGED pipe
    <2>1. SessionInv' BY <1>0, <1>1, <1>3 DEF SessionInv, Far, Near, Attached
    <2>2. OrderInv' BY <1>0, <1>1, <1>3 DEF OrderInv, Far, Near
    <2>3. CountInv' BY <1>0, <1>1, <1>2, <1>3 DEF CountInv
    <2>4. LossInv' BY <1>0, <1>1, <1>2, <1>3 DEF LossInv
    <2> QED BY <2>1, <2>2, <2>3, <2>4 DEF StreamInv
<1>4. CASE bridge'.out = "exited" /\ sess = "gone" /\ pipe' = Close(pipe, "stdin", "stdout")
    <2>1. /\ Far' = Far /\ Near' = Near /\ pipe'["sockUp"].q = pipe["sockUp"].q
          /\ pipe'["stdin"].q = <<>>
          /\ pipe'["sockDown"].eof <=> pipe["sockDown"].eof
          /\ pipe'["sockDown"].gone <=> pipe["sockDown"].gone
          /\ pipe'["stdout"].gone <=> pipe["stdout"].gone
          /\ pipe'["sockUp"].gone <=> pipe["sockUp"].gone
        BY <1>4, NearEnds DEF Far, Near
    <2>2. SessionInv' BY <1>0, <1>1, <1>2, <1>4, <2>1 DEF SessionInv
    <2>3. OrderInv' BY <1>0, <1>1, <2>1 DEF OrderInv
    <2>4. CountInv' BY <1>0, <1>1, <1>2, <1>4 DEF CountInv
    <2>5. LossInv' BY <1>1, <1>2, <1>4, <2>1 DEF LossInv
    <2> QED BY <2>2, <2>3, <2>4, <2>5 DEF StreamInv
<1>5. \/ bridge'.out = "copy" /\ UNCHANGED pipe
      \/ bridge'.out = "exited" /\ sess = "gone" /\ pipe' = Close(pipe, "stdin", "stdout")
    BY DEF BridgeDials, TypeOK, Process
<1> QED BY <1>3, <1>4, <1>5

\* The connection to the session is closed on the client's side.
LEMMA DropStep ==
    ASSUME TypeOK, CloseInv, StreamInv, [Next]_vars, LossInv',
           Far' = <<>>, Near' = Near, pipe'["sockDown"].gone,
           pipe'["sockDown"].eof <=> pipe["sockDown"].eof,
           pipe'["sockUp"].gone <=> pipe["sockUp"].gone,
           pipe'["stdout"].gone <=> pipe["stdout"].gone,
           pipe'["stdout"].eof \/ pipe'["stdin"].gone =>
              bridge'.out = "exited" \/ pipe["stdout"].eof \/ pipe["stdin"].gone,
           main.pc = "request" =>
              pipe'["sockUp"].q = pipe["sockUp"].q /\ pipe'["stdin"].q \in {<<>>, pipe["stdin"].q},
           bridge'.out = "exited" \/ bridge'.out = bridge.out, bridge'.out # "dial",
           UNCHANGED <<sess, out, endSent, main, shown, flags, frame>>
    PROVE  StreamInv'
<1> USE StreamFrame
<1>0. SessionInv /\ OrderInv /\ CountInv /\ LossInv BY DEF StreamInv
<1>1. Len(<<>>) = 0 /\ EndsLast(<<>>) /\ ~Has(<<>>, "ended") /\ ~Has(<<>>, "refused") BY EmptyHas
<1>2. (Waiting' <=> Waiting) /\ (Attached' <=> Attached) BY DEF Waiting, Attached
<1>3. SessionInv' BY <1>0, <1>2 DEF SessionInv
<1>4. OrderInv' BY <1>0, <1>1 DEF OrderInv
<1>5. CountInv'
    <2>1. Has(Near, "ended") => Far = <<>> BY <1>0 DEF OrderInv
    <2> QED BY <1>0, <1>1, <1>2, <2>1 DEF CountInv
<1> QED BY <1>3, <1>4, <1>5 DEF StreamInv

\* The inbound copy.
LEMMA InboundStep ==
    ASSUME TypeOK, BridgeInv, CloseInv, StreamInv, [Next]_vars, BridgeInbound
    PROVE  StreamInv'
<1> USE StreamFrame
<1>0. SessionInv /\ OrderInv /\ CountInv /\ LossInv BY DEF StreamInv
<1>1. bridge.in = "copy" /\ UNCHANGED <<sess, out, endSent, closer, main, shown, flags, frame>>
    BY DEF BridgeInbound, session, outer, workers
<1>2. bridge.out # "dial" BY <1>0, <1>1 DEF SessionInv
<1>3. bridge'.out = bridge.out BY DEF BridgeInbound, TypeOK, Process
<1>4. (Waiting' <=> Waiting) /\ (Attached' <=> Attached) BY <1>1 DEF Waiting, Attached
<1>5. CASE CanRead("stdin") /\ pipe' = Pop(Put(pipe, "sockUp", Head(pipe["stdin"].q)), "stdin")
    <2>1. pipe["stdin"].q # <<>> BY <1>5 DEF CanRead
    <2>2. main.pc # "request" BY <1>0, <2>1 DEF SessionInv
    <2> DEFINE h == Head(pipe["stdin"].q)
               ps == Put(pipe, "sockUp", h)
    <2>3. h \in Messages BY <2>1, Names, PopPipe
    <2>4. ps = Put(pipe, "sockUp", h) OBVIOUS
    <2> HIDE DEF h, ps
    <2>5. ps \in Pipes BY <2>3, <2>4, Names, PutPipe
    <2>6. ASSUME NEW o \in PipeNames
          PROVE  /\ ps[o].eof <=> pipe[o].eof
                 /\ ps[o].gone <=> pipe[o].gone
                 /\ o # "sockUp" => ps[o].q = pipe[o].q
        BY <2>3, <2>4, Names, PutPipe
    <2>7. pipe' = Pop(ps, "stdin") /\ ps["stdin"].q # <<>> BY <1>5, <2>1, <2>6, Names DEF ps, h
    <2>8. ASSUME NEW o \in PipeNames
          PROVE  /\ pipe'[o].eof <=> ps[o].eof
                 /\ pipe'[o].gone <=> ps[o].gone
                 /\ o # "stdin" => pipe'[o].q = ps[o].q
        BY <2>5, <2>7, Names, PopPipe
    <2>9. SameEnds(pipe', pipe) BY <2>6, <2>8, Names DEF SameEnds
    <2>10. Far' = Far /\ Near' = Near BY <2>6, <2>8, Names DEF Far, Near
    <2> QED BY <1>1, <1>3, <1>4, <2>2, <2>9, <2>10, QuietStep
<1>6. CASE pipe' = [pipe EXCEPT !["sockUp"].eof = TRUE]
    <2>1. ASSUME NEW o \in PipeNames
          PROVE  /\ pipe'[o].gone <=> pipe[o].gone
                 /\ pipe'[o].q = pipe[o].q
                 /\ o # "sockUp" => (pipe'[o].eof <=> pipe[o].eof)
        BY <1>6, Names, EndPipe
    <2>2. SameEnds(pipe', pipe) BY <2>1, Names DEF SameEnds
    <2>3. Far' = Far /\ Near' = Near BY <2>1, Names DEF Far, Near
    <2>4. pipe'["sockUp"].q = pipe["sockUp"].q /\ pipe'["stdin"].q = pipe["stdin"].q BY <2>1, Names
    <2> QED BY <1>1, <1>3, <1>4, <2>2, <2>3, <2>4, QuietStep
<1>7. CASE pipe' = Close(pipe, "sockDown", "sockUp") /\ "broken" \in hit'
    <2>1. /\ Far' = <<>> /\ Near' = Near /\ pipe'["sockDown"].gone
          /\ pipe'["sockUp"].q = pipe["sockUp"].q /\ pipe'["stdin"].q = pipe["stdin"].q
          /\ pipe'["sockDown"].eof <=> pipe["sockDown"].eof
          /\ pipe'["stdout"].eof <=> pipe["stdout"].eof
          /\ pipe'["stdout"].gone <=> pipe["stdout"].gone
          /\ pipe'["sockUp"].gone <=> pipe["sockUp"].gone
          /\ pipe'["stdin"].gone <=> pipe["stdin"].gone
        BY <1>7, FarDrops DEF Far, Near
    <2>2. LossInv' BY <1>7 DEF LossInv, Clean
    <2> QED BY <1>1, <1>2, <1>3, <2>1, <2>2, DropStep
<1> QED BY <1>5, <1>6, <1>7 DEF BridgeInbound

\* The outbound copy.
LEMMA OutboundStep ==
    ASSUME TypeOK, BridgeInv, CloseInv, StreamInv, [Next]_vars, BridgeOutbound
    PROVE  StreamInv'
<1> USE StreamFrame
<1>0. SessionInv /\ OrderInv /\ CountInv /\ LossInv BY DEF StreamInv
<1>1. bridge.out = "copy" /\ UNCHANGED <<sess, out, endSent, closer, main, shown, flags, frame>>
    BY DEF BridgeOutbound, session, outer, workers
<1>2. route = "bridge" BY <1>1 DEF BridgeInv, TypeOK
<1>3. (Waiting' <=> Waiting) /\ (Attached' <=> Attached) BY <1>1 DEF Waiting, Attached
<1>4. CASE /\ CanRead("sockDown") /\ CanWrite("stdout") /\ UNCHANGED bridge
           /\ pipe' = Pop(Put(pipe, "stdout", Head(Far)), "sockDown")
    <2>1. Far # <<>> /\ ~pipe["sockDown"].gone BY <1>4 DEF CanRead, Far
    <2> DEFINE h == Head(Far)
               t == Tail(Far)
               a == Append(Near, h)
               ps == Put(pipe, "stdout", h)
    <2>2. h = Head(Far) /\ t = Tail(Far) /\ a = Append(Near, h) OBVIOUS
    <2>20. ps = Put(pipe, "stdout", h) OBVIOUS
    <2>3. h \in Messages BY <2>1
    <2> HIDE DEF h, t, a, ps
    <2>4. ps \in Pipes BY <2>3, <2>20, Names, PutPipe
    <2>5. ASSUME NEW o \in PipeNames
          PROVE  /\ ps[o].eof <=> pipe[o].eof
                 /\ ps[o].gone <=> pipe[o].gone
                 /\ ps[o].q = IF o = "stdout" THEN Append(pipe["stdout"].q, h) ELSE pipe[o].q
        BY <2>3, <2>20, Names, PutPipe
    <2>6. pipe' = Pop(ps, "sockDown") /\ ps["sockDown"].q = Far /\ ps["stdout"].q = a
        BY <1>4, <2>2, <2>5, <2>20, Names DEF Far, Near
    <2>7. ASSUME NEW o \in PipeNames
          PROVE  /\ pipe'[o].eof <=> ps[o].eof
                 /\ pipe'[o].gone <=> ps[o].gone
                 /\ pipe'[o].q = IF o = "sockDown" THEN Tail(ps["sockDown"].q) ELSE ps[o].q
        BY <2>1, <2>4, <2>6, Names, PopPipe
    <2>8. SameEnds(pipe', pipe) BY <2>5, <2>7, Names DEF SameEnds
    <2>9. Far' = t /\ Near' = a BY <2>2, <2>6, <2>7, Names DEF Far, Near
    <2>10. pipe'["sockUp"].q = pipe["sockUp"].q /\ pipe'["stdin"].q = pipe["stdin"].q
        BY <2>5, <2>7, Names
    <2>11. /\ \A x : Has(t, x) => Has(Far, x)
           /\ \A x : Has(Far, x) => x = h \/ Has(t, x)
           /\ Has(Far, h)
           /\ EndsLast(Far) => EndsLast(t)
           /\ EndsLast(Far) /\ h = "ended" => Len(Far) = 1 /\ t = <<>>
           /\ Len(t) = Len(Far) - 1
        BY <2>1, <2>2, TailHas
    <2>12. /\ \A x : Has(a, x) <=> (Has(Near, x) \/ x = h)
           /\ EndsLast(Near) /\ ~Has(Near, "ended") => EndsLast(a)
           /\ Len(a) = Len(Near) + 1
        BY <2>2, <2>3, AppendHas
    <2>13. ~Has(Near, "ended") /\ sess # "listening" BY <1>0, <2>1 DEF OrderInv, SessionInv
    <2>14. SessionInv' BY <1>0, <1>1, <1>2, <1>3, <1>4, <2>8, <2>10, <2>13 DEF SessionInv, SameEnds
    <2>15. OrderInv'
        <3>1. EndsLast(t) /\ EndsLast(a) BY <1>0, <2>11, <2>12, <2>13 DEF OrderInv
        <3>2. Has(t, "ended") \/ Has(a, "ended") => endSent BY <1>0, <2>11, <2>12 DEF OrderInv
        <3>3. Has(a, "ended") => t = <<>> BY <1>0, <2>11, <2>12, <2>13 DEF OrderInv
        <3>4. Has(t, "refused") \/ Has(a, "refused") => sess = "gone" /\ ~endSent
            BY <1>0, <2>11, <2>12 DEF OrderInv
        <3> QED BY <1>1, <2>9, <3>1, <3>2, <3>3, <3>4 DEF OrderInv
    <2>16. CountInv'
        <3>1. Len(Near') + Len(Far') = Len(Near) + Len(Far) /\ Len(Near') \in Nat /\ Len(Far') \in Nat
            BY <2>9, <2>11, <2>12
        <3>2. CASE (Waiting \/ Attached) /\ ~flags.sessionEnded /\ (sess = "serving" \/ endSent)
                   /\ ~pipe["stdout"].gone
            <4>1. shown + Len(Near) + Len(Far)
                     = out + (IF Waiting THEN 1 ELSE 0) + (IF endSent THEN 1 ELSE 0)
                BY <1>0, <2>1, <3>2 DEF CountInv
            <4>2. shown' + Len(Near') + Len(Far')
                     = out' + (IF Waiting' THEN 1 ELSE 0) + (IF endSent' THEN 1 ELSE 0)
                BY <1>1, <1>3, <3>1, <4>1
            <4> QED BY <1>0, <1>1, <3>2, <4>2 DEF CountInv
        <3> QED BY <1>0, <1>1, <1>3, <2>8, <3>2 DEF CountInv, SameEnds
    <2>17. LossInv'
        <3>1. Has(Far, "ended") => Has(t, "ended") \/ Has(a, "ended") BY <2>11, <2>12
        <3> QED BY <1>0, <1>1, <1>4, <2>8, <2>9, <2>13, <3>1 DEF LossInv, SameEnds
    <2> QED BY <2>14, <2>15, <2>16, <2>17 DEF StreamInv
<1>5. CASE /\ ReadFails("sockDown") \/ (CanRead("sockDown") /\ WriteFails("stdout"))
           /\ pipe' = Close(pipe, "stdin", "stdout") /\ bridge'.out = "join"
    <2>1. /\ Far' = Far /\ Near' = Near /\ pipe'["sockUp"].q = pipe["sockUp"].q
          /\ pipe'["stdin"].q = <<>>
          /\ pipe'["sockDown"].eof <=> pipe["sockDown"].eof
          /\ pipe'["sockDown"].gone <=> pipe["sockDown"].gone
          /\ pipe'["stdout"].gone <=> pipe["stdout"].gone
          /\ pipe'["sockUp"].gone <=> pipe["sockUp"].gone
        BY <1>5, NearEnds DEF Far, Near
    <2>2. SessionInv' BY <1>0, <1>1, <1>2, <1>3, <1>5, <2>1 DEF SessionInv
    <2>3. OrderInv' BY <1>0, <1>1, <2>1 DEF OrderInv
    <2>4. CountInv' BY <1>0, <1>1, <1>3, <2>1 DEF CountInv
    <2>5. LossInv'
        <3>1. ~pipe["stdout"].eof BY <1>0, <1>1 DEF SessionInv
        <3>2. ASSUME Clean, closer = "open" PROVE Far = <<>> /\ sess = "gone"
            <4>1. ~pipe["sockDown"].gone /\ ~pipe["stdout"].gone BY <1>0, <1>1, <1>2, <3>2 DEF LossInv
            <4>2. AtEOF("sockDown") BY <1>5, <3>1, <4>1 DEF ReadFails, WriteFails
            <4> QED BY <1>0, <4>2 DEF AtEOF, SessionInv, Far
        <3> QED BY <1>0, <1>1, <1>5, <2>1, <3>2 DEF LossInv
    <2> QED BY <2>2, <2>3, <2>4, <2>5 DEF StreamInv
<1>6. ASSUME NEW f, bridge' = [bridge EXCEPT !.out = "join", !.shut = TRUE, !.failed = f]
      PROVE  bridge'.out = "join"
    BY <1>6 DEF TypeOK, Process
<1> QED BY <1>4, <1>5, <1>6 DEF BridgeOutbound, Far

\* The bridge returns: both copies have ended, and nothing was left to pass on.
LEMMA ReturnsStep ==
    ASSUME TypeOK, BridgeInv, CloseInv, StreamInv, [Next]_vars, BridgeReturns
    PROVE  StreamInv'
<1> USE StreamFrame
<1>0. SessionInv /\ OrderInv /\ CountInv /\ LossInv BY DEF StreamInv
<1>1. /\ bridge.out = "join" /\ pipe' = Close(pipe, "sockDown", "sockUp")
      /\ UNCHANGED <<sess, out, endSent, closer, main, shown, flags, frame>>
    BY DEF BridgeReturns, session, outer, workers
<1>2. bridge'.out = "exited" BY DEF BridgeReturns, TypeOK
<1>3. route = "bridge" BY <1>1 DEF BridgeInv, TypeOK
<1>4. /\ Far' = <<>> /\ Near' = Near /\ pipe'["sockDown"].gone
      /\ pipe'["sockUp"].q = pipe["sockUp"].q /\ pipe'["stdin"].q = pipe["stdin"].q
      /\ pipe'["sockDown"].eof <=> pipe["sockDown"].eof
      /\ pipe'["stdout"].eof <=> pipe["stdout"].eof
      /\ pipe'["stdout"].gone <=> pipe["stdout"].gone
      /\ pipe'["sockUp"].gone <=> pipe["sockUp"].gone
      /\ pipe'["stdin"].gone <=> pipe["stdin"].gone
    BY <1>1, FarDrops DEF Far, Near
<1>5. LossInv' BY <1>0, <1>1, <1>2, <1>3, <1>4 DEF LossInv
<1> QED BY <1>1, <1>2, <1>4, <1>5, DropStep

\* The transport process dies, by a failure, by the grace timer or by the context,
\* or it may not be killed.
LEMMA DeathStep ==
    ASSUME TypeOK, CloseInv, StreamInv, [Next]_vars,
           TransportFails \/ ShutdownGraceExpires \/ CommandCanceled
    PROVE  StreamInv'
<1> USE StreamFrame
<1>0. UNCHANGED <<sess, out, endSent, closer, main, shown, flags, frame>>
    BY DEF TransportFails, ShutdownGraceExpires, CommandCanceled, session, outer, workers
<1>11. CASE UNCHANGED pipe /\ bridge' = [bridge EXCEPT !.failed = TRUE]
    <2>1. Far' = Far /\ Near' = Near /\ SameEnds(pipe', pipe) BY <1>11 DEF SameEnds, Far, Near
    <2>2. bridge'.out = bridge.out /\ bridge'.in = bridge.in BY <1>11 DEF TypeOK, Process
    <2>3. (Waiting' <=> Waiting) /\ (Attached' <=> Attached) BY <1>0 DEF Waiting, Attached
    <2> QED BY <1>0, <1>11, <2>1, <2>2, <2>3, QuietStep
<1>12. SUFFICES ASSUME ProcessDies PROVE StreamInv'
    BY <1>11 DEF TransportFails, ShutdownGraceExpires, CommandCanceled, Kill
<1>1. ProcessDies /\ UNCHANGED <<sess, out, endSent, closer, main, shown, flags, frame>>
    BY <1>0, <1>12
<1>2. ~Clean'
    BY DEF TransportFails, ShutdownGraceExpires, CommandCanceled, Fault, Clean, CloseInv
<1>3. bridge'.out = "exited" BY <1>1 DEF ProcessDies, TypeOK, Process
<1> DEFINE ps == Close(pipe, "stdin", "stdout")
<1>4. ps = Close(pipe, "stdin", "stdout") OBVIOUS
<1> HIDE DEF ps
<1>5. /\ ps \in Pipes /\ ps["stdout"].q = Near /\ ps["sockUp"].q = pipe["sockUp"].q /\ ps["stdin"].q = <<>>
      /\ ps["sockDown"].eof <=> pipe["sockDown"].eof
      /\ ps["sockUp"].gone <=> pipe["sockUp"].gone
      /\ ps["stdout"].gone <=> pipe["stdout"].gone
    BY <1>4, NearEnds DEF Near
<1>6. pipe' = Close(ps, "sockDown", "sockUp") BY <1>1, <1>4 DEF ProcessDies
<1>7. /\ Far' = <<>> /\ Near' = ps["stdout"].q /\ pipe'["sockDown"].gone
      /\ pipe'["sockUp"].q = ps["sockUp"].q /\ pipe'["stdin"].q = ps["stdin"].q
      /\ pipe'["sockDown"].eof <=> ps["sockDown"].eof
      /\ pipe'["sockUp"].gone <=> ps["sockUp"].gone
      /\ pipe'["stdout"].gone <=> ps["stdout"].gone
    BY <1>5, <1>6, FarDrops DEF Far, Near
<1>8. /\ Near' = Near
      /\ pipe'["sockDown"].eof <=> pipe["sockDown"].eof
      /\ pipe'["sockUp"].gone <=> pipe["sockUp"].gone
      /\ pipe'["stdout"].gone <=> pipe["stdout"].gone
    BY <1>5, <1>7
<1>9. pipe'["sockUp"].q = pipe["sockUp"].q /\ pipe'["stdin"].q = <<>> BY <1>5, <1>7
<1>10. LossInv' BY <1>2 DEF LossInv
<1> QED BY <1>1, <1>3, <1>7, <1>8, <1>9, <1>10, DropStep

\* The client closes its end of the stream.
LEMMA CloserStep ==
    ASSUME TypeOK, BridgeInv, CloseInv, StreamInv, [Next]_vars, CloseSocket \/ CloseStdin \/ CloseStdout
    PROVE  StreamInv'
<1> USE StreamFrame
<1>0. SessionInv /\ OrderInv /\ CountInv /\ LossInv BY DEF StreamInv
<1>1. UNCHANGED <<bridge, sess, out, endSent, main, shown, flags, frame>>
    BY DEF CloseSocket, CloseStdin, CloseStdout, session, outer, workers
<1>2. (Waiting' <=> Waiting) /\ (Attached' <=> Attached) BY <1>1 DEF Waiting, Attached
<1>3. CASE CloseSocket
    <2>1. route = "socket" /\ closer' = "closed" /\ pipe' = Close(pipe, "sockDown", "sockUp")
        BY <1>3 DEF CloseSocket
    <2>2. /\ Far' = <<>> /\ Near' = Near /\ pipe'["sockDown"].gone
          /\ pipe'["sockUp"].q = pipe["sockUp"].q /\ pipe'["stdin"].q = pipe["stdin"].q
          /\ pipe'["sockDown"].eof <=> pipe["sockDown"].eof
          /\ pipe'["stdout"].eof <=> pipe["stdout"].eof
          /\ pipe'["stdout"].gone <=> pipe["stdout"].gone
          /\ pipe'["sockUp"].gone <=> pipe["sockUp"].gone
          /\ pipe'["stdin"].gone <=> pipe["stdin"].gone
        BY <2>1, FarDrops DEF Far, Near
    <2>3. bridge'.out = "exited" BY <1>1, <2>1 DEF BridgeInv
    <2>4. LossInv' BY <2>1 DEF LossInv
    <2> QED BY <1>1, <2>2, <2>3, <2>4, DropStep
<1>4. CASE CloseStdin
    <2>1. pipe' = [pipe EXCEPT !["stdin"].eof = TRUE] BY <1>4 DEF CloseStdin
    <2>2. ASSUME NEW o \in PipeNames
          PROVE  /\ pipe'[o].gone <=> pipe[o].gone
                 /\ pipe'[o].q = pipe[o].q
                 /\ o # "stdin" => (pipe'[o].eof <=> pipe[o].eof)
        BY <2>1, Names, EndPipe
    <2>3. SameEnds(pipe', pipe) BY <2>2, Names DEF SameEnds
    <2>4. Far' = Far /\ Near' = Near BY <2>2, Names DEF Far, Near
    <2>5. pipe'["sockUp"].q = pipe["sockUp"].q /\ pipe'["stdin"].q = pipe["stdin"].q BY <2>2, Names
    <2> QED BY <1>1, <1>2, <2>3, <2>4, <2>5, QuietStep
<1>5. CASE CloseStdout
    <2>1. /\ route = "bridge" /\ closer' = "closed"
          /\ pipe' = Drop(pipe, "stdout")
        BY <1>5 DEF CloseStdout, Drop
    <2>2. ASSUME NEW o \in PipeNames
          PROVE  /\ pipe'[o].eof <=> pipe[o].eof
                 /\ pipe'[o].gone <=> (pipe[o].gone \/ o = "stdout")
        BY <2>1, Names, DropPipe
    <2>10. ASSUME NEW o \in PipeNames PROVE pipe'[o].q = IF o = "stdout" THEN <<>> ELSE pipe[o].q
        <3>1. Drop(pipe, "stdout")[o].q = IF o = "stdout" THEN <<>> ELSE pipe[o].q BY Names, DropPipe
        <3> QED BY <2>1, <3>1
    <2>3. /\ Far' = Far /\ Near' = <<>> /\ pipe'["stdout"].gone
          /\ pipe'["sockUp"].q = pipe["sockUp"].q /\ pipe'["stdin"].q = pipe["stdin"].q
        BY <2>2, <2>10, Names DEF Far, Near
    <2>4. /\ pipe'["sockDown"].eof <=> pipe["sockDown"].eof
          /\ pipe'["sockUp"].gone <=> pipe["sockUp"].gone
          /\ pipe'["stdout"].eof <=> pipe["stdout"].eof
          /\ pipe'["stdin"].gone <=> pipe["stdin"].gone
        BY <2>2, Names
    <2>5. EndsLast(<<>>) /\ ~Has(<<>>, "ended") /\ ~Has(<<>>, "refused") BY EmptyHas
    <2>6. SessionInv' BY <1>0, <1>1, <1>2, <2>1, <2>3, <2>4 DEF SessionInv
    <2>7. OrderInv' BY <1>0, <1>1, <2>3, <2>5 DEF OrderInv
    <2>8. CountInv' BY <1>0, <1>1, <2>3 DEF CountInv
    <2>9. LossInv' BY <2>1 DEF LossInv
    <2> QED BY <2>6, <2>7, <2>8, <2>9 DEF StreamInv
<1> QED BY <1>3, <1>4, <1>5

\* The session reads, or the caller cancels.
LEMMA ListenStep ==
    ASSUME TypeOK, CloseInv, StreamInv, [Next]_vars, SessionReads \/ Cancel
    PROVE  StreamInv'
<1> USE StreamFrame
<1>0. SessionInv /\ OrderInv /\ CountInv /\ LossInv BY DEF StreamInv
<1>1. UNCHANGED <<bridge, out, endSent, main, shown, flags, frame>>
    BY DEF SessionReads, Cancel, session, outer, workers
<1>2. (Waiting' <=> Waiting) /\ (Attached' <=> Attached) BY <1>1 DEF Waiting, Attached
<1>3. sess' = sess \/ (sess = "serving" /\ sess' = "leaving") BY DEF SessionReads, Cancel, session
<1>4. CASE UNCHANGED pipe
    <2>1. Far' = Far /\ Near' = Near /\ SameEnds(pipe', pipe) BY <1>4 DEF SameEnds, Far, Near
    <2> QED BY <1>1, <1>2, <1>3, <1>4, <2>1, QuietStep
<1>5. CASE sess = "serving" /\ CanRead("sockUp") /\ pipe' = Pop(pipe, "sockUp")
    <2>1. main.pc # "request" BY <1>0, <1>5 DEF SessionInv
    <2>2. ASSUME NEW o \in PipeNames
          PROVE  /\ pipe'[o].eof <=> pipe[o].eof
                 /\ pipe'[o].gone <=> pipe[o].gone
                 /\ o # "sockUp" => pipe'[o].q = pipe[o].q
        BY <1>5, Names, PopPipe DEF CanRead
    <2>3. SameEnds(pipe', pipe) BY <2>2, Names DEF SameEnds
    <2>4. Far' = Far /\ Near' = Near BY <2>2, Names DEF Far, Near
    <2> QED BY <1>1, <1>2, <1>3, <2>1, <2>3, <2>4, QuietStep
<1> QED BY <1>4, <1>5 DEF SessionReads, Cancel

\* The client reads a frame m.
LEMMA PopStep ==
    ASSUME TypeOK, CloseInv, StreamInv, [Next]_vars,
           CanRead(Down), pipe' = Pop(pipe, Down), NEW m, m = Head(pipe[Down].q)
    PROVE  /\ SameEnds(pipe', pipe) /\ sess # "listening"
           /\ pipe'["sockUp"].q = pipe["sockUp"].q /\ pipe'["stdin"].q = pipe["stdin"].q
           /\ Len(Near') + Len(Far') = Len(Near) + Len(Far) - 1
           /\ Len(Near') \in Nat /\ Len(Far') \in Nat
           /\ Far = <<>> => Far' = <<>>
           /\ Near = <<>> => Near' = <<>>
           /\ \A x : Has(Far', x) => Has(Far, x)
           /\ \A x : Has(Near', x) => Has(Near, x)
           /\ \A x : Has(Far, x) \/ Has(Near, x) => x = m \/ Has(Far', x) \/ Has(Near', x)
           /\ Has(Far, m) \/ Has(Near, m)
           /\ EndsLast(Far') /\ EndsLast(Near')
           /\ m = "ended" => /\ Len(Near) + Len(Far) = 1 /\ ~pipe["stdout"].gone
                             /\ ~pipe["sockDown"].gone \/ Has(Near, "ended")
<1> USE StreamFrame
<1>0. SessionInv /\ OrderInv BY DEF StreamInv
<1>1. Down \in PipeNames /\ pipe[Down].q # <<>> /\ ~pipe[Down].gone BY Names DEF CanRead, Down
<1>2. ASSUME NEW o \in PipeNames
      PROVE  /\ pipe'[o].eof <=> pipe[o].eof
             /\ pipe'[o].gone <=> pipe[o].gone
             /\ o # Down => pipe'[o].q = pipe[o].q
    BY <1>1, PopPipe
<1>3. SameEnds(pipe', pipe) BY <1>2, Names DEF SameEnds
<1>4. pipe'[Down].q = Tail(pipe[Down].q) BY <1>1, PopPipe
<1>5. Down # "sockUp" /\ Down # "stdin" BY DEF Down
<1>6. pipe'["sockUp"].q = pipe["sockUp"].q /\ pipe'["stdin"].q = pipe["stdin"].q BY <1>2, <1>5, Names
<1>7. EndsLast(Far) /\ EndsLast(Near) BY <1>0 DEF OrderInv
<1>8. Len(<<>>) = 0 /\ EndsLast(<<>>) /\ \A x : ~Has(<<>>, x) BY EmptyHas
<1>9. CASE route = "socket"
    <2>1. Down = "sockDown" BY <1>9 DEF Down
    <2>2. Near = <<>> /\ Near' = Near /\ ~pipe["stdout"].gone BY <1>0, <1>2, <1>9, <2>1, Names DEF SessionInv, Near
    <2>3. Far # <<>> /\ m = Head(Far) /\ Far' = Tail(Far) BY <1>1, <1>4, <2>1 DEF Far
    <2>4. /\ \A x : Has(Far', x) => Has(Far, x)
          /\ \A x : Has(Far, x) => x = m \/ Has(Far', x)
          /\ Has(Far, m) /\ EndsLast(Far')
          /\ m = "ended" => Len(Far) = 1
          /\ Len(Far') = Len(Far) - 1 /\ Len(Far') \in Nat
        <3>1. /\ \A x : Has(Far', x) => Has(Far, x)
              /\ \A x : Has(Far, x) => x = m \/ Has(Far', x)
              /\ Has(Far, m)
              /\ EndsLast(Far) => EndsLast(Far')
              /\ EndsLast(Far) /\ m = "ended" => Len(Far) = 1 /\ Far' = <<>>
              /\ Len(Far') = Len(Far) - 1 /\ Len(Far) \in Nat \ {0} /\ Far' \in Seq(Messages)
            BY <2>3, TailHas
        <3> QED BY <1>7, <3>1
    <2>5. sess # "listening" BY <1>0, <2>3 DEF SessionInv
    <2>6. Len(Near') = 0 /\ Len(Near) = 0 /\ EndsLast(Near') /\ \A x : ~Has(Near, x) /\ ~Has(Near', x)
        BY <1>8, <2>2
    <2>7. Len(Near') + Len(Far') = Len(Near) + Len(Far) - 1 BY <2>4, <2>6
    <2> QED BY <1>1, <1>3, <1>6, <2>1, <2>2, <2>3, <2>4, <2>5, <2>6, <2>7
<1>10. CASE route = "bridge"
    <2>1. Down = "stdout" BY <1>10 DEF Down
    <2>2. Far' = Far /\ ~pipe["stdout"].gone BY <1>1, <1>2, <2>1, Names DEF Far
    <2>3. Near # <<>> /\ m = Head(Near) /\ Near' = Tail(Near) BY <1>1, <1>4, <2>1 DEF Near
    <2>4. /\ \A x : Has(Near', x) => Has(Near, x)
          /\ \A x : Has(Near, x) => x = m \/ Has(Near', x)
          /\ Has(Near, m) /\ EndsLast(Near')
          /\ m = "ended" => Len(Near) = 1
          /\ Len(Near') = Len(Near) - 1 /\ Len(Near') \in Nat
        <3>1. /\ \A x : Has(Near', x) => Has(Near, x)
              /\ \A x : Has(Near, x) => x = m \/ Has(Near', x)
              /\ Has(Near, m)
              /\ EndsLast(Near) => EndsLast(Near')
              /\ EndsLast(Near) /\ m = "ended" => Len(Near) = 1 /\ Near' = <<>>
              /\ Len(Near') = Len(Near) - 1 /\ Len(Near) \in Nat \ {0} /\ Near' \in Seq(Messages)
            BY <2>3, TailHas
        <3> QED BY <1>7, <3>1
    <2>5. sess # "listening" BY <1>0, <2>3 DEF SessionInv
    <2>6. m = "ended" => Len(Far) = 0 BY <1>0, <1>8, <2>4 DEF OrderInv
    <2>7. Len(Near') + Len(Far') = Len(Near) + Len(Far) - 1 BY <2>2, <2>4
    <2>8. m = "ended" => Len(Near) + Len(Far) = 1 BY <2>4, <2>6
    <2>9. EndsLast(Far') /\ Len(Far') \in Nat /\ \A x : Has(Far', x) <=> Has(Far, x) BY <1>7, <2>2
    <2> QED BY <1>3, <1>6, <2>2, <2>3, <2>4, <2>5, <2>7, <2>8, <2>9
<1> QED BY <1>9, <1>10 DEF TypeOK

\* The client writes.
LEMMA UpStep ==
    ASSUME TypeOK, CloseInv, [Next]_vars, NEW m \in Messages, pipe' = Put(pipe, Up, m)
    PROVE  Far' = Far /\ Near' = Near /\ SameEnds(pipe', pipe)
<1> USE StreamFrame
<1>1. Up \in PipeNames /\ Up # "sockDown" /\ Up # "stdout" BY Names DEF Up
<1>2. ASSUME NEW o \in PipeNames
      PROVE  /\ pipe'[o].eof <=> pipe[o].eof
             /\ pipe'[o].gone <=> pipe[o].gone
             /\ o # Up => pipe'[o].q = pipe[o].q
    BY <1>1, PutPipe
<1>3. SameEnds(pipe', pipe) BY <1>2, Names DEF SameEnds
<1> QED BY <1>1, <1>2, <1>3, Names DEF Far, Near

\* Attach asks, reads the answer and starts the goroutines.
LEMMA AskStep ==
    ASSUME TypeOK, GoInv, CloseInv, StreamInv, [Next]_vars, SendRequest \/ ReadResponse \/ Start
    PROVE  StreamInv'
<1> USE StreamFrame
<1>0. SessionInv /\ OrderInv /\ CountInv /\ LossInv BY DEF StreamInv
<1>1. UNCHANGED <<sess, out, endSent, bridge, shown, flags>>
    BY MainFrame DEF Main, session
<1>2. main.pc \in {"request", "response", "start"} /\ frame.pc = "idle" BY BeforeLoop DEF GoInv
<1>3. main \in MainState BY DEF TypeOK
<1>4. CASE UNCHANGED pipe /\ main'.pc = "defer"
    <2>1. ~Waiting' /\ ~Attached' BY <1>4 DEF Waiting, Attached
    <2>2. Far' = Far /\ Near' = Near /\ SameEnds(pipe', pipe) BY <1>4 DEF SameEnds, Far, Near
    <2> QED BY <1>1, <1>2, <1>4, <2>1, <2>2, QuietStep
<1>5. CASE /\ \E m \in Messages : pipe' = Put(pipe, Up, m)
           /\ \/ main.pc = "request" /\ main'.pc = "response"
              \/ main.pc = "start" /\ main'.pc = "select"
    <2>1. Far' = Far /\ Near' = Near /\ SameEnds(pipe', pipe) BY <1>5, UpStep
    <2>2. (Waiting' => Waiting) /\ (Attached' => Attached) BY <1>5 DEF Waiting, Attached
    <2> QED BY <1>1, <1>2, <1>5, <2>1, <2>2, QuietStep
<1>6. CASE /\ CanRead(Down) /\ Head(pipe[Down].q) = "ok" /\ pipe' = Pop(pipe, Down)
           /\ main.pc = "response" /\ main'.pc = "start" /\ UNCHANGED frame
    <2> DEFINE m == Head(pipe[Down].q)
    <2>1. /\ SameEnds(pipe', pipe) /\ sess # "listening"
          /\ pipe'["sockUp"].q = pipe["sockUp"].q /\ pipe'["stdin"].q = pipe["stdin"].q
          /\ Len(Near') + Len(Far') = Len(Near) + Len(Far) - 1
          /\ Len(Near') \in Nat /\ Len(Far') \in Nat
          /\ Far = <<>> => Far' = <<>>
          /\ Near = <<>> => Near' = <<>>
          /\ \A x : Has(Far', x) => Has(Far, x)
          /\ \A x : Has(Near', x) => Has(Near, x)
          /\ \A x : Has(Far, x) \/ Has(Near, x) => x = m \/ Has(Far', x) \/ Has(Near', x)
          /\ EndsLast(Far') /\ EndsLast(Near')
        BY <1>6, PopStep
    <2>2. m = "ok" BY <1>6
    <2> HIDE DEF m
    <2>3. Waiting /\ ~Waiting' /\ Attached' BY <1>6 DEF Waiting, Attached
    <2>4. SessionInv' BY <1>0, <1>1, <1>6, <2>1 DEF SessionInv, SameEnds
    <2>5. OrderInv' BY <1>0, <1>1, <2>1 DEF OrderInv
    <2>6. CountInv'
        <3>1. flags.sessionEnded <=> flags'.sessionEnded BY <1>1
        <3>2. ~flags.sessionEnded BY <1>0, <1>2 DEF CountInv
        <3>3. CASE /\ sess = "serving" \/ endSent
                   /\ ~pipe["stdout"].gone /\ (~pipe["sockDown"].gone \/ Has(Near, "ended"))
            <4>1. shown + Len(Near) + Len(Far) = out + 1 + (IF endSent THEN 1 ELSE 0)
                BY <1>0, <2>3, <3>2, <3>3 DEF CountInv
            <4>2. /\ Len(Near') + Len(Far') = Len(Near) + Len(Far) - 1
                  /\ Len(Near') \in Nat /\ Len(Far') \in Nat
                BY <2>1
            <4>3. shown + Len(Near') + Len(Far') = out + 0 + (IF endSent THEN 1 ELSE 0)
                BY <4>1, <4>2
            <4>4. shown' = shown /\ out' = out /\ endSent' = endSent BY <1>1
            <4> QED BY <2>3, <3>1, <3>2, <4>3, <4>4 DEF CountInv
        <3> QED BY <1>1, <2>1, <3>1, <3>2, <3>3 DEF CountInv, SameEnds
    <2>7. LossInv' BY <1>0, <1>1, <2>1, <2>2 DEF LossInv, SameEnds
    <2> QED BY <2>4, <2>5, <2>6, <2>7 DEF StreamInv
<1>7. CASE SendRequest
    BY <1>3, <1>4, <1>5, <1>7 DEF SendRequest, EarlyReturn, MainState, Messages
<1>8. CASE ReadResponse
    BY <1>3, <1>4, <1>6, <1>8 DEF ReadResponse, EarlyReturn, MainState, workers
<1>9. CASE Start
    BY <1>3, <1>4, <1>5, <1>9 DEF Start, EarlyReturn, MainState, Messages
<1> QED BY <1>7, <1>8, <1>9

\* The loop leaves the stream alone.
LEMMA LoopQuiet ==
    ASSUME TypeOK, CloseInv, StreamInv, [Next]_vars,
           Select \/ PickFrame \/ PickInput \/ Join \/ Return
    PROVE  StreamInv'
<1>1. UNCHANGED <<pipe, sess, out, endSent, bridge, shown, flags, frame>>
    BY DEF Select, PickFrame, PickInput, Join, Return, session, workers
<1>2. main'.pc \in {"pickFrame", "pickInput", "join", "defer", "returned"}
    BY DEF Select, PickFrame, PickInput, Join, Return, TypeOK, MainState
<1>3. main'.pc \in {"pickFrame", "pickInput", "join"} => Attached
    BY DEF Select, PickFrame, PickInput, Join, Return, TypeOK, MainState, Attached
<1>4. ~Waiting' /\ (Attached' => Attached) /\ main'.pc # "request" BY <1>2, <1>3 DEF Waiting, Attached
<1>5. Far' = Far /\ Near' = Near /\ SameEnds(pipe', pipe) BY <1>1 DEF SameEnds, Far, Near
<1> QED BY <1>1, <1>4, <1>5, QuietStep

\* The frame reader handles a frame.
LEMMA FrameStep ==
    ASSUME TypeOK, GoInv, CloseInv, StreamInv, [Next]_vars, FrameReads, ~ReadFails(Down)
    PROVE  StreamInv'
<1> USE StreamFrame
<1>0. SessionInv /\ OrderInv /\ CountInv /\ LossInv BY DEF StreamInv
<1>1. /\ CanRead(Down) /\ pipe' = Pop(pipe, Down) /\ frame.pc = "reading"
      /\ UNCHANGED <<sess, out, endSent, bridge, closer, main>>
    BY DEF FrameReads, rest, session, outer
<1> DEFINE m == Head(pipe[Down].q)
<1>2. /\ SameEnds(pipe', pipe) /\ sess # "listening"
      /\ pipe'["sockUp"].q = pipe["sockUp"].q /\ pipe'["stdin"].q = pipe["stdin"].q
      /\ Len(Near') + Len(Far') = Len(Near) + Len(Far) - 1
      /\ Len(Near') \in Nat /\ Len(Far') \in Nat
      /\ Far = <<>> => Far' = <<>>
      /\ Near = <<>> => Near' = <<>>
      /\ \A x : Has(Far', x) => Has(Far, x)
      /\ \A x : Has(Near', x) => Has(Near, x)
      /\ \A x : Has(Far, x) \/ Has(Near, x) => x = m \/ Has(Far', x) \/ Has(Near', x)
      /\ Has(Far, m) \/ Has(Near, m)
      /\ EndsLast(Far') /\ EndsLast(Near')
      /\ m = "ended" => /\ Len(Near) + Len(Far) = 1 /\ ~pipe["stdout"].gone
                        /\ ~pipe["sockDown"].gone \/ Has(Near, "ended")
    BY <1>1, PopStep
<1>3. \/ m \in {"output", "size"} /\ shown' = shown + 1 /\ UNCHANGED flags
      \/ /\ m = "ended" /\ shown' = shown /\ flags' = [flags EXCEPT !.sessionEnded = TRUE]
         /\ frame' = Done("nil")
    BY DEF FrameReads
<1> HIDE DEF m
<1>4. ~flags.sessionEnded BY <1>0, <1>1 DEF CountInv
<1>5. Attached /\ ~Waiting /\ main.pc # "request"
    BY <1>1 DEF GoInv, Attached, Waiting, TypeOK, MainState, Looping
<1>6. Attached' /\ ~Waiting' BY <1>1, <1>5 DEF Attached, Waiting
<1>7. SessionInv' BY <1>0, <1>1, <1>2, <1>5 DEF SessionInv, SameEnds
<1>8. OrderInv' BY <1>0, <1>1, <1>2 DEF OrderInv
<1>9. CASE m \in {"output", "size"} /\ shown' = shown + 1 /\ UNCHANGED flags
    <2>1. CountInv'
        <3>1. CASE /\ sess = "serving" \/ endSent
                   /\ ~pipe["stdout"].gone /\ (~pipe["sockDown"].gone \/ Has(Near, "ended"))
            <4>1. shown + Len(Near) + Len(Far) = out + 0 + (IF endSent THEN 1 ELSE 0)
                BY <1>0, <1>4, <1>5, <3>1 DEF CountInv
            <4>2. /\ Len(Near') + Len(Far') = Len(Near) + Len(Far) - 1
                  /\ Len(Near') \in Nat /\ Len(Far') \in Nat
                  /\ Len(Near) \in Nat /\ Len(Far) \in Nat /\ shown \in Nat
                BY <1>2
            <4>3. (shown + 1) + Len(Near') + Len(Far') = out + 0 + (IF endSent THEN 1 ELSE 0)
                BY ONLY <4>1, <4>2
            <4>4. shown' = shown + 1 /\ out' = out /\ endSent' = endSent BY <1>1, <1>9
            <4>5. shown' + Len(Near') + Len(Far')
                     = out' + (IF Waiting' THEN 1 ELSE 0) + (IF endSent' THEN 1 ELSE 0)
                BY ONLY <1>6, <4>3, <4>4
            <4> QED BY ONLY <1>4, <1>9, <4>5 DEF CountInv
        <3> QED BY <1>1, <1>2, <1>4, <1>9, <3>1 DEF CountInv, SameEnds
    <2>2. LossInv' BY <1>0, <1>1, <1>2, <1>9 DEF LossInv, SameEnds
    <2> QED BY <1>7, <1>8, <2>1, <2>2 DEF StreamInv
<1>10. CASE /\ m = "ended" /\ shown' = shown /\ flags' = [flags EXCEPT !.sessionEnded = TRUE]
            /\ frame' = Done("nil")
    <2>1. flags'.sessionEnded /\ frame'.pc = "done" BY <1>10 DEF TypeOK, Done
    <2>2. endSent BY <1>0, <1>2, <1>10 DEF OrderInv
    <2>3. shown + Len(Near) + Len(Far) = out + 0 + 1
        BY <1>0, <1>2, <1>4, <1>5, <1>10, <2>2 DEF CountInv
    <2>4. shown = out BY <1>2, <1>10, <2>3
    <2>5. CountInv' BY <1>1, <1>10, <2>1, <2>2, <2>4 DEF CountInv
    <2>6. LossInv' BY <1>0, <1>1, <1>2, <2>1 DEF LossInv, SameEnds
    <2> QED BY <1>7, <1>8, <2>5, <2>6 DEF StreamInv
<1> QED BY <1>3, <1>9, <1>10

\* What else the goroutines do leaves the stream alone.
LEMMA WorkQuiet ==
    ASSUME TypeOK, GoInv, CloseInv, StreamInv, [Next]_vars, Working, ~FrameReads \/ ReadFails(Down)
    PROVE  StreamInv'
<1> USE StreamFrame
<1>1. UNCHANGED <<sess, out, endSent, bridge, main>> BY WorkingFrame DEF rest, session, outer
<1>2. frame.pc = "done" => frame'.pc = "done" BY IdleWorkers
<1>3. UNCHANGED shown /\ (flags'.sessionEnded <=> flags.sessionEnded)
    <2>1. CASE FrameReads BY <2>1 DEF FrameReads, ReadFails, CanRead, AtEOF
    <2>2. CASE InputSends BY <2>2 DEF InputSends, TypeOK
    <2> QED BY <2>1, <2>2 DEF Working, Frames, Resizes, Inputs, FrameSizes, ResizeSizes, ResizeStops,
                InputCanceled, WindowChanges, InputReads, ViewFails
<1>4. UNCHANGED pipe \/ \E m \in Messages : pipe' = Put(pipe, Up, m) /\ main.pc # "request"
    <2>1. CASE FrameReads BY <2>1 DEF FrameReads, ReadFails, CanRead, AtEOF
    <2>2. CASE FrameSizes \/ ResizeSizes \/ InputSends
        <3>1. main.pc # "request" BY <2>2 DEF FrameSizes, ResizeSizes, InputSends, GoInv
        <3>2. UNCHANGED pipe \/ \E m \in Messages : pipe' = Put(pipe, Up, m)
            BY <2>2 DEF FrameSizes, ResizeSizes, InputSends, SendSize, Send, Messages
        <3> QED BY <3>1, <3>2
    <2> QED BY <2>1, <2>2 DEF Working, Frames, Resizes, Inputs, ResizeStops, InputCanceled,
                WindowChanges, InputReads, ViewFails
<1>5. Far' = Far /\ Near' = Near /\ SameEnds(pipe', pipe)
    <2>1. CASE UNCHANGED pipe BY <2>1 DEF SameEnds, Far, Near
    <2> QED BY <1>4, <2>1, UpStep
<1>6. (Waiting' <=> Waiting) /\ (Attached' <=> Attached) BY <1>1 DEF Waiting, Attached
<1> QED BY <1>1, <1>2, <1>3, <1>4, <1>5, <1>6, QuietStep

\* No step loses or reorders a frame.
LEMMA StreamStep ==
    ASSUME TypeOK, BridgeInv, GoInv, CloseInv, StreamInv, [Next]_vars
    PROVE  StreamInv'
<1>1. CASE Outside
    BY <1>1, AcceptStep, WriteStep, EndStep, GoneStep, DialStep, InboundStep, OutboundStep, ReturnsStep,
       DeathStep, CloserStep, ListenStep DEF Outside, Reader, Writer, Outbound, Closer
<1>2. CASE Main BY <1>2, AskStep, LoopQuiet DEF Main
<1>3. CASE Working BY <1>3, FrameStep, WorkQuiet
<1>4. CASE Finished \/ UNCHANGED vars
    BY <1>4 DEF Finished, vars, StreamInv, SessionInv, OrderInv, CountInv, LossInv, Far, Near, Clean,
                Waiting, Attached
<1> QED BY <1>1, <1>2, <1>3, <1>4, NextParts

-----------------------------------------------------------------------------
(* Why the goroutines end.                                                 *)

\* A session that is gone stays so, and announces nothing more.
LEMMA GoneStays ==
    ASSUME [Next]_vars
    PROVE  sess = "gone" /\ ~endSent => sess' = "gone" /\ ~endSent'
<1>1. CASE Outside
    BY <1>1 DEF Outside, Reader, Writer, Outbound, Closer, SessionAccepts, SessionReads, SessionLeaves,
       SessionWrites, SessionEnds, BridgeDials, BridgeOutbound, BridgeReturns, BridgeInbound,
       CloseSocket, CloseStdin, CloseStdout, ShutdownGraceExpires, SessionCrashes, TransportFails,
       Cancel, CommandCanceled, session
<1> QED BY <1>1, NextParts, MainFrame, WorkingFrame DEF Finished, vars, rest, session

\* While nothing else has ended the attachment, the stream ends without
\* FrameEnded only when the session never announced its end.
LEMMA EndSeen ==
    ASSUME TypeOK, CloseInv, StreamInv, Clean, closer = "open", ReadFails(Down), ~flags.sessionEnded
    PROVE  sess = "gone" /\ ~endSent
<1>0. SessionInv /\ LossInv BY DEF StreamInv
<1>1. AtEOF(Down) BY DEF ReadFails, CloseInv
<1>2. ~Has(<<>>, "ended") BY EmptyHas
<1>3. CASE route = "socket"
    <2>1. Far = <<>> /\ pipe["sockDown"].eof BY <1>1, <1>3 DEF AtEOF, Down, Far
    <2>2. Near = <<>> /\ sess = "gone" BY <1>0, <1>3, <2>1 DEF SessionInv
    <2> QED BY <1>0, <1>2, <2>1, <2>2 DEF LossInv, TypeOK
<1>4. CASE route = "bridge"
    <2>1. Near = <<>> /\ pipe["stdout"].eof BY <1>1, <1>4 DEF AtEOF, Down, Near
    <2>2. bridge.out \in {"join", "exited"} BY <1>0, <2>1 DEF SessionInv
    <2>3. Far = <<>> /\ sess = "gone" BY <1>0, <1>4, <2>2 DEF LossInv
    <2> QED BY <1>0, <1>2, <2>1, <2>3 DEF LossInv, TypeOK
<1> QED BY <1>3, <1>4 DEF TypeOK

FrameReason ==
    /\ frame.err \in {"local", "broken"} => frame.err \in hit
    /\ frame.err \in {"eof", "reset"} => "stream" \in hit \/ closer # "open"
    /\ frame.err \in {"eof", "reset"} /\ Clean => (sess = "gone" /\ ~endSent) \/ closer # "open"

InputReason ==
    /\ input.err \in {"local", "broken"} => input.err \in hit
    /\ input.err = "closed" => closer # "open"
    /\ input.err = "canceled" => ctx \/ stopped
    /\ input.pc = "detaching" \/ input.err = "detached" => "key" \in hit

ResizeReason ==
    /\ resize.err \in {"local", "broken"} => resize.err \in hit
    /\ resize.err = "closed" => closer # "open"
    /\ viewErr => "local" \in hit

StopReason == stopped => main.pc \in {"join", "defer", "returned"} /\ closer # "open"

\* A failed write of the client, as hit records it.
LEMMA WriteReason ==
    ASSUME TypeOK, CloseInv
    PROVE  /\ WriteError(Up) \in {"closed", "broken"}
           /\ WriteError(Up) = "closed" => closer # "open"
           /\ WriteError(Up) = "broken" => "broken" \in Broken
BY StreamErrors DEF Broken

\* Every goroutine that has ended had a reason.
LEMMA ReasonStep ==
    ASSUME TypeOK, GoInv, CloseInv, ErrInv, StreamInv, ReasonInv, [Next]_vars
    PROVE  ReasonInv'
<1>0. FrameReason /\ InputReason /\ ResizeReason /\ StopReason
    BY DEF ReasonInv, FrameReason, InputReason, ResizeReason, StopReason
<1> SUFFICES FrameReason' /\ InputReason' /\ ResizeReason' /\ StopReason'
    BY DEF ReasonInv, FrameReason, InputReason, ResizeReason, StopReason
<1>1. /\ hit \subseteq hit' /\ (closer # "open" => closer' # "open") /\ (Clean' => Clean)
      /\ ctx => ctx'
    BY HitGrows, CloserMoves DEF Clean, TypeOK, Cancel
<1>2. sess = "gone" /\ ~endSent => sess' = "gone" /\ ~endSent' BY GoneStays
<1>3. ASSUME frame'.err = frame.err PROVE FrameReason' BY <1>0, <1>1, <1>2, <1>3 DEF FrameReason
<1>4. ASSUME input'.err = input.err, input'.pc = "detaching" => input.pc = "detaching", stopped => stopped'
      PROVE  InputReason'
    BY <1>0, <1>1, <1>4 DEF InputReason
<1>5. ASSUME resize'.err = resize.err, viewErr' => viewErr \/ "local" \in hit' PROVE ResizeReason'
    BY <1>0, <1>1, <1>5 DEF ResizeReason
<1>6. ASSUME stopped' = stopped, main'.pc = main.pc \/ main.pc \notin {"join", "defer", "returned"}
      PROVE  StopReason'
    BY <1>0, <1>1, <1>6 DEF StopReason
<1>7. CASE Outside
    <2>1. UNCHANGED <<main, stopped, frame, input, resize, viewErr>> BY <1>7, OutsideFrame DEF workers
    <2> QED BY <1>3, <1>4, <1>5, <1>6, <2>1
<1>8. CASE Main
    <2>1. /\ frame'.err = frame.err /\ input'.err = input.err /\ resize'.err = resize.err
          /\ viewErr' = viewErr /\ (input'.pc = "detaching" => input.pc = "detaching")
        <3>1. CASE UNCHANGED <<frame, input, resize>> BY <1>8, <3>1, MainFrame
        <3>2. CASE Start
            BY <1>8, <3>2, MainFrame DEF Start, EarlyReturn, TypeOK, workers
        <3> QED BY <1>8, <3>1, <3>2, MainFrame
    <2>2. stopped => stopped' BY <1>8 DEF Main, SendRequest, ReadResponse, Start, Select, PickFrame,
                PickInput, Join, Return
    <2>3. StopReason'
        <3>0. main \in MainState BY DEF TypeOK
        <3>1. CASE PickInput
            <4>1. main'.pc = "join" BY <3>0, <3>1 DEF PickInput, MainState
            <4> QED BY <3>1, <4>1 DEF PickInput, StartClose, StopReason
        <3>2. CASE Join \/ Return
            <4>1. main'.pc \in {"defer", "returned"} /\ stopped' = stopped
                BY <3>0, <3>2 DEF Join, Return, MainState
            <4> QED BY <1>0, <1>1, <4>1 DEF StopReason
        <3>3. CASE SendRequest \/ ReadResponse \/ Start \/ Select \/ PickFrame
            <4>1. stopped' = stopped /\ main.pc \notin {"join", "defer", "returned"}
                BY <3>3 DEF SendRequest, ReadResponse, Start, Select, PickFrame
            <4> QED BY <1>6, <4>1
        <3> QED BY <1>8, <3>1, <3>2, <3>3 DEF Main
    <2> QED BY <1>3, <1>4, <1>5, <2>1, <2>2, <2>3
<1>9. CASE Working
    <2>0. UNCHANGED <<main, stopped, closer, ctx, sess, endSent>>
        BY <1>9, WorkingFrame DEF rest, outer, session
    <2>1. FrameReason'
        <3>1. CASE FrameReads
            <4>1. CASE frame' = [frame EXCEPT !.pc = "sizing"] \/ frame' = frame
                <5>1. frame'.err = frame.err BY <4>1 DEF TypeOK
                <5> QED BY <1>3, <5>1
            <4>2. CASE frame' = Done("local") /\ Fault("local")
                BY <4>2 DEF Done, Fault, FrameReason
            <4>3. CASE frame' = Done("nil") BY <4>3 DEF Done, FrameReason
            <4>4. CASE ReadFails(Down) /\ frame' = Done(ReadError(Down)) /\ hit' = StreamEnded
                <5>1. frame'.err = ReadError(Down) BY <4>4 DEF Done
                <5>2. ReadError(Down) \in {"closed", "eof", "reset"} BY DEF ReadError
                <5>3. "stream" \in hit' \/ closer # "open" BY <1>0, <4>4 DEF StreamEnded, StopReason
                <5>4. ~flags.sessionEnded BY <3>1 DEF FrameReads, StreamInv, CountInv
                <5>5. Clean => (sess = "gone" /\ ~endSent) \/ closer # "open" BY <4>4, <5>4, EndSeen
                <5> QED BY <1>1, <2>0, <5>1, <5>2, <5>3, <5>5 DEF FrameReason
            <4> QED BY <3>1, <4>1, <4>2, <4>3, <4>4 DEF FrameReads
        <3>2. CASE FrameSizes
            <4>1. CASE frame' = [frame EXCEPT !.pc = "reading"]
                <5>1. frame'.err = frame.err BY <4>1 DEF TypeOK
                <5> QED BY <1>3, <5>1
            <4>2. CASE frame' = Done("local") /\ Fault("local")
                BY <4>2 DEF Done, Fault, FrameReason
            <4>3. CASE frame' = Done(WriteError(Up)) /\ hit' = Broken
                <5>1. frame'.err = WriteError(Up) BY <4>3 DEF Done
                <5> QED BY <4>3, <5>1, WriteReason DEF FrameReason
            <4> QED BY <3>2, <4>1, <4>2, <4>3 DEF FrameSizes, SendSize, Send
        <3>3. CASE ~Frames
            <4>1. frame' = frame
                BY <1>9, <3>3 DEF Working, Resizes, Inputs, ResizeSizes, ResizeStops, InputCanceled,
                   InputSends, WindowChanges, InputReads, ViewFails
            <4> QED BY <1>3, <4>1
        <3> QED BY <3>1, <3>2, <3>3 DEF Frames
    <2>2. InputReason'
        <3>1. CASE InputReads
            <4>1. CASE input' = [input EXCEPT !.pc = "sending"]
                <5>1. input'.err = input.err /\ input'.pc = "sending" BY <4>1 DEF TypeOK
                <5> QED BY <1>4, <2>0, <5>1
            <4>2. CASE input' = [input EXCEPT !.pc = "detaching"] /\ hit' = hit \cup {"key"}
                <5>1. input'.err = input.err /\ "key" \in hit' BY <4>2 DEF TypeOK
                <5> QED BY <1>0, <1>1, <2>0, <5>1 DEF InputReason
            <4>3. CASE input' = Done("nil") BY <4>3 DEF Done, InputReason
            <4>4. CASE input' = Done("local") /\ Fault("local")
                BY <4>4 DEF Done, Fault, InputReason
            <4> QED BY <3>1, <4>1, <4>2, <4>3, <4>4 DEF InputReads
        <3>2. CASE InputCanceled
            BY <2>0, <3>2 DEF InputCanceled, Done, InputReason
        <3>3. CASE InputSends
            <4>1. CASE input' = [input EXCEPT !.pc = "reading"]
                <5>1. input'.err = input.err /\ input'.pc = "reading" BY <4>1 DEF TypeOK
                <5> QED BY <1>4, <2>0, <5>1
            <4>2. CASE input' = Done("detached") /\ input.pc = "detaching"
                <5>1. "key" \in hit' BY <1>0, <1>1, <4>2 DEF InputReason
                <5> QED BY <4>2, <5>1 DEF Done, InputReason
            <4>3. CASE input' = Done(WriteError(Up)) /\ hit' = Broken
                <5>1. input'.err = WriteError(Up) /\ input'.pc = "done" BY <4>3 DEF Done
                <5> QED BY <2>0, <4>3, <5>1, WriteReason DEF InputReason
            <4> QED BY <3>3, <4>1, <4>2, <4>3 DEF InputSends, Send
        <3>4. CASE ~InputReads /\ ~Inputs
            <4>1. input' = input
                BY <1>9, <3>4 DEF Working, Frames, Resizes, FrameReads, FrameSizes, ResizeSizes,
                   ResizeStops, WindowChanges, ViewFails
            <4> QED BY <1>4, <2>0, <4>1
        <3> QED BY <3>1, <3>2, <3>3, <3>4 DEF Inputs
    <2>3. ResizeReason'
        <3>1. CASE ResizeSizes
            <4>0. viewErr' = viewErr BY <3>1 DEF ResizeSizes
            <4>1. CASE resize' = [resize EXCEPT !.pc = "waiting"]
                <5>1. resize'.err = resize.err BY <4>1 DEF TypeOK
                <5> QED BY <1>5, <4>0, <5>1
            <4>2. CASE resize' = Done("local") /\ Fault("local")
                BY <4>2 DEF Done, Fault, ResizeReason
            <4>3. CASE resize' = Done(WriteError(Up)) /\ hit' = Broken
                <5>1. resize'.err = WriteError(Up) BY <4>3 DEF Done
                <5>2. viewErr' => "local" \in hit' BY <1>0, <1>1, <4>0 DEF ResizeReason
                <5> QED BY <2>0, <4>3, <5>1, <5>2, WriteReason DEF ResizeReason
            <4> QED BY <3>1, <4>1, <4>2, <4>3 DEF ResizeSizes, SendSize, Send
        <3>2. CASE ~ResizeSizes
            <4>1. resize'.err = resize.err /\ (viewErr' => viewErr \/ "local" \in hit')
                BY <1>9, <3>2 DEF Working, Frames, Resizes, Inputs, FrameReads, FrameSizes, ResizeStops,
                   InputCanceled, InputSends, WindowChanges, InputReads, ViewFails, Fault, TypeOK
            <4> QED BY <1>5, <4>1
        <3> QED BY <3>1, <3>2
    <2> QED BY <1>6, <2>0, <2>1, <2>2, <2>3
<1>10. CASE Finished \/ UNCHANGED vars
    BY <1>3, <1>4, <1>5, <1>6, <1>10 DEF Finished, vars
<1> QED BY <1>7, <1>8, <1>9, <1>10, NextParts

-----------------------------------------------------------------------------
(* What Attach concludes.                                                  *)

\* A stream that ended while the loop ran, and without FrameEnded, did not end
\* by the loop's doing.
LEMMA StreamCause ==
    ASSUME CloseInv, ErrInv, ReasonInv, main.pc \in {"select", "pickFrame"}, frame.err \notin {"none", "nil"}
    PROVE  FrameCause
<1>1. closer # "open" => ctx BY DEF CloseInv
<1>2. frame.err \in {"eof", "reset", "closed", "broken", "local"} BY DEF ErrInv
<1> QED BY <1>1, <1>2 DEF ErrInv, ReasonInv, FrameCause

\* An early return that nothing else explains is that of a session that is gone.
LEMMA EarlyVerdict ==
    ASSUME TypeOK, GoInv, CloseInv, StreamInv, SendRequest \/ ReadResponse \/ Start, Clean',
           main'.pc = "defer"
    PROVE  sess = "gone" /\ ~endSent
<1>0. SessionInv /\ OrderInv /\ CountInv /\ LossInv BY DEF StreamInv
<1>1. main.pc \in {"request", "response", "start"} /\ frame.pc = "idle" BY BeforeLoop DEF GoInv
<1>2. Clean BY MainFrame DEF Main, Clean
<1>3. closer = "open" BY <1>1, <1>2 DEF CloseInv, Clean
<1>4. ~flags.sessionEnded BY <1>0, <1>1 DEF CountInv
<1>5. main \in MainState BY DEF TypeOK
<1>6. CASE SendRequest
    <2>1. main.pc = "request" /\ WriteFails(Up) BY <1>5, <1>6 DEF SendRequest, MainState
    <2>2. pipe[Up].gone BY <1>3, <2>1 DEF WriteFails, CloseInv
    <2>3. ~endSent BY <1>0, <2>1 DEF SessionInv
    <2>4. CASE route = "socket"
        <3>1. pipe["sockUp"].gone BY <2>2, <2>4 DEF Up
        <3> QED BY <1>0, <2>3, <3>1 DEF SessionInv
    <2>5. CASE route = "bridge"
        <3>1. pipe["stdin"].gone BY <2>2, <2>5 DEF Up
        <3>2. bridge.out \in {"join", "exited"} BY <1>0, <3>1 DEF SessionInv
        <3> QED BY <1>0, <1>2, <1>3, <2>3, <2>5, <3>2 DEF LossInv
    <2> QED BY <2>4, <2>5 DEF TypeOK
<1>7. CASE ReadResponse
    <2>1. ReadFails(Down) \/ (CanRead(Down) /\ Head(pipe[Down].q) = "refused")
        BY <1>5, <1>7 DEF ReadResponse, MainState
    <2>2. CASE ReadFails(Down) BY <1>2, <1>3, <1>4, <2>2, EndSeen
    <2>3. CASE CanRead(Down) /\ Head(pipe[Down].q) = "refused"
        <3> DEFINE q == pipe[Down].q
        <3>1. q \in Seq(Messages) /\ q # <<>> /\ Head(q) = "refused" /\ (q = Far \/ q = Near)
            BY <2>3 DEF CanRead, TypeOK, Pipe, PipeNames, Down, Far, Near
        <3> HIDE DEF q
        <3>2. Len(q) \in Nat \ {0} /\ q[1] = "refused" BY <3>1
        <3>3. 1 \in 1..Len(q) BY <3>2
        <3>4. Has(q, "refused") BY <3>2, <3>3 DEF Has
        <3> QED BY <1>0, <3>1, <3>4 DEF OrderInv
    <2> QED BY <2>1, <2>2, <2>3
<1>8. CASE Start
    <2>1. CASE WriteFails(Up) /\ hit' = Broken
        <3>1. WriteError(Up) = "broken" BY <1>3, WriteReason
        <3>2. "broken" \in hit' BY <2>1, <3>1 DEF Broken
        <3> QED BY <3>2 DEF Clean
    <2>2. CASE Fault("local") BY <2>2 DEF Fault, Clean
    <2>3. CASE main' = [main EXCEPT !.pc = "select"] BY <1>5, <2>3 DEF MainState
    <2> QED BY <1>8, <2>1, <2>2, <2>3 DEF Start
<1> QED BY <1>6, <1>7, <1>8

\* What the loop sees before it ends: unless something else ended it, the end of
\* the session.
LEMMA LoopVerdict ==
    ASSUME CloseInv, ErrInv, ReasonInv, main.pc = "select", Clean,
           ctx \/ resize.err # "none" \/ frame.err # "none" \/ input.err # "none" \/ viewErr
    PROVE  flags.sessionEnded \/ (sess = "gone" /\ ~endSent)
<1>1. ~ctx /\ closer = "open" /\ ~stopped BY DEF CloseInv, Clean, ReasonInv
<1>2. ~viewErr BY DEF ReasonInv, Clean
<1>3. resize.err = "none"
    <2>1. resize.err \notin {"local", "broken"} BY DEF ReasonInv, Clean
    <2>2. resize.err # "closed" BY <1>1 DEF ReasonInv
    <2> QED BY <2>1, <2>2 DEF ErrInv
<1>4. input.err = "none"
    <2>1. input.err \notin {"local", "broken"} BY DEF ReasonInv, Clean
    <2>2. input.err \notin {"closed", "canceled"} BY <1>1 DEF ReasonInv
    <2>3. input.err \notin {"nil", "detached"} BY DEF ErrInv, ReasonInv, Clean
    <2> QED BY <2>1, <2>2, <2>3 DEF ErrInv
<1>5. frame.err \in {"nil", "eof", "reset"}
    <2>1. frame.err \notin {"local", "broken"} BY DEF ReasonInv, Clean
    <2>2. frame.err # "closed" BY <1>1 DEF ErrInv
    <2> QED BY <1>1, <1>2, <1>3, <1>4, <2>1, <2>2 DEF ErrInv
<1> QED BY <1>1, <1>5 DEF ErrInv, ReasonInv

\* The verdict stands.
LEMMA VerdictStep ==
    ASSUME TypeOK, GoInv, CloseInv, ErrInv, ErrInv', LoopInv, StreamInv, ReasonInv, VerdictInv, [Next]_vars
    PROVE  VerdictInv'
<1>0. CountInv BY DEF StreamInv
<1>1. hit \subseteq hit' BY HitGrows
<1>2. Clean' => Clean BY <1>1 DEF Clean
<1>3. sess = "gone" /\ ~endSent => sess' = "gone" /\ ~endSent' BY GoneStays
<1>4. frame' = frame /\ FrameCause => FrameCause'
    <2>1. ctx => ctx' BY CloserMoves DEF TypeOK, Cancel
    <2> QED BY <1>1, <2>1 DEF FrameCause
<1>5. CASE main' = main /\ frame' = frame /\ flags'.sessionEnded = flags.sessionEnded
    BY <1>2, <1>3, <1>4, <1>5 DEF VerdictInv
<1>6. CASE Outside BY <1>5, <1>6, OutsideFrame DEF workers
<1>7. CASE Working
    <2>1. main' = main BY <1>7, WorkingFrame DEF rest, outer
    <2>2. frame.pc \in {"idle", "done"} => frame' = frame BY <1>7, IdleWorkers
    <2>3. frame.err # "none" => frame' = frame BY <2>2 DEF ErrInv
    <2>4. flags.sessionEnded => flags'.sessionEnded
        BY <1>7 DEF Working, Frames, Resizes, Inputs, FrameReads, FrameSizes, ResizeSizes, ResizeStops,
           InputCanceled, InputSends, WindowChanges, InputReads, ViewFails, TypeOK
    <2>5. flags'.sessionEnded /\ ~flags.sessionEnded => frame.pc = "reading"
        BY <1>7 DEF Working, Frames, Resizes, Inputs, FrameReads, FrameSizes, ResizeSizes, ResizeStops,
           InputCanceled, InputSends, WindowChanges, InputReads, ViewFails, TypeOK
    <2>6. main.pc \in {"pickFrame", "pickInput", "join"} /\ main.frameDone => frame.err # "none"
        BY DEF LoopInv
    <2>7. main.pc \in {"defer", "returned"} => frame.pc \in {"idle", "done"} BY DEF GoInv
    <2> QED BY <1>2, <1>3, <1>4, <2>1, <2>2, <2>3, <2>4, <2>5, <2>6, <2>7 DEF VerdictInv
<1>8. CASE Main
    <2>0. main \in MainState BY DEF TypeOK
    <2>1. UNCHANGED <<sess, endSent, flags>> BY <1>8, MainFrame DEF session
    <2>2. CASE SendRequest \/ ReadResponse \/ Start
        <3>1. CASE \E err \in Errors \ {"none", "nil", "detached"}, o \in {"none", "aborted"} :
                      EarlyReturn(err, o)
            <4>1. main'.pc = "defer" /\ main'.outcome \in {"none", "aborted"} BY <3>1, EarlyReturned
            <4>2. frame.pc = "idle" BY <2>2, BeforeLoop DEF GoInv
            <4>3. ~flags.sessionEnded BY <1>0, <4>2 DEF CountInv
            <4>4. Clean' => sess = "gone" /\ ~endSent BY <2>2, <4>1, EarlyVerdict
            <4> QED BY <2>1, <4>1, <4>3, <4>4 DEF VerdictInv
        <3>2. CASE main'.pc \in {"response", "start", "select"} BY <3>2 DEF VerdictInv
        <3> QED BY <2>2, <3>1, <3>2, BeforeLoop
    <2>3. CASE Select
        <3>1. main.pc = "select" /\ UNCHANGED <<frame, hit>> BY <2>3 DEF Select, workers
        <3>2. PICK c \in {"ctx", "resize", "frame", "input", "view"} :
                 /\ CASE c = "ctx" -> ctx [] c = "resize" -> resize.err # "none"
                      [] c = "frame" -> frame.err # "none" [] c = "input" -> input.err # "none"
                      [] c = "view" -> viewErr
                 /\ main'.pc = "pickFrame" /\ (main'.frameDone <=> c = "frame")
            <4> DEFINE Err(c) == CASE c = "resize" -> resize.err [] c = "input" -> input.err
                                   [] c = "view" -> "local" [] OTHER -> "nil"
                       Res(c) == IF ctx THEN {"ctx"} \cup Unexpected(Err(c), TRUE) ELSE {Err(c)} \ {"nil"}
            <4>1. PICK c \in {"ctx", "resize", "frame", "input", "view"} :
                     /\ CASE c = "ctx" -> ctx [] c = "resize" -> resize.err # "none"
                          [] c = "frame" -> frame.err # "none" [] c = "input" -> input.err # "none"
                          [] c = "view" -> viewErr
                     /\ main' = [main EXCEPT !.pc = "pickFrame", !.shuttingDown = ctx,
                                          !.frameDone = c = "frame", !.inputDone = c = "input",
                                          !.resizeTaken = c = "resize", !.result = Res(c)]
                BY <2>3 DEF Select
            <4> HIDE DEF Res
            <4>2. main'.pc = "pickFrame" /\ (main'.frameDone <=> c = "frame") BY <2>0, <4>1 DEF MainState
            <4> QED BY <4>1, <4>2
        <3>3. ctx \/ resize.err # "none" \/ frame.err # "none" \/ input.err # "none" \/ viewErr BY <3>2
        <3>4. Clean => flags.sessionEnded \/ (sess = "gone" /\ ~endSent) BY <3>1, <3>3, LoopVerdict
        <3>5. main'.frameDone => frame.err # "none" BY <3>2
        <3>6. main'.frameDone /\ frame'.err # "nil" => FrameCause'
            BY <1>4, <3>1, <3>5, StreamCause
        <3>7. Clean' => Clean BY <1>2
        <3>8. main'.pc = "pickFrame" BY <3>2
        <3> QED BY <2>1, <3>4, <3>6, <3>7, <3>8 DEF VerdictInv
    <2>4. CASE PickFrame
        <3>1. /\ main.pc = "pickFrame" /\ main'.pc = "pickInput" /\ UNCHANGED <<frame, hit>>
              /\ main'.frameDone <=> (main.frameDone \/ frame.err # "none")
            BY <2>0, <2>4 DEF PickFrame, MainState, workers
        <3>2. main.frameDone => frame.err # "none" BY <3>1 DEF LoopInv
        <3>3. main'.frameDone /\ frame'.err # "nil" => FrameCause'
            BY <1>4, <3>1, <3>2, StreamCause
        <3> QED BY <1>2, <2>1, <3>1, <3>3 DEF VerdictInv
    <2>5. CASE PickInput
        <3>1. /\ main.pc = "pickInput" /\ main'.pc = "join" /\ UNCHANGED <<frame, hit>>
              /\ main'.frameDone = main.frameDone
            BY <2>0, <2>5 DEF PickInput, MainState, workers
        <3> QED BY <1>2, <1>4, <2>1, <3>1 DEF VerdictInv
    <2>6. CASE Join
        <3> DEFINE R == main.result \cup (IF main.resizeTaken THEN {} ELSE Unexpected(resize.err, TRUE))
                           \cup (IF main.inputDone THEN {} ELSE Unexpected(input.err, TRUE))
                           \cup Unexpected(frame.err, main.shuttingDown \/ ~main.frameDone \/ flags.detached)
                   o == IF flags.detached THEN "detached" ELSE IF flags.sessionEnded THEN "ended"
                        ELSE IF main.terminated THEN "disconnected" ELSE "aborted"
        <3>1. main' = [main EXCEPT !.pc = "defer", !.result = R, !.outcome = o] /\ main.pc = "join"
              /\ UNCHANGED <<frame, hit>>
            BY <2>6 DEF Join, workers
        <3>2. /\ o = "ended" => flags.sessionEnded
              /\ o = "disconnected" => ~flags.sessionEnded /\ main.terminated
              /\ flags.sessionEnded /\ ~flags.detached => o = "ended"
            <4>1. CASE flags.detached BY <4>1
            <4>2. CASE ~flags.detached /\ flags.sessionEnded BY <4>2
            <4>3. CASE ~flags.detached /\ ~flags.sessionEnded /\ main.terminated BY <4>3
            <4>4. CASE ~flags.detached /\ ~flags.sessionEnded /\ ~main.terminated BY <4>4
            <4> QED BY <4>1, <4>2, <4>3, <4>4
        <3> HIDE DEF R, o
        <3>3. main'.pc = "defer" /\ main'.outcome = o BY <2>0, <3>1 DEF MainState
        <3>4. flags.detached => ~Clean BY DEF ErrInv, ReasonInv, Clean
        <3>5. o = "disconnected" => FrameCause
            <4>1. main.terminated => main.frameDone BY <3>1 DEF LoopInv
            <4>2. frame.err = "nil" => flags.sessionEnded BY DEF ErrInv
            <4> QED BY <3>1, <3>2, <4>1, <4>2 DEF VerdictInv
        <3> QED BY <1>2, <1>4, <2>1, <3>1, <3>2, <3>3, <3>4, <3>5 DEF VerdictInv
    <2>7. CASE Return
        <3>1. /\ main.pc = "defer" /\ main'.pc = "returned" /\ UNCHANGED <<frame, hit>>
              /\ main'.outcome = main.outcome
            BY <2>0, <2>7 DEF Return, MainState, workers
        <3> QED BY <1>2, <1>4, <2>1, <3>1 DEF VerdictInv
    <2> QED BY <1>8, <2>2, <2>3, <2>4, <2>5, <2>6, <2>7 DEF Main
<1>9. CASE Finished \/ UNCHANGED vars BY <1>5, <1>9 DEF Finished, vars
<1> QED BY <1>6, <1>7, <1>8, <1>9, NextParts

-----------------------------------------------------------------------------
\* Attach starts with the truth invariant.
LEMMA TruthInit == Init => TruthInv
<1> SUFFICES ASSUME Init PROVE TruthInv OBVIOUS
<1>1. \A p \in PipeNames : pipe[p].q = <<>> /\ ~pipe[p].eof /\ ~pipe[p].gone BY DEF Init, Empty
<1>2. Far = <<>> /\ Near = <<>> BY <1>1, Names DEF Far, Near
<1>3. EndsLast(<<>>) /\ ~Has(<<>>, "ended") /\ ~Has(<<>>, "refused") BY EmptyHas
<1>4. main.pc = "request" /\ ~Attached BY DEF Init, Attached
<1>5. bridge.out = "dial" => bridge.in = "idle" BY DEF Init
<1>6. SessionInv
    <2>1. /\ pipe["sockUp"].q = <<>> /\ pipe["stdin"].q = <<>>
          /\ ~pipe["sockDown"].eof /\ ~pipe["sockUp"].gone /\ ~pipe["stdout"].eof /\ ~pipe["stdin"].gone
          /\ ~pipe["stdout"].gone
        BY <1>1, Names
    <2>2. sess = "listening" /\ out = 0 /\ shown = 0 /\ ~endSent BY DEF Init
    <2> QED BY <1>2, <1>4, <1>5, <2>1, <2>2 DEF SessionInv
<1>7. OrderInv BY <1>2, <1>3 DEF OrderInv
<1>8. CountInv BY DEF Init, CountInv
<1>9. LossInv
    <2>1. route = "bridge" => bridge.out = "dial" BY DEF Init
    <2>2. ~endSent /\ ~pipe["sockDown"].gone BY <1>1, Names DEF Init
    <2> QED BY <2>1, <2>2 DEF LossInv
<1>10. ReasonInv BY DEF Init, ReasonInv
<1>11. VerdictInv BY <1>4 DEF VerdictInv
<1> QED BY <1>6, <1>7, <1>8, <1>9, <1>10, <1>11 DEF TruthInv, StreamInv

\* Every step of the client, the bridge and the session preserves it.
LEMMA TruthStep == AttachInv /\ AttachInv' /\ TruthInv /\ [Next]_vars => TruthInv'
<1> SUFFICES ASSUME AttachInv, AttachInv', TruthInv, [Next]_vars PROVE TruthInv' OBVIOUS
<1>1. TypeOK /\ BridgeInv /\ GoInv /\ CloseInv /\ ErrInv /\ ErrInv' /\ LoopInv BY DEF AttachInv
<1>2. StreamInv /\ ReasonInv /\ VerdictInv BY DEF TruthInv
<1>3. StreamInv' BY <1>1, <1>2, StreamStep
<1>4. ReasonInv' BY <1>1, <1>2, ReasonStep
<1>5. VerdictInv' BY <1>1, <1>2, VerdictStep
<1> QED BY <1>3, <1>4, <1>5 DEF TruthInv

\* What the user is told on the way out: "session ended" only after every frame the
\* session wrote, "disconnected" only when the frame reader ended by the end of the
\* stream, by a write it could not make, by a failure of its own over a frame or by
\* a cancelation, and the end of a session not lost when nothing else ended the
\* attachment (runTerminalAttach, its frame reader and models.finish).
THEOREM OutcomeTold == Spec => []OutcomeIsTrue
<1>1. TruthInv => OutcomeIsTrue
    <2> SUFFICES ASSUME TruthInv, Returned PROVE OutcomeIsTrue BY DEF OutcomeIsTrue
    <2>1. CountInv /\ VerdictInv /\ main.pc = "returned" BY DEF TruthInv, StreamInv, Returned
    <2>2. main.outcome = "ended" => endSent /\ shown = out BY <2>1 DEF CountInv, VerdictInv
    <2>3. main.outcome = "disconnected" => FrameCause
        BY <2>1 DEF VerdictInv
    <2>4. endSent /\ main.outcome # "ended" => ~Clean BY <2>1 DEF VerdictInv
    <2> QED BY <2>2, <2>3, <2>4 DEF OutcomeIsTrue, FrameCause, Clean
<1> QED BY <1>1, TruthInit, TruthStep, AttachInvariant, PTL DEF Spec
====
