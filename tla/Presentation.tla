---------------------------- MODULE Presentation ----------------------------
(***************************************************************************)
(* How an attachment shows its session: attachModels (attachmodels.go),    *)
(* the painter of the isolated presentation (attachview.go), sendSize and  *)
(* the last lines of an attachment (client_attach.go), on a terminal       *)
(* emulator of the client's own (vt/vt.go).                                *)
(*                                                                         *)
(* The contents of a screen are the number of the last text drawn on it;   *)
(* text drawn over anything but its predecessor is "torn".  A piece of     *)
(* output is text, a program taking the modes it likes ("modes": input     *)
(* reporting, a hidden cursor, a scroll region), one giving them back      *)
(* ("plain"), or a switch of screens.  The frame reader, the resize        *)
(* goroutine, the painter and runTerminalAttach interleave; m.mu is mu.    *)
(* Columns, styles and the cursor's place are left out.                    *)
(***************************************************************************)
EXTENDS Naturals, FiniteSets

CONSTANTS
    Modes,        \* subset of {"auto", "isolated", "native"}
    Heights,      \* heights of the physical terminal
    DefaultRows,  \* vt.DefaultRows
    MaxFailures,  \* bound: kinds of writes that fail
    MaxPieces,    \* bound: pieces of output
    MaxEvents     \* bound: changes of the window and requests for its size

ASSUME ModesAssumption == Modes \subseteq {"auto", "isolated", "native"}
ASSUME HeightsAssumption == Heights \subseteq Nat \ {0} /\ DefaultRows \in Nat \ {0}
ASSUME BoundsAssumption == MaxFailures \in Nat /\ MaxPieces \in Nat /\ MaxEvents \in Nat

VARIABLES
    cfg,       \* the mode, and whether detach instructions are shown
    window,    \* the height of the physical terminal, a pending resize event, and
               \* whether it has ever grown (history)
    phys,      \* what it shows
    term,      \* the client's emulator
    m,         \* attachModels: presentation, nativeEntered, the hint and the sizes
    mu,        \* who holds m.mu
    view,      \* attachView
    painter,   \* paintLoop, with the local variables of paint
    frame,     \* the frame reader inside applyOutput
    sizer,     \* sendSize, by the goroutine that runs it
    main,      \* runTerminalAttach, and the outcome it finishes with
    sent,      \* the height last sent to the session, 0 for none
    pieces, events, failed

vars == <<cfg, window, phys, term, m, mu, view, painter, frame, sizer, main, sent,
          pieces, events, failed>>

Goroutines == {"main", "frame", "resize"}
Blank == [text |-> 0, rows |-> 0, hint |-> FALSE]
NoView == [live |-> FALSE, rows |-> 0, reserved |-> FALSE, wake |-> FALSE, done |-> FALSE]
NoPainter == [pc |-> "none", rows |-> 0, reserved |-> FALSE, screen |-> Blank]
NoFrame == [pc |-> "idle", piece |-> "none", switched |-> FALSE, old |-> 0, resized |-> FALSE]

-----------------------------------------------------------------------------
(* The emulator *)

Active(t) == IF t.alt THEN t.altText ELSE t.primary

\* Terminal.Write of a piece; n numbers the text.
Feed(t, piece, n) ==
    CASE piece = "text"  -> IF t.alt THEN [t EXCEPT !.altText = n] ELSE [t EXCEPT !.primary = n]
      [] piece = "modes" -> [t EXCEPT !.modes = TRUE, !.hidden = TRUE]
      [] piece = "plain" -> [t EXCEPT !.modes = FALSE, !.hidden = FALSE]
      [] OTHER           -> t

\* A sequence that toggles the active screen; ?1049h clears the alternate one.
Switch(t) == [t EXCEPT !.alt = ~@, !.altText = IF t.alt THEN @ ELSE 0]

\* DumpScreen.
Dump(t) == [text |-> Active(t), rows |-> t.rows, hint |-> FALSE]

-----------------------------------------------------------------------------
(* The physical terminal.  pre: the screen from before the attachment is still  *)
(* "shown", was "scrolled" away, scrolled away in part ("cut"), or "lost".      *)

DrawMain(p, text) ==
    [p EXCEPT !.primary = text, !.pre = IF @ = "shown" THEN "lost" ELSE @]

\* ESC[rows;1H and as many newlines, which scroll everything away unless the
\* terminal is taller.
ScrollAway(p, rows) ==
    [p EXCEPT !.pre = IF @ # "shown" THEN @ ELSE IF rows >= window.rows THEN "scrolled" ELSE "cut"]

LeaveAlt(p) == [p EXCEPT !.screen = "primary"]

\* Session bytes reach the terminal as they are.
Forward(p, piece, old, new) ==
    LET onto(text) == IF text = old THEN new ELSE "torn"
    IN CASE piece = "text" /\ p.screen = "alt" -> [p EXCEPT !.alt.text = onto(@)]
         [] piece = "text" /\ p.screen # "alt" -> DrawMain(p, onto(p.primary))
         [] piece = "modes" -> [p EXCEPT !.modes = TRUE, !.hidden = TRUE, !.region = TRUE]
         [] piece = "plain" -> [p EXCEPT !.modes = FALSE, !.hidden = FALSE, !.region = FALSE]
         [] OTHER -> p

\* The session's own switch, which the emulator has already followed.
ForwardSwitch(p) ==
    [p EXCEPT !.screen = IF term.alt THEN "alt" ELSE "primary", !.alt = IF term.alt THEN Blank ELSE @]

nativeModeReset(p) == [p EXCEPT !.modes = FALSE]
nativeCleanup(p) == [nativeModeReset(p) EXCEPT !.hidden = FALSE, !.region = FALSE]

\* What paint writes: the scroll region, the screen and the hint on the
\* reserved line.
Paint(p, rows, reserved, screen) ==
    LET q == [p EXCEPT !.region = reserved]
    IN IF p.screen = "alt"
       THEN [q EXCEPT !.alt = [screen EXCEPT !.rows = IF rows = screen.rows THEN rows ELSE 0,
                                             !.hint = reserved]]
       ELSE DrawMain(q, screen.text)

-----------------------------------------------------------------------------
(* Helpers of attachModels; mm is its state *)

\* A write of kind w fails: "paint", "enter" isolation, "native" or "leave".  The
\* last writes of finish are "final".
Fail(w) == Cardinality(failed) < MaxFailures /\ failed' = failed \cup {w}

sessionRows(mm, physicalRows) ==
    IF mm.presentation = "isolated" /\ cfg.instructions /\ physicalRows > 1
    THEN physicalRows - 1 ELSE physicalRows

\* resizeLocked, up to setSize.
Resized(mm, physicalRows) ==
    [mm EXCEPT !.rows = sessionRows(mm, physicalRows), !.physicalRows = physicalRows]

\* Mutant of setSize: a view that is already painting is not marked dirty.
setSizeSilently(v, mm) ==
    [v EXCEPT !.rows = mm.rows, !.reserved = mm.rows < mm.physicalRows, !.wake = @ \/ v.rows = 0]

\* setSize, and markDirty of the view.
setSize(v, mm) == [v EXCEPT !.rows = mm.rows, !.reserved = mm.rows < mm.physicalRows, !.wake = TRUE]
markDirty(v) == [v EXCEPT !.wake = TRUE]

\* Mutant of enterNative: the screen is not scrolled away first.
enterNativeInPlace(p) == IF m.nativeEntered THEN p ELSE [p EXCEPT !.title = cfg.instructions]

\* enterNative; the title is pushed along with the hint.
enterNative(p) ==
    IF m.nativeEntered THEN p
    ELSE [ScrollAway(p, m.physicalRows) EXCEPT !.title = cfg.instructions]

HintDue == cfg.instructions /\ ~m.hinted

\* showNativeHintOnce.
showNativeHintOnce(p) ==
    IF HintDue /\ ~term.alt THEN [p EXCEPT !.hint = TRUE] ELSE p
Hinted(mm) ==
    [mm EXCEPT !.nativeEntered = TRUE, !.hinted = @ \/ cfg.instructions,
               !.hintOnPrimary = IF HintDue THEN ~term.alt ELSE @]

\* nativeRepaint: the snapshot of both screens, or the primary screen and the
\* tracked modes.
nativeRepaint(p) ==
    [DrawMain(p, term.primary) EXCEPT
       !.hint = FALSE, !.modes = term.modes, !.hidden = term.hidden,
       !.screen = IF cfg.mode = "native" /\ term.alt THEN "alt" ELSE IF cfg.mode = "native" THEN "primary" ELSE @,
       !.alt = IF cfg.mode = "native" /\ term.alt THEN [Blank EXCEPT !.text = term.altText] ELSE @]

-----------------------------------------------------------------------------
Init ==
    /\ cfg \in [mode : Modes, instructions : BOOLEAN]
    /\ window \in [rows : Heights, signal : {FALSE}, grew : {FALSE}]
    /\ phys = [screen |-> "primary", primary |-> 0, alt |-> Blank, pre |-> "shown", region |-> FALSE,
               modes |-> FALSE, hidden |-> FALSE, hint |-> FALSE, title |-> FALSE]
    /\ term = [alt |-> FALSE, primary |-> 0, altText |-> 0, modes |-> FALSE, hidden |-> FALSE,
               rows |-> DefaultRows]
    /\ m = [presentation |-> "pending", nativeEntered |-> FALSE, hinted |-> FALSE,
            hintOnPrimary |-> FALSE, rows |-> DefaultRows, physicalRows |-> DefaultRows]
    /\ mu = "free" /\ view = NoView /\ painter = NoPainter /\ frame = NoFrame
    /\ sizer = [g \in Goroutines |-> [pc |-> "idle", rows |-> 0]]
    /\ main = [pc |-> "start", outcome |-> "none"] /\ sent = 0
    /\ pieces = 0 /\ events = 0 /\ failed = {}

-----------------------------------------------------------------------------
(* enterIsolated: the presentation is recorded and the model resized before the *)
(* terminal is switched; a failed write may have switched it all the same.      *)

isolatedEntry(p) == [p EXCEPT !.screen = "alt", !.alt = Blank]

enterIsolated(p) ==
    LET mm == Resized([m EXCEPT !.presentation = "isolated"], m.physicalRows)
    IN /\ m' = mm /\ term' = [term EXCEPT !.rows = mm.rows]
       /\ \/ /\ phys' = isolatedEntry(p)
             /\ view' = setSize([NoView EXCEPT !.live = TRUE], mm)
             /\ painter' = [NoPainter EXCEPT !.pc = "wait"]
             /\ UNCHANGED failed
          \/ /\ Fail("enter")
             /\ phys' \in {p, isolatedEntry(p)}
             /\ UNCHANGED <<view, painter>>

Start ==
    /\ main.pc = "start"
    /\ \/ /\ cfg.mode = "isolated" /\ enterIsolated(phys)
          /\ main' = [main EXCEPT !.pc = IF failed' = failed THEN "size" ELSE "abort"]
       \/ /\ cfg.mode # "isolated"
          /\ m' = [m EXCEPT !.presentation = IF cfg.mode = "native" THEN "native" ELSE @]
          /\ main' = [main EXCEPT !.pc = "size"]
          /\ UNCHANGED <<phys, term, view, painter, failed>>
    /\ sizer' = IF main'.pc = "size" THEN [sizer EXCEPT !["main"].pc = "read"] ELSE sizer
    /\ UNCHANGED <<cfg, window, mu, frame, sent, pieces, events>>

\* The goroutines start after the first sendSize.
Started ==
    /\ main.pc = "size" /\ sizer["main"].pc = "idle"
    /\ main' = [main EXCEPT !.pc = "run"]
    /\ UNCHANGED <<cfg, window, phys, term, m, mu, view, painter, frame, sizer, sent, pieces, events, failed>>

-----------------------------------------------------------------------------
(* sendSize *)

screens == <<cfg, phys, painter, frame, main, pieces, failed>>

\* The window changes and the process is signalled; signals coalesce.
WindowChanges ==
    /\ main.pc # "done" /\ events < MaxEvents
    /\ \E h \in Heights \ {window.rows} :
         window' = [rows |-> h, signal |-> TRUE, grew |-> window.grew \/ h > window.rows]
    /\ events' = events + 1
    /\ UNCHANGED <<screens, term, m, mu, view, sizer, sent>>

\* ResizeEvents delivers.
ResizeEvent ==
    /\ main.pc = "run" /\ sizer["resize"].pc = "idle" /\ window.signal
    /\ window' = [window EXCEPT !.signal = FALSE]
    /\ sizer' = [sizer EXCEPT !["resize"].pc = "read"]
    /\ UNCHANGED <<screens, term, m, mu, view, sent, events>>

\* The session asks with a FrameResize.
SizeRequested ==
    /\ main.pc = "run" /\ frame.pc = "idle" /\ sizer["frame"].pc = "idle" /\ events < MaxEvents
    /\ events' = events + 1
    /\ sizer' = [sizer EXCEPT !["frame"].pc = "read"]
    /\ UNCHANGED <<screens, window, term, m, mu, view, sent>>

ReadSize(g) ==
    /\ sizer[g].pc = "read"
    /\ sizer' = [sizer EXCEPT ![g] = [pc |-> "apply", rows |-> window.rows]]
    /\ UNCHANGED <<screens, window, term, m, mu, view, sent, events>>

\* applyResize: the emulator is resized first, then the view is told.
applyResize(g) ==
    /\ sizer[g].pc = "apply" /\ mu = "free"
    /\ mu' = g
    /\ m' = Resized(m, sizer[g].rows)
    /\ term' = [term EXCEPT !.rows = m'.rows]
    /\ sizer' = [sizer EXCEPT ![g].pc = "view"]
    /\ UNCHANGED <<screens, window, view, sent, events>>

SetViewSize(g) ==
    /\ sizer[g].pc = "view"
    /\ view' = IF view.live THEN setSize(view, m) ELSE view
    /\ mu' = "free"
    /\ sizer' = [sizer EXCEPT ![g] = [pc |-> "send", rows |-> m.rows]]
    /\ UNCHANGED <<screens, window, term, m, sent, events>>

SendSize(g) ==
    /\ sizer[g].pc = "send"
    /\ sent' = sizer[g].rows
    /\ sizer' = [sizer EXCEPT ![g] = [pc |-> "idle", rows |-> 0]]
    /\ UNCHANGED <<screens, window, term, m, mu, view, events>>

-----------------------------------------------------------------------------
(* applyOutput.  The frame reader holds m.mu from its first step to its last. *)

aside == <<cfg, window, sent, events, main>>

\* An output frame arrives; in auto mode it may hold several pieces.
ReceiveOutput ==
    /\ main.pc = "run" /\ frame.pc = "idle" /\ sizer["frame"].pc = "idle" /\ mu = "free"
    /\ pieces < MaxPieces
    /\ mu' = "frame"
    /\ frame' = [NoFrame EXCEPT !.pc = "write"]
    /\ UNCHANGED <<aside, phys, term, m, view, painter, sizer, pieces, failed>>

\* A snapshot, or the first frame of auto mode, replaces the model's state and
\* is presented from the model.
Synchronize ==
    /\ frame.pc = "write" /\ pieces < MaxPieces
    /\ pieces' = pieces + 1
    /\ \E alt, modes \in BOOLEAN :
         term' = [term EXCEPT !.alt = alt, !.primary = pieces', !.altText = IF alt THEN pieces' ELSE 0,
                              !.modes = modes, !.hidden = modes]
    /\ frame' = [frame EXCEPT !.pc = "follow"]
    /\ UNCHANGED <<aside, phys, m, mu, view, painter, sizer, failed>>

\* Terminal.Write, or WriteUntilScreenSwitch in auto mode: a piece, then a
\* switch of screens.  Forced modes forward the switch as well.
WriteTerm ==
    /\ frame.pc \in {"write", "more"} /\ m.presentation # "pending" /\ pieces < MaxPieces
    /\ pieces' = pieces + 1
    /\ \E piece \in {"none", "text", "modes", "plain"}, switch \in BOOLEAN :
         LET fed == Feed(term, piece, pieces')
         IN /\ piece # "none" \/ switch
            /\ switch /\ cfg.mode # "auto" => piece = "none"
            /\ term' = IF switch THEN Switch(fed) ELSE fed
            /\ frame' = [frame EXCEPT !.pc = "raw", !.piece = piece, !.switched = switch, !.old = Active(term)]
    /\ UNCHANGED <<aside, phys, m, mu, view, painter, sizer, failed>>

\* m.mu is released; a changed height is then sent.
FrameDone ==
    /\ frame' = NoFrame /\ mu' = "free"
    /\ sizer' = IF frame.resized THEN [sizer EXCEPT !["frame"].pc = "read"] ELSE sizer

\* An error ends the frame reader.
FrameFails == frame' = [NoFrame EXCEPT !.pc = "failed"] /\ mu' = "free" /\ UNCHANGED sizer

FollowNext == frame' = [frame EXCEPT !.pc = "follow"] /\ UNCHANGED <<mu, sizer>>
AfterRaw == IF frame.switched /\ cfg.mode = "auto" THEN FollowNext ELSE FrameDone

\* A write to a native screen fails, in whole or late: the session's bytes, or
\* the hint after them.  One that would have left the alternate screen is "leave".
NativeFails(p, hinted) ==
    /\ Fail(IF phys.screen = "alt" /\ ~term.alt THEN "leave" ELSE "native")
    /\ \/ phys' \in {phys, p} /\ m' = [m EXCEPT !.nativeEntered = TRUE]
       \/ HintDue /\ phys' \in {p, showNativeHintOnce(p)} /\ m' = hinted
    /\ FrameFails

\* presentRaw of what precedes the switch, which auto mode then follows.
presentRaw ==
    /\ frame.pc = "raw"
    /\ LET shown == Forward(enterNative(phys), frame.piece, frame.old, pieces)
           all == IF frame.switched /\ cfg.mode = "native" THEN ForwardSwitch(shown) ELSE shown
           quiet == frame.piece = "none" /\ cfg.mode = "auto"
       IN \/ /\ quiet /\ UNCHANGED <<phys, m, view, failed>> /\ FollowNext
          \/ /\ ~quiet /\ m.presentation = "isolated"
             /\ view' = markDirty(view) /\ UNCHANGED <<phys, m, failed>> /\ AfterRaw
          \/ /\ ~quiet /\ m.presentation = "native"
             /\ phys' = showNativeHintOnce(all) /\ m' = Hinted(m)
             /\ UNCHANGED <<view, failed>> /\ AfterRaw
          \/ /\ ~quiet /\ m.presentation = "native"
             /\ NativeFails(all, Hinted(m)) /\ UNCHANGED view
    /\ UNCHANGED <<aside, term, painter, pieces>>

\* followActiveScreen.
Wanted == IF term.alt THEN "isolated" ELSE "native"

FollowStays ==
    /\ frame.pc = "follow" /\ (cfg.mode # "auto" \/ Wanted = m.presentation)
    /\ frame' = [frame EXCEPT !.pc = "present"]
    /\ UNCHANGED <<aside, phys, term, m, mu, view, painter, sizer, pieces, failed>>

\* Modes the session set are withdrawn first.
FollowToIsolated ==
    /\ frame.pc = "follow" /\ cfg.mode = "auto" /\ Wanted = "isolated" /\ m.presentation # "isolated"
    /\ \/ /\ enterIsolated(IF m.nativeEntered THEN nativeModeReset(phys) ELSE phys)
          /\ IF failed' = failed
             THEN /\ frame' = [frame EXCEPT !.pc = "present", !.resized = @ \/ m'.rows # m.rows]
                  /\ UNCHANGED <<mu, sizer>>
             ELSE FrameFails
       \/ /\ m.nativeEntered /\ Fail("native") /\ FrameFails
          /\ phys' \in {phys, nativeModeReset(phys)} /\ UNCHANGED <<term, m, view, painter>>
    /\ UNCHANGED <<aside, pieces>>

\* leaveIsolated closes the view first.
FollowToNative ==
    /\ frame.pc = "follow" /\ cfg.mode = "auto" /\ Wanted = "native" /\ m.presentation # "native"
    /\ view' = IF view.live THEN [view EXCEPT !.done = TRUE] ELSE view
    /\ frame' = [frame EXCEPT !.pc = "leave"]
    /\ UNCHANGED <<aside, phys, term, m, mu, painter, sizer, pieces, failed>>

\* Mutant of Flushed: close drops a pending repaint.
FlushedNever(p) == p

\* attachView.close has returned: the painter has stopped, and a repaint it had
\* not begun is painted now.
ViewClosed == ~view.live \/ painter.pc = "stopped"
Flushed(p) == IF view.wake THEN Paint(p, view.rows, view.reserved, Dump(term)) ELSE p

leaveIsolated ==
    /\ frame.pc = "leave" /\ ViewClosed
    /\ LET mm == Resized([m EXCEPT !.presentation = "native"], m.physicalRows)
           left(p) == IF m.presentation = "isolated" THEN [LeaveAlt(p) EXCEPT !.region = FALSE] ELSE p
       IN /\ m' = mm /\ term' = [term EXCEPT !.rows = mm.rows]
          /\ \/ /\ phys' = left(Flushed(phys)) /\ UNCHANGED failed
                /\ frame' = [frame EXCEPT !.pc = "present", !.resized = @ \/ mm.rows # m.rows]
                /\ UNCHANGED <<mu, sizer>>
             \/ view.wake /\ Fail("paint") /\ phys' = left(phys) /\ FrameFails
             \/ m.presentation = "isolated" /\ Fail("leave") /\ phys' = Flushed(phys) /\ FrameFails
    /\ view' = NoView /\ painter' = NoPainter
    /\ UNCHANGED <<aside, pieces>>

\* The rest of an auto frame goes on under the new presentation.
AfterPresent ==
    \/ FrameDone
    \/ /\ frame.switched /\ pieces < MaxPieces
       /\ frame' = [NoFrame EXCEPT !.pc = "more", !.resized = frame.resized]
       /\ UNCHANGED <<mu, sizer>>

presentFromModel ==
    /\ frame.pc = "present"
    /\ LET repainted == nativeRepaint(enterNative(phys))
           mm == Hinted([m EXCEPT !.hintOnPrimary = FALSE])
       IN \/ /\ m.presentation = "isolated"
             /\ view' = markDirty(view) /\ UNCHANGED <<phys, m, failed>> /\ AfterPresent
          \/ /\ m.presentation = "native"
             /\ phys' = showNativeHintOnce(repainted) /\ m' = mm
             /\ UNCHANGED <<view, failed>> /\ AfterPresent
          \/ m.presentation = "native" /\ NativeFails(repainted, mm) /\ UNCHANGED view
    /\ UNCHANGED <<aside, term, painter, pieces>>

-----------------------------------------------------------------------------
(* paintLoop and paint *)

others == <<cfg, window, m, mu, frame, sizer, main, sent, pieces, events, term>>

PainterWakes ==
    /\ painter.pc = "wait"
    /\ \/ /\ view.wake
          /\ view' = [view EXCEPT !.wake = FALSE] /\ painter' = [painter EXCEPT !.pc = "size"]
       \/ /\ view.done
          /\ painter' = [painter EXCEPT !.pc = "stopped"] /\ UNCHANGED view
    /\ UNCHANGED <<others, phys, failed>>

PainterReadsSize ==
    /\ painter.pc = "size"
    /\ painter' = [painter EXCEPT !.pc = "dump", !.rows = view.rows, !.reserved = view.reserved]
    /\ UNCHANGED <<others, phys, view, failed>>

PainterDumps ==
    /\ painter.pc = "dump"
    /\ painter' = [painter EXCEPT !.pc = "paint", !.screen = Dump(term)]
    /\ UNCHANGED <<others, phys, view, failed>>

\* A failure is reported to runTerminalAttach and ends the loop.
PainterWrites ==
    /\ painter.pc = "paint"
    /\ \/ /\ phys' = Paint(phys, painter.rows, painter.reserved, painter.screen)
          /\ painter' = [NoPainter EXCEPT !.pc = "pause"] /\ UNCHANGED failed
       \/ Fail("paint") /\ painter' = [NoPainter EXCEPT !.pc = "stopped"] /\ UNCHANGED phys
    /\ UNCHANGED <<others, view>>

PainterPauses ==
    /\ painter.pc = "pause"
    /\ painter' \in {[painter EXCEPT !.pc = "wait"]} \cup
                    (IF view.done THEN {[painter EXCEPT !.pc = "stopped"]} ELSE {})
    /\ UNCHANGED <<others, phys, view, failed>>

-----------------------------------------------------------------------------
(* finish *)

closing == <<cfg, window, term, frame, sizer, sent, pieces, events>>

\* The goroutines have ended.  FrameEnded is not read after a failed frame, and
\* an attachment that never started is aborted.
BeginFinish ==
    /\ main.pc \in {"run", "abort"} /\ mu = "free" /\ frame.pc \in {"idle", "failed"}
    /\ \A g \in Goroutines : sizer[g].pc = "idle"
    /\ mu' = "main"
    /\ \E o \in {"detached", "ended", "disconnected", "aborted"} :
         /\ o = "ended" => frame.pc = "idle"
         /\ main.pc = "abort" => o = "aborted"
         /\ main' = [pc |-> "closing", outcome |-> o]
    /\ view' = IF view.live THEN [view EXCEPT !.done = TRUE] ELSE view
    /\ UNCHANGED <<closing, phys, m, painter, failed>>

\* nativeHintCleanup.
nativeHintCleanup(p) ==
    IF m.hinted /\ m.hintOnPrimary THEN [DrawMain(p, term.primary) EXCEPT !.hint = FALSE] ELSE p

\* What finish still writes: a pending repaint, what leaves the alternate screen,
\* and what comes after.
FinishWrites ==
    (IF view.wake THEN {"paint"} ELSE {})
    \cup (IF m.presentation = "isolated" \/ (m.nativeEntered /\ term.alt) THEN {"leave"} ELSE {})
    \cup (IF main.outcome # "aborted" \/ (m.presentation = "native" /\ m.nativeEntered)
          THEN {"final"} ELSE {})

\* The writes of finishIsolated: the hint is erased, the alternate screen is left,
\* and the earlier screen scrolled away, or given back as it was.
hintErased(p) ==
    IF m.hinted /\ m.hintOnPrimary THEN nativeHintCleanup(LeaveAlt(p)) ELSE p
altLeft(p) == LeaveAlt(hintErased(p))
scrolled(p) == [ScrollAway(altLeft(p), m.physicalRows) EXCEPT !.region = FALSE]
givenBack(p, outcome) ==
    IF outcome # "detached" THEN altLeft(p)
    ELSE IF m.nativeEntered THEN nativeCleanup(altLeft(p))
    ELSE IF m.rows < m.physicalRows THEN [altLeft(p) EXCEPT !.region = FALSE] ELSE altLeft(p)
lastScreen(p, text, hidden) == [DrawMain(scrolled(p), text) EXCEPT !.hidden = hidden]

\* What the terminal may be left with when the writes in lost fail, each in whole or
\* late.  After the write that leaves the alternate screen failed nothing is
\* written, after one of the last screen the others still are.
finishIsolated(p, outcome, lost) ==
    LET over == outcome \in {"ended", "disconnected"}
        partly == {lastScreen(p, Active(term), p.hidden), lastScreen(p, 0, FALSE), lastScreen(p, 0, p.hidden)}
    IN IF "leave" \in lost
       THEN {p, LeaveAlt(p), hintErased(p), altLeft(p),
             IF over THEN scrolled(p) ELSE givenBack(p, outcome)}
       ELSE IF over
       THEN {lastScreen(p, Active(term), FALSE)} \cup (IF "final" \in lost THEN partly ELSE {})
       ELSE {givenBack(p, outcome)} \cup (IF "final" \in lost THEN {altLeft(p)} ELSE {})

\* finishNative is one write, of which the part after the switch may be missing.
nativeLeft(p) == IF term.alt THEN LeaveAlt(p) ELSE p
nativeFinal(p) == [nativeHintCleanup(nativeCleanup(nativeLeft(p))) EXCEPT !.title = FALSE]

finishNative(p, lost) ==
    IF ~m.nativeEntered THEN {p}
    ELSE IF "leave" \in lost THEN {p, nativeLeft(p), nativeFinal(p)}
    ELSE {nativeFinal(p)} \cup (IF "final" \in lost THEN {nativeLeft(p)} ELSE {})

Finish ==
    /\ main.pc = "closing" /\ ViewClosed
    /\ \E lost \in SUBSET FinishWrites :
         LET p == IF "paint" \in lost THEN phys ELSE Flushed(phys)
         IN /\ Cardinality(failed \cup lost) <= MaxFailures
            /\ failed' = failed \cup lost
            /\ phys' \in CASE m.presentation = "isolated" -> finishIsolated(p, main.outcome, lost)
                           [] m.presentation = "native" -> finishNative(p, lost)
                           [] OTHER -> {p}
    /\ main' = [main EXCEPT !.pc = "done"] /\ mu' = "free"
    /\ view' = NoView /\ painter' = NoPainter
    /\ UNCHANGED <<closing, m>>

Finished == main.pc = "done" /\ UNCHANGED vars

-----------------------------------------------------------------------------
Next ==
    \/ Start \/ Started \/ WindowChanges \/ ResizeEvent \/ SizeRequested
    \/ \E g \in Goroutines : ReadSize(g) \/ applyResize(g) \/ SetViewSize(g) \/ SendSize(g)
    \/ ReceiveOutput \/ Synchronize \/ WriteTerm \/ presentRaw \/ FollowStays
    \/ FollowToIsolated \/ FollowToNative \/ leaveIsolated \/ presentFromModel
    \/ PainterWakes \/ PainterReadsSize \/ PainterDumps \/ PainterWrites \/ PainterPauses
    \/ BeginFinish \/ Finish \/ Finished

Spec == Init /\ [][Next]_vars

-----------------------------------------------------------------------------
(* Properties *)

Quiet ==
    /\ main.pc = "run" /\ mu = "free" /\ frame.pc = "idle"
    /\ painter.pc \in {"none", "wait", "pause"} /\ ~view.wake

\* Once nothing is pending, the terminal shows the session: the painted screen is
\* the emulator's, at the emulator's height and with the hint below it, whatever
\* resizes, frames and paints overlapped; a native screen holds every piece in
\* order, and after a stay in isolation the modes the session changed meanwhile.
ScreenSettles ==
    Quiet =>
        /\ m.rows = term.rows
        /\ m.presentation = "isolated" =>
             /\ phys.screen = "alt" /\ ~phys.modes
             /\ phys.alt = [Dump(term) EXCEPT !.hint = m.rows < m.physicalRows]
        /\ m.presentation = "native" /\ m.nativeEntered =>
             /\ phys.screen = IF term.alt THEN "alt" ELSE "primary"
             /\ Active(term) = IF term.alt THEN phys.alt.text ELSE phys.primary
             /\ phys.modes = term.modes /\ phys.hidden = term.hidden

\* However an attachment ends, and whichever write but the one that leaves the
\* alternate screen failed on the way, the shell gets its own screen back; unless
\* it was aborted or a write had failed also a whole scroll region, a visible
\* cursor, no input reporting and no trace of the hint.
TerminalLeftUsable ==
    main.pc = "done" =>
        /\ "leave" \notin failed => phys.screen = "primary"
        /\ main.outcome # "aborted" /\ failed = {} => ~phys.region /\ ~phys.hidden /\ ~phys.modes /\ ~phys.hint

\* What the terminal showed before the attachment is never drawn over where it
\* stands: it comes back, or was scrolled away first.  It is scrolled away in whole
\* unless the window has grown during the attachment: the height the client knows
\* may then be too small, and what is left of that screen is drawn over
\* (PreAttachWhole).
PreAttachSurvives ==
    /\ phys.pre # "lost"
    /\ phys.pre = "cut" => window.grew
    /\ main.pc = "done" /\ main.outcome \in {"detached", "aborted"} /\ ~m.nativeEntered
         => phys.pre = "shown"

\* A failed write is made good at the end, whatever it was to write.
FailureUndone == main.pc = "done" => phys.screen = "primary"

\* An aborted attachment gives the scroll region back with the alternate screen.
RegionReleased == main.pc = "done" => ~phys.region

\* The title pushed with the hint is popped.
TitleRestored == main.pc = "done" /\ main.outcome # "aborted" => ~phys.title

\* enterNative: "the pre-attach screen is scrolled into scrollback so it survives
\* whatever the session draws", the whole of it.
PreAttachWhole == phys.pre # "cut"

\* Once no resize is pending, model and session have the size of the terminal.
SizeSettles ==
    Quiet /\ ~window.signal /\ (\A g \in Goroutines : sizer[g].pc = "idle")
        => m.physicalRows = window.rows /\ sent = m.rows
=============================================================================
