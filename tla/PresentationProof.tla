-------------------------- MODULE PresentationProof --------------------------
(***************************************************************************)
(* Proofs about Presentation: the terminal shows the session whenever      *)
(* nothing is pending, is handed back as it was, and what was on it before *)
(* is scrolled away before it is drawn over, in whole unless the window    *)
(* has grown, for all sizes, outputs and failures.                         *)
(***************************************************************************)
EXTENDS Presentation, TLAPS

-----------------------------------------------------------------------------
(* Types *)

TextType == Nat \cup {"torn"}
PictureType == [text : TextType, rows : Nat, hint : BOOLEAN]
PhysType ==
    [screen : {"primary", "alt"}, primary : TextType, alt : PictureType,
     pre : {"shown", "scrolled", "cut", "lost"}, region : BOOLEAN, modes : BOOLEAN,
     hidden : BOOLEAN, hint : BOOLEAN, title : BOOLEAN]
TermType ==
    [alt : BOOLEAN, primary : Nat, altText : Nat, modes : BOOLEAN, hidden : BOOLEAN, rows : Nat]
ModelType ==
    [presentation : {"pending", "isolated", "native"}, nativeEntered : BOOLEAN, hinted : BOOLEAN,
     hintOnPrimary : BOOLEAN, rows : Nat, physicalRows : Nat]
ViewType == [live : BOOLEAN, rows : Nat, reserved : BOOLEAN, wake : BOOLEAN, done : BOOLEAN]
PainterType ==
    [pc : {"none", "wait", "size", "dump", "paint", "pause", "stopped"}, rows : Nat,
     reserved : BOOLEAN, screen : PictureType]
Busy == {"write", "more", "raw", "follow", "leave", "present"}
FrameType ==
    [pc : {"idle", "failed"} \cup Busy, piece : {"none", "text", "modes", "plain"},
     switched : BOOLEAN, old : Nat, resized : BOOLEAN]
SizerType == [pc : {"idle", "read", "apply", "view", "send"}, rows : Nat]
MainType ==
    [pc : {"start", "size", "run", "abort", "closing", "done"},
     outcome : {"none", "detached", "ended", "disconnected", "aborted"}]

TypeOK ==
    /\ cfg \in [mode : {"auto", "isolated", "native"}, instructions : BOOLEAN]
    /\ window \in [rows : Nat, signal : BOOLEAN, grew : BOOLEAN]
    /\ phys \in PhysType /\ term \in TermType /\ m \in ModelType
    /\ mu \in {"free"} \cup Goroutines
    /\ view \in ViewType /\ painter \in PainterType /\ frame \in FrameType
    /\ sizer \in [Goroutines -> SizerType] /\ main \in MainType
    /\ sent \in Nat /\ pieces \in Nat /\ events \in Nat

-----------------------------------------------------------------------------
(* The inductive invariant *)

\* m.mu is held by the frame reader inside applyOutput, by a sendSize between
\* the emulator and the view, or by finish, and each runs only in its phase.
LockInv ==
    /\ (mu = "frame") <=> (frame.pc \in Busy \/ sizer["frame"].pc = "view")
    /\ (mu = "main") <=> (main.pc = "closing" \/ sizer["main"].pc = "view")
    /\ (mu = "resize") <=> (sizer["resize"].pc = "view")
    /\ frame.pc \in Busy => main.pc = "run" /\ sizer["frame"].pc = "idle"
    /\ frame.pc # "idle" => main.pc \in {"run", "closing", "done"}
    /\ sizer["main"].pc # "idle" => main.pc = "size"
    /\ sizer["frame"].pc # "idle" \/ sizer["resize"].pc # "idle" => main.pc = "run"

\* Which presentations and screens go with the mode and the frame reader.
ModeInv ==
    /\ main.pc = "start" => m.presentation = "pending"
    /\ main.pc = "closing" => main.outcome # "none"
    /\ m.presentation = "pending" => cfg.mode = "auto" \/ main.pc = "start"
    /\ cfg.mode = "isolated" => m.presentation # "native"
    /\ cfg.mode = "native" => m.presentation # "isolated"
    /\ frame.pc \in {"raw", "more", "present"} => m.presentation # "pending"
    /\ frame.pc = "more" => cfg.mode = "auto"
    /\ frame.pc \in {"write", "follow", "present"} /\ frame.switched => cfg.mode = "auto"
    /\ frame.pc = "leave" => cfg.mode = "auto" /\ m.presentation # "native" /\ ~term.alt
    /\ frame.pc = "raw" /\ frame.switched /\ cfg.mode # "auto" => frame.piece = "none"
    /\ frame.pc = "raw" => frame.piece # "none" \/ frame.switched
    /\ cfg.mode = "auto" /\ m.presentation = "native" =>
          /\ frame.pc \in {"idle", "write", "more", "present"} => ~term.alt
          /\ frame.pc = "raw" => (term.alt <=> frame.switched)

\* A view lives on the alternate screen of the isolated presentation; without
\* one, entering isolation failed.
ViewInv ==
    /\ view.live <=> painter.pc # "none"
    /\ view.live => m.presentation = "isolated" /\ phys.screen = "alt"
    /\ view.wake => view.live
    /\ m.presentation = "isolated" /\ ~view.live =>
          /\ failed # {}
          /\ frame.pc = "failed" \/ main.pc \in {"abort", "closing"}
    /\ "enter" \in failed => frame.pc = "failed" \/ main.pc \in {"abort", "closing"}

Sizing == \E g \in Goroutines : sizer[g].pc = "view"

\* Emulator, model and view have one size, but for a sendSize under way.
SizeInv ==
    /\ term.rows = m.rows
    /\ m.rows = sessionRows(m, m.physicalRows)
    /\ view.live /\ ~Sizing => view.rows = m.rows /\ (view.reserved <=> m.rows < m.physicalRows)

\* The emulator is ahead of the view, which will be told.
Stale == Sizing \/ frame.pc \in {"raw", "follow", "leave", "present", "failed"}

\* A view that is not marked dirty is painted, or what the painter has read and
\* not yet written is current.
PaintInv ==
    view.live /\ ~view.wake =>
        /\ painter.pc \in {"dump", "paint"} =>
              painter.rows = view.rows /\ (painter.reserved <=> view.reserved)
        /\ painter.pc = "paint" /\ ~Stale => painter.screen = Dump(term)
        /\ painter.pc \in {"wait", "pause"} \/ (painter.pc = "stopped" /\ "paint" \notin failed)
              => (phys.region <=> view.reserved)
        /\ painter.pc \in {"wait", "pause"} /\ ~Stale =>
              /\ phys.alt.text = Active(term) /\ phys.alt.rows = term.rows
              /\ phys.alt.hint <=> view.reserved

\* The terminal is drawn on only after what it showed was scrolled away, and
\* what the session or the hint leave on it is recorded in the model.
PreInv ==
    /\ phys.pre # "lost"
    /\ m.nativeEntered => m.presentation # "pending"
    /\ m.nativeEntered /\ phys.pre = "shown" => frame.pc = "failed" /\ ~m.hintOnPrimary
    /\ m.hintOnPrimary => m.hinted
    /\ m.hinted => m.nativeEntered
    /\ phys.hint => m.hintOnPrimary
    /\ ~m.nativeEntered => phys.pre = "shown" /\ ~phys.hidden /\ ~phys.modes
    /\ ~m.nativeEntered /\ m.presentation # "isolated" /\ failed = {} => ~phys.region

\* Which screen the terminal is on, unless leaving the alternate one failed.
ScreenInv ==
    /\ m.presentation = "pending" => phys.screen = "primary"
    /\ m.presentation = "isolated" => ~phys.modes
    /\ m.presentation = "native" /\ "leave" \notin failed =>
          /\ cfg.mode = "auto" => phys.screen = "primary"
          /\ phys.screen = "alt" /\ frame.pc \notin {"raw", "follow", "present"}
                => term.alt /\ m.nativeEntered

\* The emulator was on the alternate screen before the piece it was just fed.
WasAlt == term.alt # frame.switched

\* In the native presentation the terminal shows what the emulator shows, or
\* will once the piece the emulator was fed is forwarded.
NativeInv ==
    m.presentation = "native" \/ main.pc = "start" =>
        /\ frame.pc \in {"idle", "write", "more"} =>
              /\ phys.screen = IF term.alt THEN "alt" ELSE "primary"
              /\ phys.primary = term.primary
              /\ term.alt => phys.alt.text = term.altText
              /\ (phys.modes <=> term.modes) /\ (phys.hidden <=> term.hidden)
        /\ frame.pc = "raw" =>
              /\ phys.screen = IF WasAlt THEN "alt" ELSE "primary"
              /\ frame.old = IF WasAlt THEN phys.alt.text ELSE phys.primary
              /\ term.primary = IF frame.piece = "text" /\ ~WasAlt THEN pieces ELSE phys.primary
              /\ term.alt => term.altText = IF frame.switched THEN 0
                                            ELSE IF frame.piece = "text" THEN pieces ELSE frame.old
              /\ frame.piece \notin {"modes", "plain"} =>
                    (term.modes <=> phys.modes) /\ (term.hidden <=> phys.hidden)
              /\ frame.piece \in {"modes", "plain"} =>
                    (term.modes <=> frame.piece = "modes") /\ (term.hidden <=> frame.piece = "modes")
        /\ cfg.mode = "auto" /\ frame.pc \in {"follow", "present"} => phys.screen = "primary"

\* What is left of it when the attachment is over.
DoneInv ==
    /\ painter.pc = "none" /\ TerminalLeftUsable
    /\ phys.pre # "lost"
    /\ main.outcome \in {"detached", "aborted"} /\ ~m.nativeEntered => phys.pre = "shown"

Shows == ModeInv /\ ViewInv /\ SizeInv /\ PaintInv /\ PreInv /\ ScreenInv /\ NativeInv

ShowInv ==
    /\ TypeOK /\ LockInv
    /\ main.pc # "done" => Shows
    /\ main.pc = "done" => DoneInv

-----------------------------------------------------------------------------
(* Types are kept *)

\* The operators on the physical terminal keep its type.
LEMMA PhysOps ==
    ASSUME NEW p \in PhysType, NEW text \in TextType
    PROVE  /\ DrawMain(p, text) \in PhysType
           /\ LeaveAlt(p) \in PhysType /\ isolatedEntry(p) \in PhysType
           /\ nativeModeReset(p) \in PhysType /\ nativeCleanup(p) \in PhysType
           /\ [p EXCEPT !.region = FALSE] \in PhysType
<1>1. DrawMain(p, text) \in PhysType BY DEF DrawMain, PhysType
<1>2. LeaveAlt(p) \in PhysType BY DEF LeaveAlt, PhysType
<1>3. Blank \in PictureType BY DEF Blank, PictureType, TextType
<1>4. isolatedEntry(p) \in PhysType BY <1>3 DEF isolatedEntry, PhysType
<1>5. nativeModeReset(p) \in PhysType BY DEF nativeModeReset, PhysType
<1>6. nativeCleanup(p) \in PhysType BY DEF nativeCleanup, nativeModeReset, PhysType
<1>7. [p EXCEPT !.region = FALSE] \in PhysType BY DEF PhysType
<1> QED BY <1>1, <1>2, <1>4, <1>5, <1>6, <1>7

\* Pictures with the same fields are the same.
LEMMA SamePicture ==
    ASSUME NEW x \in PictureType, NEW y \in PictureType,
           x.text = y.text, x.rows = y.rows, x.hint <=> y.hint
    PROVE  x = y
BY DEF PictureType

\* What a paint changes on the alternate screen.
LEMMA PaintType ==
    ASSUME NEW p \in PhysType, NEW rows \in Nat, NEW reserved \in BOOLEAN, NEW screen \in PictureType,
           NEW q, q = Paint(p, rows, reserved, screen)
    PROVE  /\ q \in PhysType
           /\ p.screen = "alt" =>
                /\ q.screen = "alt" /\ q.primary = p.primary /\ q.pre = p.pre
                /\ (q.modes <=> p.modes) /\ (q.hidden <=> p.hidden) /\ (q.hint <=> p.hint)
                /\ (q.region <=> reserved)
                /\ q.alt.text = screen.text /\ (q.alt.hint <=> reserved)
                /\ rows = screen.rows => q.alt.rows = rows
<1> DEFINE a == [p EXCEPT !.region = reserved]
           s == [screen EXCEPT !.rows = IF rows = screen.rows THEN rows ELSE 0, !.hint = reserved]
<1>1. /\ a \in PhysType
      /\ a.screen = p.screen /\ a.primary = p.primary /\ a.pre = p.pre /\ a.region = reserved
      /\ a.modes = p.modes /\ a.hidden = p.hidden /\ a.hint = p.hint
    BY DEF PhysType
<1>2. /\ s \in PictureType
      /\ s.text = screen.text /\ s.hint = reserved
      /\ s.rows = IF rows = screen.rows THEN rows ELSE 0
    BY DEF PictureType
<1>3. q = IF p.screen = "alt" THEN [a EXCEPT !.alt = s] ELSE DrawMain(a, screen.text)
    BY DEF Paint
<1> HIDE DEF a, s
<1>4. screen.text \in TextType BY DEF PictureType
<1>5. DrawMain(a, screen.text) \in PhysType BY <1>1, <1>4, PhysOps
<1>6. CASE p.screen = "alt" BY <1>1, <1>2, <1>3, <1>6 DEF PhysType
<1>7. CASE p.screen # "alt" BY <1>3, <1>5, <1>7
<1> QED BY <1>6, <1>7

\* Forwarding a piece, and the writes of the native presentation, keep the type.
LEMMA ForwardType ==
    ASSUME TypeOK, NEW p \in PhysType, NEW piece, NEW old \in Nat, NEW new \in Nat
    PROVE  Forward(p, piece, old, new) \in PhysType
<1> DEFINE onto(text) == IF text = old THEN new ELSE "torn"
<1>1. \A text : onto(text) \in TextType BY DEF TextType
<1> HIDE DEF onto
<1>2. CASE piece = "text" /\ p.screen = "alt"
    <2>1. Forward(p, piece, old, new) = [p EXCEPT !.alt.text = onto(@)] BY <1>2 DEF Forward, onto
    <2>2. [p.alt EXCEPT !.text = onto(@)] \in PictureType BY <1>1 DEF PhysType, PictureType
    <2> QED BY <2>1, <2>2 DEF PhysType
<1>3. CASE piece = "text" /\ p.screen # "alt"
    <2>1. Forward(p, piece, old, new) = DrawMain(p, onto(p.primary)) BY <1>3 DEF Forward, onto
    <2> QED BY <2>1, <1>1, PhysOps
<1>4. CASE piece # "text"
    BY <1>4 DEF Forward, PhysType
<1> QED BY <1>2, <1>3, <1>4

\* enterNative, showNativeHintOnce, nativeRepaint and nativeHintCleanup keep it.
LEMMA NativeType ==
    ASSUME TypeOK, NEW p \in PhysType
    PROVE  /\ ScrollAway(p, m.physicalRows) \in PhysType
           /\ enterNative(p) \in PhysType /\ ForwardSwitch(p) \in PhysType
           /\ showNativeHintOnce(p) \in PhysType /\ nativeRepaint(p) \in PhysType
           /\ nativeHintCleanup(p) \in PhysType
<1>1. Blank \in PictureType BY DEF Blank, PictureType, TextType
<1>2. term.primary \in TextType BY DEF TypeOK, TermType, TextType
<1>3. [Blank EXCEPT !.text = term.altText] \in PictureType
    BY DEF TypeOK, TermType, TextType, Blank, PictureType
<1>4. ScrollAway(p, m.physicalRows) \in PhysType BY DEF ScrollAway, PhysType
<1>5. enterNative(p) \in PhysType
    <2> DEFINE q == ScrollAway(p, m.physicalRows)
    <2> HIDE DEF q
    <2>1. [q EXCEPT !.title = cfg.instructions] \in PhysType BY <1>4 DEF TypeOK, PhysType, q
    <2> QED BY <2>1 DEF enterNative, q
<1>6. ForwardSwitch(p) \in PhysType BY <1>1 DEF ForwardSwitch, PhysType
<1>7. showNativeHintOnce(p) \in PhysType BY DEF showNativeHintOnce, PhysType
<1>8. DrawMain(p, term.primary) \in PhysType BY <1>2, PhysOps
<1>9. nativeRepaint(p) \in PhysType
    <2> DEFINE q == DrawMain(p, term.primary)
               d == [Blank EXCEPT !.text = term.altText]
    <2> HIDE DEF q, d
    <2>1. q \in PhysType /\ d \in PictureType BY <1>3, <1>8 DEF q, d
    <2>2. term.modes \in BOOLEAN /\ term.hidden \in BOOLEAN BY DEF TypeOK, TermType
    <2>3. nativeRepaint(p) = [q EXCEPT
              !.hint = FALSE, !.modes = term.modes, !.hidden = term.hidden,
              !.screen = IF cfg.mode = "native" /\ term.alt THEN "alt"
                         ELSE IF cfg.mode = "native" THEN "primary" ELSE @,
              !.alt = IF cfg.mode = "native" /\ term.alt THEN d ELSE @]
        BY DEF nativeRepaint, q, d
    <2> QED BY <2>1, <2>2, <2>3 DEF PhysType
<1>10. nativeHintCleanup(p) \in PhysType
    <2> DEFINE q == DrawMain(p, term.primary)
    <2> HIDE DEF q
    <2>1. [q EXCEPT !.hint = FALSE] \in PhysType BY <1>8 DEF q, PhysType
    <2> QED BY <2>1 DEF nativeHintCleanup, q
<1> QED BY <1>4, <1>5, <1>6, <1>7, <1>9, <1>10

Over == {"ended", "disconnected"}
LastScreens(p) ==
    {lastScreen(p, Active(term), FALSE), lastScreen(p, Active(term), p.hidden),
     lastScreen(p, 0, FALSE), lastScreen(p, 0, p.hidden)}

\* What finish of the isolated presentation leaves, write by write.
LEMMA IsolatedWrites ==
    ASSUME NEW p, NEW o, NEW lost, NEW q \in finishIsolated(p, o, lost)
    PROVE  \/ /\ "leave" \in lost
              /\ \/ q \in {p, LeaveAlt(p), hintErased(p), altLeft(p)}
                 \/ o \in Over /\ q = scrolled(p)
                 \/ o \notin Over /\ q = givenBack(p, o)
           \/ /\ "leave" \notin lost /\ o \notin Over
              /\ q = givenBack(p, o) \/ ("final" \in lost /\ q = altLeft(p))
           \/ /\ "leave" \notin lost /\ o \in Over
              /\ q \in LastScreens(p)
              /\ "final" \notin lost => q = lastScreen(p, Active(term), FALSE)
<1>1. CASE "leave" \in lost
    <2>1. finishIsolated(p, o, lost) =
            {p, LeaveAlt(p), hintErased(p), altLeft(p), IF o \in Over THEN scrolled(p) ELSE givenBack(p, o)}
        BY <1>1 DEF finishIsolated, Over
    <2> QED BY <1>1, <2>1
<1>2. CASE "leave" \notin lost /\ o \notin Over
    <2>1. q \in {givenBack(p, o)} \cup (IF "final" \in lost THEN {altLeft(p)} ELSE {})
        BY <1>2 DEF finishIsolated, Over
    <2> QED BY <1>2, <2>1
<1>3. CASE "leave" \notin lost /\ o \in Over
    <2> DEFINE partly == {lastScreen(p, Active(term), p.hidden), lastScreen(p, 0, FALSE), lastScreen(p, 0, p.hidden)}
    <2>1. q \in {lastScreen(p, Active(term), FALSE)} \cup (IF "final" \in lost THEN partly ELSE {})
        BY <1>3 DEF finishIsolated, Over
    <2> QED BY <1>3, <2>1 DEF LastScreens
<1> QED BY <1>1, <1>2, <1>3

\* What finish of the native presentation leaves.
LEMMA NativeWrites ==
    ASSUME NEW p, NEW lost, NEW q \in finishNative(p, lost)
    PROVE  \/ ~m.nativeEntered /\ q = p
           \/ m.nativeEntered /\ "leave" \in lost /\ q \in {p, nativeLeft(p), nativeFinal(p)}
           \/ m.nativeEntered /\ "leave" \notin lost /\ q = nativeFinal(p)
           \/ m.nativeEntered /\ "final" \in lost /\ q = nativeLeft(p)
<1>1. CASE ~m.nativeEntered BY <1>1 DEF finishNative
<1>2. CASE m.nativeEntered /\ "leave" \in lost BY <1>2 DEF finishNative
<1>3. CASE m.nativeEntered /\ "leave" \notin lost BY <1>3 DEF finishNative
<1> QED BY <1>1, <1>2, <1>3

\* finish and the last paint of a closed view keep the type of the terminal.
LEMMA FinishType ==
    ASSUME TypeOK, NEW p \in PhysType
    PROVE  /\ \A o, lost : finishIsolated(p, o, lost) \subseteq PhysType
           /\ \A lost : finishNative(p, lost) \subseteq PhysType
           /\ Flushed(p) \in PhysType
<1>1. Active(term) \in TextType /\ 0 \in TextType BY DEF TypeOK, TermType, TextType, Active
<1>2. ASSUME NEW o, NEW lost, NEW q \in finishIsolated(p, o, lost) PROVE q \in PhysType
    <2>1. LeaveAlt(p) \in PhysType BY <1>1, PhysOps
    <2>2. hintErased(p) \in PhysType BY <2>1, NativeType DEF hintErased
    <2>3. altLeft(p) \in PhysType BY <1>1, <2>2, PhysOps DEF altLeft
    <2>4. scrolled(p) \in PhysType
        <3>1. ScrollAway(altLeft(p), m.physicalRows) \in PhysType BY <2>3, NativeType
        <3> QED BY <1>1, <3>1, PhysOps DEF scrolled
    <2>5. givenBack(p, o) \in PhysType
        <3>1. nativeCleanup(altLeft(p)) \in PhysType /\ [altLeft(p) EXCEPT !.region = FALSE] \in PhysType
            BY <1>1, <2>3, PhysOps
        <3> QED BY <2>3, <3>1 DEF givenBack
    <2>6. \A text \in {Active(term), 0}, hidden \in {FALSE, p.hidden} : lastScreen(p, text, hidden) \in PhysType
        <3> TAKE text \in {Active(term), 0}, hidden \in {FALSE, p.hidden}
        <3> DEFINE d == DrawMain(scrolled(p), text)
        <3>1. d \in PhysType BY <1>1, <2>4, PhysOps
        <3>2. hidden \in BOOLEAN BY DEF PhysType
        <3> HIDE DEF d
        <3>3. [d EXCEPT !.hidden = hidden] \in PhysType BY <3>1, <3>2 DEF PhysType
        <3> QED BY <3>3 DEF lastScreen, d
    <2>7. LastScreens(p) \subseteq PhysType BY <2>6 DEF LastScreens
    <2>8. q \in {p, LeaveAlt(p), hintErased(p), altLeft(p), scrolled(p), givenBack(p, o)} \cup LastScreens(p)
        BY <1>2, IsolatedWrites
    <2> QED BY <2>1, <2>2, <2>3, <2>4, <2>5, <2>7, <2>8
<1>3. ASSUME NEW lost, NEW q \in finishNative(p, lost) PROVE q \in PhysType
    <2>1. nativeLeft(p) \in PhysType BY <1>1, PhysOps DEF nativeLeft
    <2>2. nativeFinal(p) \in PhysType
        <3> DEFINE h == nativeHintCleanup(nativeCleanup(nativeLeft(p)))
        <3>1. nativeCleanup(nativeLeft(p)) \in PhysType BY <1>1, <2>1, PhysOps
        <3>2. h \in PhysType BY <3>1, NativeType
        <3> HIDE DEF h
        <3>3. [h EXCEPT !.title = FALSE] \in PhysType BY <3>2 DEF PhysType
        <3> QED BY <3>3 DEF nativeFinal, h
    <2> QED BY <2>1, <2>2, NativeWrites
<1>4. Flushed(p) \in PhysType
    <2>1. Dump(term) \in PictureType BY <1>1 DEF Dump, PictureType, TypeOK, TermType
    <2>2. view.rows \in Nat /\ view.reserved \in BOOLEAN BY DEF TypeOK, ViewType
    <2> QED BY <2>1, <2>2, PaintType DEF Flushed
<1> QED BY <1>2, <1>3, <1>4

\* What resizing and hinting do to the model.
LEMMA ResizedType ==
    ASSUME TypeOK, NEW mm \in ModelType, NEW h \in Nat, NEW r, r = Resized(mm, h)
    PROVE  /\ r \in ModelType
           /\ r.presentation = mm.presentation /\ (r.nativeEntered <=> mm.nativeEntered)
           /\ (r.hinted <=> mm.hinted) /\ (r.hintOnPrimary <=> mm.hintOnPrimary)
           /\ r.physicalRows = h /\ r.rows = sessionRows(mm, h)
           /\ sessionRows(r, h) = r.rows
<1>1. sessionRows(mm, h) \in Nat BY DEF sessionRows
<1>2. /\ r \in ModelType
      /\ r.presentation = mm.presentation /\ (r.nativeEntered <=> mm.nativeEntered)
      /\ (r.hinted <=> mm.hinted) /\ (r.hintOnPrimary <=> mm.hintOnPrimary)
      /\ r.physicalRows = h /\ r.rows = sessionRows(mm, h)
    BY <1>1 DEF Resized, ModelType
<1> QED BY <1>2 DEF sessionRows

\* What showNativeHintOnce records.
LEMMA HintedType ==
    ASSUME TypeOK, NEW mm \in ModelType, NEW r, r = Hinted(mm)
    PROVE  /\ r \in ModelType
           /\ r.presentation = mm.presentation /\ r.nativeEntered
           /\ (r.hinted <=> (mm.hinted \/ cfg.instructions))
           /\ (r.hintOnPrimary <=> IF HintDue THEN ~term.alt ELSE mm.hintOnPrimary)
           /\ r.physicalRows = mm.physicalRows /\ r.rows = mm.rows
BY DEF Hinted, TypeOK, ModelType, TermType

\* What setSize and markDirty do to the view.
LEMMA ViewTypes ==
    ASSUME TypeOK, NEW mm \in ModelType, NEW v \in ViewType
    PROVE  /\ setSize(v, mm) \in ViewType
           /\ setSize(v, mm).rows = mm.rows
           /\ (setSize(v, mm).reserved <=> mm.rows < mm.physicalRows)
           /\ setSize(v, mm).wake /\ (setSize(v, mm).live <=> v.live)
           /\ markDirty(v) \in ViewType /\ markDirty(v).wake
           /\ (markDirty(v).live <=> v.live) /\ markDirty(v).rows = v.rows
           /\ (markDirty(v).reserved <=> v.reserved)
           /\ [v EXCEPT !.done = TRUE] \in ViewType
           /\ NoView \in ViewType /\ [NoView EXCEPT !.live = TRUE] \in ViewType
<1>1. (mm.rows < mm.physicalRows) \in BOOLEAN /\ mm.rows \in Nat BY DEF ModelType
<1> QED BY <1>1 DEF setSize, markDirty, NoView, ViewType

\* enterIsolated, for any picture p of the terminal it starts from.
LEMMA EnterType ==
    ASSUME TypeOK, NEW p \in PhysType, enterIsolated(p)
    PROVE  /\ m' \in ModelType /\ m'.presentation = "isolated"
           /\ (m'.nativeEntered <=> m.nativeEntered) /\ (m'.hinted <=> m.hinted)
           /\ (m'.hintOnPrimary <=> m.hintOnPrimary)
           /\ m'.physicalRows = m.physicalRows /\ m'.rows = sessionRows(m', m'.physicalRows)
           /\ term' = [term EXCEPT !.rows = m'.rows]
           /\ term' \in TermType /\ phys' \in PhysType
           /\ phys' \in {p, isolatedEntry(p)}
           /\ \/ /\ phys' = isolatedEntry(p) /\ failed' = failed
                 /\ view' \in ViewType /\ painter' \in PainterType
                 /\ view'.live /\ view'.wake /\ painter'.pc = "wait"
                 /\ view'.rows = m'.rows /\ (view'.reserved <=> m'.rows < m'.physicalRows)
              \/ "enter" \in failed' /\ failed \subseteq failed' /\ UNCHANGED <<view, painter>>
<1> DEFINE iso == [m EXCEPT !.presentation = "isolated"]
           mm == Resized(iso, m.physicalRows)
<1>1. /\ iso \in ModelType /\ iso.presentation = "isolated" /\ iso.physicalRows = m.physicalRows
      /\ (iso.nativeEntered <=> m.nativeEntered) /\ (iso.hinted <=> m.hinted)
      /\ (iso.hintOnPrimary <=> m.hintOnPrimary) /\ m.physicalRows \in Nat
    BY DEF TypeOK, ModelType
<1> HIDE DEF iso
<1>2. /\ mm \in ModelType /\ mm.presentation = "isolated" /\ mm.physicalRows = m.physicalRows
      /\ (mm.nativeEntered <=> m.nativeEntered) /\ (mm.hinted <=> m.hinted)
      /\ (mm.hintOnPrimary <=> m.hintOnPrimary)
      /\ mm.rows = sessionRows(mm, m.physicalRows)
    BY <1>1, ResizedType
<1>3. m' = mm /\ term' = [term EXCEPT !.rows = mm.rows] BY DEF enterIsolated, iso
<1>4. \/ /\ phys' = isolatedEntry(p)
         /\ view' = setSize([NoView EXCEPT !.live = TRUE], mm)
         /\ painter' = [NoPainter EXCEPT !.pc = "wait"]
         /\ UNCHANGED failed
      \/ /\ Fail("enter")
         /\ phys' \in {p, isolatedEntry(p)}
         /\ UNCHANGED <<view, painter>>
    BY DEF enterIsolated, iso
<1> HIDE DEF mm
<1>5. term' \in TermType BY <1>2, <1>3 DEF TypeOK, TermType, ModelType
<1>6. phys' \in PhysType /\ phys' \in {p, isolatedEntry(p)}
    <2>1. 0 \in TextType BY DEF TextType
    <2> QED BY <1>4, <2>1, PhysOps
<1>7. CASE view' = setSize([NoView EXCEPT !.live = TRUE], mm)
           /\ painter' = [NoPainter EXCEPT !.pc = "wait"]
    <2> DEFINE v == [NoView EXCEPT !.live = TRUE]
    <2>1. v \in ViewType /\ v.live BY DEF NoView, ViewType
    <2> HIDE DEF v
    <2>2. view' = setSize(v, mm) BY <1>7 DEF v
    <2>3. /\ view' \in ViewType /\ view'.live /\ view'.wake /\ view'.rows = mm.rows
          /\ (view'.reserved <=> mm.rows < mm.physicalRows)
        BY <1>2, <2>1, <2>2, ViewTypes
    <2>4. painter' \in PainterType /\ painter'.pc = "wait"
        BY <1>7 DEF NoPainter, PainterType, Blank, PictureType, TextType
    <2> QED BY <2>3, <2>4, <1>2, <1>3, <1>4, <1>5, <1>6 DEF Fail
<1>8. CASE Fail("enter") /\ UNCHANGED <<view, painter>>
    BY <1>2, <1>3, <1>5, <1>6, <1>8 DEF Fail
<1> QED BY <1>4, <1>7, <1>8

-----------------------------------------------------------------------------
(* The steps, by who takes them *)

\* The window, and a sendSize outside m.mu.
SizeStep ==
    \/ WindowChanges \/ ResizeEvent \/ SizeRequested
    \/ \E g \in Goroutines : ReadSize(g) \/ SendSize(g)

PainterStep == PainterWakes \/ PainterReadsSize \/ PainterDumps \/ PainterWrites \/ PainterPauses

\* The frame reader with m.mu.
FrameStep ==
    \/ ReceiveOutput \/ Synchronize \/ WriteTerm \/ presentRaw \/ FollowStays
    \/ FollowToIsolated \/ FollowToNative \/ leaveIsolated \/ presentFromModel

\* Every step is of one of these kinds.
LEMMA Steps ==
    ASSUME [Next]_vars
    PROVE  \/ SizeStep \/ PainterStep \/ FrameStep
           \/ \E g \in Goroutines : applyResize(g) \/ SetViewSize(g)
           \/ Start \/ Started \/ BeginFinish \/ Finish \/ UNCHANGED vars
BY DEF Next, SizeStep, PainterStep, FrameStep, Finished

\* Types, by kind of step.
LEMMA SizeType == ASSUME TypeOK, SizeStep PROVE TypeOK'
<1>1. CASE WindowChanges BY <1>1, HeightsAssumption DEF WindowChanges, screens, TypeOK
<1>2. CASE ResizeEvent BY <1>2 DEF ResizeEvent, screens, TypeOK, Goroutines, SizerType
<1>3. CASE SizeRequested BY <1>3 DEF SizeRequested, screens, TypeOK, Goroutines, SizerType
<1>4. ASSUME NEW g \in Goroutines, ReadSize(g) PROVE TypeOK'
    <2>1. [pc |-> "apply", rows |-> window.rows] \in SizerType BY DEF SizerType, TypeOK
    <2> QED BY <1>4, <2>1 DEF ReadSize, screens, TypeOK
<1>5. ASSUME NEW g \in Goroutines, SendSize(g) PROVE TypeOK'
    <2>1. [pc |-> "idle", rows |-> 0] \in SizerType BY DEF SizerType
    <2>2. sizer[g].rows \in Nat BY DEF TypeOK, SizerType
    <2> QED BY <1>5, <2>1, <2>2 DEF SendSize, screens, TypeOK
<1> QED BY <1>1, <1>2, <1>3, <1>4, <1>5 DEF SizeStep

LEMMA ResizeType ==
    ASSUME TypeOK, NEW g \in Goroutines, applyResize(g) \/ SetViewSize(g)
    PROVE  TypeOK'
<1>1. CASE applyResize(g)
    <2>1. sizer[g].rows \in Nat /\ m \in ModelType BY DEF TypeOK, SizerType
    <2>2. m' \in ModelType BY <1>1, <2>1, ResizedType DEF applyResize
    <2>3. term' \in TermType BY <1>1, <2>2 DEF applyResize, TypeOK, TermType, ModelType
    <2>4. sizer' \in [Goroutines -> SizerType] BY <1>1 DEF applyResize, TypeOK, SizerType
    <2> QED BY <1>1, <2>2, <2>3, <2>4 DEF applyResize, screens, TypeOK
<1>2. CASE SetViewSize(g)
    <2>1. [pc |-> "send", rows |-> m.rows] \in SizerType BY DEF TypeOK, ModelType, SizerType
    <2>2. sizer' \in [Goroutines -> SizerType] BY <1>2, <2>1 DEF SetViewSize, TypeOK
    <2>3. view \in ViewType /\ m \in ModelType BY DEF TypeOK
    <2>4. view' \in ViewType BY <1>2, <2>3, ViewTypes DEF SetViewSize
    <2> QED BY <1>2, <2>2, <2>4 DEF SetViewSize, screens, TypeOK
<1> QED BY <1>1, <1>2

LEMMA PainterKeeps == ASSUME TypeOK, PainterStep PROVE TypeOK'
<1>0. /\ painter \in PainterType /\ view \in ViewType /\ phys \in PhysType
      /\ NoPainter \in PainterType
    BY DEF TypeOK, NoPainter, PainterType, Blank, PictureType, TextType
<1>1. CASE PainterWakes
    <2>1. painter' \in PainterType BY <1>0, <1>1 DEF PainterWakes, PainterType
    <2>2. view' \in ViewType BY <1>0, <1>1 DEF PainterWakes, ViewType
    <2> QED BY <1>1, <2>1, <2>2 DEF PainterWakes, others, TypeOK
<1>2. CASE PainterReadsSize
    <2>1. painter' \in PainterType BY <1>0, <1>2 DEF PainterReadsSize, PainterType, ViewType
    <2> QED BY <1>2, <2>1 DEF PainterReadsSize, others, TypeOK
<1>3. CASE PainterDumps
    <2>1. Dump(term) \in PictureType
        BY DEF TypeOK, TermType, PictureType, Dump, Active, TextType
    <2>2. painter' \in PainterType BY <1>0, <1>3, <2>1 DEF PainterDumps, PainterType
    <2> QED BY <1>3, <2>2 DEF PainterDumps, others, TypeOK
<1>4. CASE PainterWrites
    <2>1. painter' \in PainterType BY <1>0, <1>4 DEF PainterWrites, PainterType
    <2>2. painter.rows \in Nat /\ painter.reserved \in BOOLEAN /\ painter.screen \in PictureType
        BY <1>0 DEF PainterType
    <2>3. phys' \in PhysType BY <1>0, <1>4, <2>2, PaintType DEF PainterWrites
    <2> QED BY <1>4, <2>1, <2>3 DEF PainterWrites, others, TypeOK
<1>5. CASE PainterPauses
    <2>1. painter' \in PainterType BY <1>0, <1>5 DEF PainterPauses, PainterType
    <2> QED BY <1>5, <2>1 DEF PainterPauses, others, TypeOK
<1> QED BY <1>1, <1>2, <1>3, <1>4, <1>5 DEF PainterStep

\* How a step of the frame reader ends.
LEMMA FrameEnds ==
    ASSUME TypeOK, FrameDone \/ FrameFails \/ FollowNext \/ AfterRaw \/ AfterPresent
    PROVE  /\ frame' \in FrameType /\ mu' \in {"free"} \cup Goroutines
           /\ sizer' \in [Goroutines -> SizerType]
<1>0. frame \in FrameType /\ sizer \in [Goroutines -> SizerType] /\ NoFrame \in FrameType
      /\ mu \in {"free"} \cup Goroutines
    BY DEF TypeOK, NoFrame, FrameType
<1>1. CASE FrameDone BY <1>0, <1>1 DEF FrameDone, SizerType, Goroutines
<1>2. CASE FrameFails BY <1>0, <1>2 DEF FrameFails, FrameType
<1>3. CASE FollowNext BY <1>0, <1>3 DEF FollowNext, FrameType, Busy
<1>4. CASE AfterPresent /\ ~FrameDone BY <1>0, <1>4 DEF AfterPresent, FrameType, Busy
<1> QED BY <1>1, <1>2, <1>3, <1>4 DEF AfterRaw, AfterPresent

\* A native write that fails keeps the types.
LEMMA FailsType ==
    ASSUME TypeOK, NEW p \in PhysType, NEW mm \in ModelType, NativeFails(p, mm)
    PROVE  /\ phys' \in PhysType /\ m' \in ModelType
           /\ frame' \in FrameType /\ mu' \in {"free"} \cup Goroutines
           /\ sizer' \in [Goroutines -> SizerType]
<1>1. phys \in PhysType /\ m \in ModelType BY DEF TypeOK
<1>2. [m EXCEPT !.nativeEntered = TRUE] \in ModelType BY <1>1 DEF ModelType
<1>3. showNativeHintOnce(p) \in PhysType BY NativeType
<1> QED BY <1>1, <1>2, <1>3, FrameEnds DEF NativeFails

\* What leaveIsolated does to the terminal and to the model.
LEMMA Leaves ==
    ASSUME TypeOK, leaveIsolated
    PROVE  /\ m' \in ModelType /\ m'.presentation = "native"
           /\ (m'.nativeEntered <=> m.nativeEntered) /\ (m'.hinted <=> m.hinted)
           /\ (m'.hintOnPrimary <=> m.hintOnPrimary)
           /\ m'.physicalRows = m.physicalRows /\ m'.rows = sessionRows(m', m'.physicalRows)
           /\ term' \in TermType /\ term' = [term EXCEPT !.rows = m'.rows]
           /\ failed' \subseteq failed \cup {"paint", "leave"}
           /\ \E p \in {phys, Flushed(phys)} :
                /\ p \in PhysType
                /\ \/ /\ failed \subseteq failed'
                      /\ phys' = IF m.presentation = "isolated" THEN [LeaveAlt(p) EXCEPT !.region = FALSE] ELSE p
                   \/ m.presentation = "isolated" /\ Fail("leave") /\ phys' = p /\ FrameFails
           /\ \/ FrameFails
              \/ /\ frame' = [frame EXCEPT !.pc = "present", !.resized = @ \/ m'.rows # m.rows]
                 /\ UNCHANGED <<mu, sizer>>
<1> DEFINE nat == [m EXCEPT !.presentation = "native"]
           mm == Resized(nat, m.physicalRows)
           left(p) == IF m.presentation = "isolated" THEN [LeaveAlt(p) EXCEPT !.region = FALSE] ELSE p
<1>1. /\ nat \in ModelType /\ nat.presentation = "native" /\ nat.physicalRows = m.physicalRows
      /\ (nat.nativeEntered <=> m.nativeEntered) /\ (nat.hinted <=> m.hinted)
      /\ (nat.hintOnPrimary <=> m.hintOnPrimary) /\ m.physicalRows \in Nat
    BY DEF TypeOK, ModelType
<1> HIDE DEF nat
<1>2. /\ mm \in ModelType /\ mm.presentation = "native" /\ mm.physicalRows = m.physicalRows
      /\ (mm.nativeEntered <=> m.nativeEntered) /\ (mm.hinted <=> m.hinted)
      /\ (mm.hintOnPrimary <=> m.hintOnPrimary)
      /\ mm.rows = sessionRows(mm, m.physicalRows)
    BY <1>1, ResizedType
<1>3. /\ m' = mm /\ term' = [term EXCEPT !.rows = mm.rows]
      /\ \/ /\ phys' = left(Flushed(phys)) /\ UNCHANGED failed
            /\ frame' = [frame EXCEPT !.pc = "present", !.resized = @ \/ mm.rows # m.rows]
            /\ UNCHANGED <<mu, sizer>>
         \/ Fail("paint") /\ phys' = left(phys) /\ FrameFails
         \/ m.presentation = "isolated" /\ Fail("leave") /\ phys' = Flushed(phys) /\ FrameFails
    BY DEF leaveIsolated, nat
<1> HIDE DEF mm, left
<1>4. term' \in TermType BY <1>2, <1>3 DEF TypeOK, TermType, ModelType
<1>5. phys \in PhysType /\ Flushed(phys) \in PhysType BY FinishType DEF TypeOK
<1>6. \E p \in {phys, Flushed(phys)} :
          /\ p \in PhysType
          /\ \/ failed \subseteq failed' /\ phys' = left(p)
             \/ m.presentation = "isolated" /\ Fail("leave") /\ phys' = p /\ FrameFails
    BY <1>3, <1>5 DEF Fail
<1>7. failed' \subseteq failed \cup {"paint", "leave"} BY <1>3 DEF Fail
<1> QED BY <1>2, <1>3, <1>4, <1>6, <1>7 DEF left

LEMMA LeaveType == ASSUME TypeOK, leaveIsolated PROVE TypeOK'
<1>1. phys' \in PhysType
    <2>1. PICK p \in PhysType :
             phys' \in {p, [LeaveAlt(p) EXCEPT !.region = FALSE]}
        BY Leaves
    <2>2. LeaveAlt(p) \in PhysType BY DEF LeaveAlt, PhysType
    <2>3. [LeaveAlt(p) EXCEPT !.region = FALSE] \in PhysType BY <2>2 DEF PhysType
    <2> QED BY <2>1, <2>3
<1>2. /\ frame' \in FrameType /\ mu' \in {"free"} \cup Goroutines
      /\ sizer' \in [Goroutines -> SizerType]
    <2>1. CASE FrameFails BY <2>1, FrameEnds
    <2>2. CASE frame' = [frame EXCEPT !.pc = "present", !.resized = @ \/ m'.rows # m.rows]
               /\ UNCHANGED <<mu, sizer>>
        BY <2>2 DEF FrameType, Busy, TypeOK
    <2> QED BY <2>1, <2>2, Leaves
<1>3. NoView \in ViewType /\ NoPainter \in PainterType
    BY DEF NoView, ViewType, NoPainter, PainterType, Blank, PictureType, TextType
<1>4. m' \in ModelType /\ term' \in TermType BY Leaves
<1> QED BY <1>1, <1>2, <1>3, <1>4 DEF leaveIsolated, aside, TypeOK

LEMMA FrameKeeps == ASSUME TypeOK, FrameStep PROVE TypeOK'
<1>0. /\ frame \in FrameType /\ NoFrame \in FrameType /\ phys \in PhysType /\ m \in ModelType
      /\ view \in ViewType /\ term \in TermType /\ pieces \in Nat
    BY DEF TypeOK, NoFrame, FrameType
<1>1. CASE ReceiveOutput
    <2>1. frame' \in FrameType BY <1>0, <1>1 DEF ReceiveOutput, FrameType, Busy
    <2> QED BY <1>1, <2>1 DEF ReceiveOutput, aside, TypeOK, Goroutines
<1>2. CASE Synchronize
    <2>1. frame' \in FrameType BY <1>0, <1>2 DEF Synchronize, FrameType, Busy
    <2>2. pieces' \in Nat BY <1>0, <1>2 DEF Synchronize
    <2>3. term' \in TermType
        <3> DEFINE n == pieces'
                   a(alt) == IF alt THEN n ELSE 0
        <3>1. PICK alt, modes \in BOOLEAN :
                 term' = [term EXCEPT !.alt = alt, !.primary = n, !.altText = a(alt),
                                      !.modes = modes, !.hidden = modes]
            BY <1>2 DEF Synchronize
        <3>2. n \in Nat /\ a(alt) \in Nat BY <2>2
        <3> HIDE DEF n, a
        <3> QED BY <1>0, <3>1, <3>2 DEF TermType
    <2> QED BY <1>2, <2>1, <2>2, <2>3 DEF Synchronize, aside, TypeOK
<1>3. CASE WriteTerm
    <2>1. pieces' \in Nat BY <1>0, <1>3 DEF WriteTerm
    <2>2. Active(term) \in Nat BY <1>0 DEF Active, TermType
    <2>3. PICK piece \in {"none", "text", "modes", "plain"}, switch \in BOOLEAN :
              /\ term' = IF switch THEN Switch(Feed(term, piece, pieces')) ELSE Feed(term, piece, pieces')
              /\ frame' = [frame EXCEPT !.pc = "raw", !.piece = piece, !.switched = switch,
                                        !.old = Active(term)]
        BY <1>3 DEF WriteTerm
    <2>4. frame' \in FrameType BY <1>0, <2>2, <2>3 DEF FrameType, Busy
    <2>5. Feed(term, piece, pieces') \in TermType BY <1>0, <2>1 DEF Feed, TermType
    <2>6. \A t \in TermType : Switch(t) \in TermType BY DEF Switch, TermType
    <2>7. term' \in TermType BY <2>3, <2>5, <2>6
    <2> QED BY <1>3, <2>1, <2>4, <2>7 DEF WriteTerm, aside, TypeOK
<1>4. CASE presentRaw
    <2> DEFINE shown == Forward(enterNative(phys), frame.piece, frame.old, pieces)
               all == IF frame.switched /\ cfg.mode = "native" THEN ForwardSwitch(shown) ELSE shown
    <2>1. frame.old \in Nat BY <1>0 DEF FrameType
    <2>2. enterNative(phys) \in PhysType BY <1>0, NativeType
    <2>3. shown \in PhysType BY <1>0, <2>1, <2>2, ForwardType
    <2> HIDE DEF shown
    <2>4. all \in PhysType BY <2>3, NativeType
    <2>5. showNativeHintOnce(all) \in PhysType BY <2>4, NativeType
    <2>6. Hinted(m) \in ModelType BY <1>0, HintedType
    <2>7. markDirty(view) \in ViewType BY <1>0, ViewTypes
    <2>8. \/ UNCHANGED <<phys, m, view>> /\ FollowNext
          \/ view' = markDirty(view) /\ UNCHANGED <<phys, m>> /\ AfterRaw
          \/ phys' = showNativeHintOnce(all) /\ m' = Hinted(m) /\ UNCHANGED view /\ AfterRaw
          \/ NativeFails(all, Hinted(m)) /\ UNCHANGED view
        BY <1>4 DEF presentRaw, shown
    <2> HIDE DEF all
    <2>9. /\ phys' \in PhysType /\ m' \in ModelType /\ view' \in ViewType
          /\ frame' \in FrameType /\ mu' \in {"free"} \cup Goroutines
          /\ sizer' \in [Goroutines -> SizerType]
        BY <1>0, <2>4, <2>5, <2>6, <2>7, <2>8, FrameEnds, FailsType
    <2> QED BY <1>4, <2>9 DEF presentRaw, aside, TypeOK
<1>5. CASE FollowStays
    <2>1. frame' \in FrameType BY <1>0, <1>5 DEF FollowStays, FrameType, Busy
    <2> QED BY <1>5, <2>1 DEF FollowStays, aside, TypeOK
<1>6. CASE FollowToIsolated
    <2> DEFINE p == IF m.nativeEntered THEN nativeModeReset(phys) ELSE phys
    <2>1. 0 \in TextType BY DEF TextType
    <2>2. p \in PhysType /\ nativeModeReset(phys) \in PhysType BY <1>0, <2>1, PhysOps
    <2>3. \/ /\ enterIsolated(p)
             /\ \/ /\ frame' = [frame EXCEPT !.pc = "present", !.resized = @ \/ m'.rows # m.rows]
                   /\ UNCHANGED <<mu, sizer>>
                \/ FrameFails
          \/ /\ FrameFails
             /\ phys' \in {phys, nativeModeReset(phys)} /\ UNCHANGED <<term, m, view, painter>>
        BY <1>6 DEF FollowToIsolated
    <2> HIDE DEF p
    <2>4. /\ phys' \in PhysType /\ term' \in TermType /\ m' \in ModelType
          /\ view' \in ViewType /\ painter' \in PainterType
        <3>1. CASE enterIsolated(p) BY <2>2, <3>1, EnterType DEF TypeOK
        <3> QED BY <1>0, <2>2, <2>3, <3>1 DEF TypeOK
    <2>5. /\ frame' \in FrameType /\ mu' \in {"free"} \cup Goroutines
          /\ sizer' \in [Goroutines -> SizerType]
        <3>1. CASE FrameFails BY <3>1, FrameEnds
        <3>2. CASE frame' = [frame EXCEPT !.pc = "present", !.resized = @ \/ m'.rows # m.rows]
                   /\ UNCHANGED <<mu, sizer>>
            BY <1>0, <3>2 DEF FrameType, Busy, TypeOK
        <3> QED BY <2>3, <3>1, <3>2
    <2> QED BY <1>6, <2>4, <2>5 DEF FollowToIsolated, aside, TypeOK
<1>7. CASE FollowToNative
    <2>1. frame' \in FrameType BY <1>0, <1>7 DEF FollowToNative, FrameType, Busy
    <2>2. view' \in ViewType BY <1>0, <1>7 DEF FollowToNative, ViewType
    <2> QED BY <1>7, <2>1, <2>2 DEF FollowToNative, aside, TypeOK
<1>8. CASE leaveIsolated BY <1>8, LeaveType
<1>9. CASE presentFromModel
    <2> DEFINE repainted == nativeRepaint(enterNative(phys))
               unhinted == [m EXCEPT !.hintOnPrimary = FALSE]
               mm == Hinted(unhinted)
    <2>1. enterNative(phys) \in PhysType BY <1>0, NativeType
    <2>2. repainted \in PhysType BY <2>1, NativeType
    <2>3. unhinted \in ModelType BY <1>0 DEF ModelType
    <2>4. mm \in ModelType BY <2>3, HintedType
    <2>5. \/ view' = markDirty(view) /\ UNCHANGED <<phys, m>> /\ AfterPresent
          \/ phys' = showNativeHintOnce(repainted) /\ m' = mm /\ UNCHANGED view /\ AfterPresent
          \/ NativeFails(repainted, mm) /\ UNCHANGED view
        BY <1>9 DEF presentFromModel
    <2> HIDE DEF repainted, mm
    <2>6. showNativeHintOnce(repainted) \in PhysType BY <2>2, NativeType
    <2>7. markDirty(view) \in ViewType BY <1>0, ViewTypes
    <2>8. /\ phys' \in PhysType /\ m' \in ModelType /\ view' \in ViewType
          /\ frame' \in FrameType /\ mu' \in {"free"} \cup Goroutines
          /\ sizer' \in [Goroutines -> SizerType]
        BY <1>0, <2>2, <2>4, <2>5, <2>6, <2>7, FrameEnds, FailsType
    <2> QED BY <1>9, <2>8 DEF presentFromModel, aside, TypeOK
<1> QED BY <1>1, <1>2, <1>3, <1>4, <1>5, <1>6, <1>7, <1>8, <1>9 DEF FrameStep

LEMMA MainKeeps ==
    ASSUME TypeOK, Start \/ Started \/ BeginFinish \/ Finish
    PROVE  TypeOK'
<1>0. /\ main \in MainType /\ phys \in PhysType /\ m \in ModelType /\ view \in ViewType
      /\ sizer \in [Goroutines -> SizerType]
      /\ NoView \in ViewType /\ NoPainter \in PainterType
    BY DEF TypeOK, NoView, ViewType, NoPainter, PainterType, Blank, PictureType, TextType
<1>1. CASE Start
    <2>1. /\ phys' \in PhysType /\ m' \in ModelType /\ term' \in TermType
          /\ view' \in ViewType /\ painter' \in PainterType
        <3>1. CASE enterIsolated(phys) BY <1>0, <3>1, EnterType DEF TypeOK
        <3>2. CASE m' = [m EXCEPT !.presentation = IF cfg.mode = "native" THEN "native" ELSE @]
                   /\ UNCHANGED <<phys, term, view, painter, failed>>
            BY <1>0, <3>2 DEF TypeOK, ModelType
        <3> QED BY <1>1, <3>1, <3>2 DEF Start
    <2>2. main' \in MainType BY <1>0, <1>1 DEF Start, MainType
    <2>3. sizer' \in [Goroutines -> SizerType] BY <1>0, <1>1 DEF Start, SizerType, Goroutines
    <2> QED BY <1>1, <2>1, <2>2, <2>3 DEF Start, TypeOK
<1>2. CASE Started
    <2>1. main' \in MainType BY <1>0, <1>2 DEF Started, MainType
    <2> QED BY <1>2, <2>1 DEF Started, TypeOK
<1>3. CASE BeginFinish
    <2>1. main' \in MainType BY <1>0, <1>3 DEF BeginFinish, MainType
    <2>2. view' \in ViewType BY <1>0, <1>3 DEF BeginFinish, ViewType
    <2> QED BY <1>3, <2>1, <2>2 DEF BeginFinish, closing, TypeOK, Goroutines
<1>4. CASE Finish
    <2>1. main' \in MainType BY <1>0, <1>4 DEF Finish, MainType
    <2>2. PICK lost \in SUBSET FinishWrites :
            phys' \in LET p == IF "paint" \in lost THEN phys ELSE Flushed(phys)
                      IN CASE m.presentation = "isolated" -> finishIsolated(p, main.outcome, lost)
                           [] m.presentation = "native" -> finishNative(p, lost)
                           [] OTHER -> {p}
        BY <1>4 DEF Finish
    <2> DEFINE p == IF "paint" \in lost THEN phys ELSE Flushed(phys)
    <2>3. p \in PhysType BY <1>0, FinishType
    <2> HIDE DEF p
    <2>5. phys' \in CASE m.presentation = "isolated" -> finishIsolated(p, main.outcome, lost)
                      [] m.presentation = "native" -> finishNative(p, lost)
                      [] OTHER -> {p}
        BY <2>2 DEF p
    <2>4. phys' \in PhysType BY <2>3, <2>5, FinishType
    <2> QED BY <1>0, <1>4, <2>1, <2>4 DEF Finish, closing, TypeOK
<1> QED BY <1>1, <1>2, <1>3, <1>4

LEMMA TypeStep == ASSUME TypeOK, [Next]_vars PROVE TypeOK'
<1>1. CASE UNCHANGED vars BY <1>1 DEF vars, TypeOK
<1> QED BY <1>1, Steps, SizeType, ResizeType, PainterKeeps, FrameKeeps, MainKeeps

-----------------------------------------------------------------------------
(* m.mu, modes and views *)

\* m.mu is held by one goroutine, in its phase.
LEMMA LockStep == ASSUME TypeOK, LockInv, [Next]_vars PROVE LockInv'
<1>0. /\ sizer \in [Goroutines -> SizerType] /\ frame \in FrameType /\ main \in MainType
      /\ {"main", "frame", "resize"} = Goroutines /\ mu \in {"free", "main", "frame", "resize"}
    BY DEF TypeOK, Goroutines
<1>1. CASE SizeStep
    <2> DEFINE Goal ==
                 /\ UNCHANGED <<mu, frame, main>>
                 /\ \A g \in Goroutines : (sizer'[g].pc = "view") <=> (sizer[g].pc = "view")
                 /\ sizer'["main"].pc # "idle" => sizer["main"].pc # "idle"
                 /\ sizer'["frame"].pc # "idle" =>
                       sizer["frame"].pc # "idle" \/ (main.pc = "run" /\ frame.pc = "idle")
                 /\ sizer'["resize"].pc # "idle" => sizer["resize"].pc # "idle" \/ main.pc = "run"
    <2> SUFFICES Goal BY <1>0 DEF LockInv, Busy
    <2>1. CASE WindowChanges BY <2>1 DEF WindowChanges, screens
    <2>2. CASE ResizeEvent BY <1>0, <2>2 DEF ResizeEvent, screens, SizerType
    <2>3. CASE SizeRequested BY <1>0, <2>3 DEF SizeRequested, screens, SizerType
    <2>4. ASSUME NEW g \in Goroutines, ReadSize(g) \/ SendSize(g) PROVE Goal
        BY <1>0, <2>4 DEF ReadSize, SendSize, screens, SizerType
    <2> QED BY <1>1, <2>1, <2>2, <2>3, <2>4 DEF SizeStep
<1>2. CASE PainterStep
    BY <1>2 DEF PainterStep, PainterWakes, PainterReadsSize, PainterDumps, PainterWrites,
                PainterPauses, others, LockInv
<1>3. ASSUME NEW g \in Goroutines, applyResize(g) \/ SetViewSize(g) PROVE LockInv'
    <2>1. CASE applyResize(g)
        <3>1. /\ UNCHANGED <<frame, main>> /\ mu = "free" /\ mu' = g
              /\ sizer[g].pc = "apply" /\ sizer'[g].pc = "view"
              /\ \A o \in Goroutines \ {g} : sizer'[o] = sizer[o]
            BY <1>0, <2>1 DEF applyResize, screens, SizerType
        <3> QED BY <1>0, <3>1 DEF LockInv, Busy
    <2>2. CASE SetViewSize(g)
        <3>1. /\ UNCHANGED <<frame, main>> /\ mu' = "free"
              /\ sizer[g].pc = "view" /\ sizer'[g].pc = "send"
              /\ \A o \in Goroutines \ {g} : sizer'[o] = sizer[o]
            BY <1>0, <2>2 DEF SetViewSize, screens, SizerType
        <3> QED BY <1>0, <3>1 DEF LockInv, Busy
    <2> QED BY <1>3, <2>1, <2>2
<1>4. CASE FrameStep
    <2>1. UNCHANGED main
        BY <1>4 DEF FrameStep, ReceiveOutput, Synchronize, WriteTerm, presentRaw, FollowStays,
                    FollowToIsolated, FollowToNative, leaveIsolated, presentFromModel, aside
    <2>2. CASE ReceiveOutput
        BY <1>0, <2>1, <2>2 DEF ReceiveOutput, NoFrame, LockInv, Busy
    <2>3. ASSUME frame.pc \in Busy, frame'.pc \in Busy, UNCHANGED <<mu, sizer>> PROVE LockInv'
        BY <2>1, <2>3 DEF LockInv, Busy
    <2>4. ASSUME frame.pc \in Busy, FrameFails PROVE LockInv'
        BY <1>0, <2>1, <2>4 DEF LockInv, Busy, FrameFails, NoFrame
    <2>5. ASSUME frame.pc \in Busy, FrameDone PROVE LockInv'
        <3>1. /\ frame'.pc = "idle" /\ mu' = "free" /\ sizer'["frame"].pc \in {"idle", "read"}
              /\ sizer'["main"] = sizer["main"] /\ sizer'["resize"] = sizer["resize"]
            BY <1>0, <2>5 DEF FrameDone, NoFrame, LockInv, SizerType
        <3> QED BY <1>0, <2>1, <2>5, <3>1 DEF LockInv, Busy
    <2>6. CASE Synchronize \/ WriteTerm \/ FollowStays \/ FollowToNative
        <3>1. frame.pc \in Busy /\ frame'.pc \in Busy /\ UNCHANGED <<mu, sizer>>
            BY <1>0, <2>6 DEF Synchronize, WriteTerm, FollowStays, FollowToNative, Busy, FrameType
        <3> QED BY <2>3, <3>1
    <2>7. CASE presentRaw \/ presentFromModel
        <3>1. frame.pc \in Busy /\ (FrameDone \/ FrameFails \/ FollowNext \/ AfterPresent)
            BY <2>7 DEF presentRaw, presentFromModel, NativeFails, AfterRaw, Busy
        <3>2. FollowNext => frame'.pc \in Busy /\ UNCHANGED <<mu, sizer>>
            BY <1>0 DEF FollowNext, FrameType, Busy
        <3>3. AfterPresent => FrameDone \/ (frame'.pc \in Busy /\ UNCHANGED <<mu, sizer>>)
            BY DEF AfterPresent, NoFrame, Busy
        <3> QED BY <2>3, <2>4, <2>5, <3>1, <3>2, <3>3
    <2>8. CASE FollowToIsolated \/ leaveIsolated
        <3>1. frame.pc \in Busy BY <2>8 DEF FollowToIsolated, leaveIsolated, Busy
        <3>2. FrameFails \/ (frame'.pc = "present" /\ UNCHANGED <<mu, sizer>>)
            BY <1>0, <2>8 DEF FollowToIsolated, leaveIsolated, FrameType
        <3>3. "present" \in Busy BY DEF Busy
        <3> QED BY <2>3, <2>4, <3>1, <3>2, <3>3
    <2> QED BY <1>4, <2>2, <2>6, <2>7, <2>8 DEF FrameStep
<1>5. CASE Start
    <2>1. /\ UNCHANGED <<mu, frame>> /\ main.pc = "start" /\ main'.pc \in {"size", "abort"}
          /\ sizer' = IF main'.pc = "size" THEN [sizer EXCEPT !["main"].pc = "read"] ELSE sizer
        BY <1>0, <1>5 DEF Start, MainType
    <2>2. /\ sizer'["main"].pc \in {"read", sizer["main"].pc}
          /\ main'.pc = "abort" => sizer'["main"] = sizer["main"]
          /\ sizer'["frame"] = sizer["frame"] /\ sizer'["resize"] = sizer["resize"]
        BY <1>0, <2>1 DEF SizerType
    <2> QED BY <1>0, <2>1, <2>2 DEF LockInv, Busy
<1>6. CASE Started
    BY <1>0, <1>6 DEF Started, LockInv, Busy, MainType
<1>7. CASE BeginFinish
    BY <1>0, <1>7 DEF BeginFinish, closing, LockInv, Busy, MainType
<1>8. CASE Finish
    BY <1>0, <1>8 DEF Finish, closing, LockInv, Busy, MainType
<1>9. CASE UNCHANGED vars BY <1>9 DEF vars, LockInv
<1> QED BY <1>1, <1>2, <1>3, <1>4, <1>5, <1>6, <1>7, <1>8, <1>9, Steps

\* A step of the painter, of a sendSize or of the window, seen from the rest.
Aside ==
    /\ UNCHANGED <<cfg, main, frame, pieces>>
    /\ failed \subseteq failed' /\ failed' \subseteq failed \cup {"paint"}
    /\ m'.presentation = m.presentation /\ (m'.nativeEntered <=> m.nativeEntered)
    /\ (m'.hinted <=> m.hinted) /\ (m'.hintOnPrimary <=> m.hintOnPrimary)
    /\ (term'.alt <=> term.alt) /\ term'.primary = term.primary /\ term'.altText = term.altText
    /\ (term'.modes <=> term.modes) /\ (term'.hidden <=> term.hidden)
    /\ phys'.screen = phys.screen /\ phys'.primary = phys.primary /\ phys'.pre = phys.pre
    /\ (phys'.modes <=> phys.modes) /\ (phys'.hidden <=> phys.hidden) /\ (phys'.hint <=> phys.hint)
    /\ ~view.live => UNCHANGED <<phys, failed>>
    /\ (view'.live <=> view.live) /\ (view'.wake => view.wake \/ view.live)
    /\ painter'.pc # "none" <=> painter.pc # "none"

\* Steps of the painter, of a sendSize and of the window are aside.
LEMMA AsideSteps ==
    ASSUME TypeOK, ViewInv,
           \/ SizeStep \/ PainterStep
           \/ \E g \in Goroutines : applyResize(g) \/ SetViewSize(g)
    PROVE  Aside
<1>0. phys \in PhysType /\ term \in TermType /\ m \in ModelType /\ view \in ViewType
      /\ painter \in PainterType
    BY DEF TypeOK
<1>1. CASE SizeStep
    BY <1>1 DEF SizeStep, WindowChanges, ResizeEvent, SizeRequested, ReadSize, SendSize, screens, Aside
<1>2. ASSUME NEW g \in Goroutines, applyResize(g) PROVE Aside
    <2>1. sizer[g].rows \in Nat BY DEF TypeOK, SizerType
    <2>2. /\ m'.presentation = m.presentation /\ (m'.nativeEntered <=> m.nativeEntered)
          /\ (m'.hinted <=> m.hinted) /\ (m'.hintOnPrimary <=> m.hintOnPrimary)
        BY <1>0, <1>2, <2>1, ResizedType DEF applyResize
    <2>3. /\ (term'.alt <=> term.alt) /\ term'.primary = term.primary /\ term'.altText = term.altText
          /\ (term'.modes <=> term.modes) /\ (term'.hidden <=> term.hidden)
        BY <1>0, <1>2 DEF applyResize, TermType
    <2> QED BY <1>2, <2>2, <2>3 DEF applyResize, screens, Aside
<1>3. ASSUME NEW g \in Goroutines, SetViewSize(g) PROVE Aside
    <2>1. (view'.live <=> view.live) /\ (view'.wake => view.wake \/ view.live)
        BY <1>0, <1>3, ViewTypes DEF SetViewSize
    <2> QED BY <1>3, <2>1 DEF SetViewSize, screens, Aside
<1>4. CASE PainterStep
    <2>1. UNCHANGED <<cfg, main, frame, pieces, m, term>>
        BY <1>4 DEF PainterStep, PainterWakes, PainterReadsSize, PainterDumps, PainterWrites,
                    PainterPauses, others
    <2>2. /\ (view'.live <=> view.live) /\ (view'.wake => view.wake)
          /\ painter'.pc # "none" /\ painter.pc # "none"
        BY <1>0, <1>4 DEF PainterStep, PainterWakes, PainterReadsSize, PainterDumps, PainterWrites,
                    PainterPauses, others, PainterType, ViewType, NoPainter
    <2>3. view.live /\ phys.screen = "alt" BY <2>2 DEF ViewInv
    <2>4. \/ UNCHANGED phys
          \/ phys' = Paint(phys, painter.rows, painter.reserved, painter.screen)
        BY <1>4 DEF PainterStep, PainterWakes, PainterReadsSize, PainterDumps, PainterWrites,
                    PainterPauses
    <2>5. failed \subseteq failed' /\ failed' \subseteq failed \cup {"paint"}
        BY <1>4 DEF PainterStep, PainterWakes, PainterReadsSize, PainterDumps, PainterWrites,
                    PainterPauses, Fail
    <2>6. painter.rows \in Nat /\ painter.reserved \in BOOLEAN /\ painter.screen \in PictureType
        BY <1>0 DEF PainterType
    <2>7. /\ phys'.screen = phys.screen /\ phys'.primary = phys.primary /\ phys'.pre = phys.pre
          /\ (phys'.modes <=> phys.modes) /\ (phys'.hidden <=> phys.hidden)
          /\ (phys'.hint <=> phys.hint)
        BY <1>0, <2>3, <2>4, <2>6, PaintType
    <2> QED BY <2>1, <2>2, <2>3, <2>5, <2>7 DEF Aside
<1> QED BY <1>1, <1>2, <1>3, <1>4

\* Such steps disturb only what is said about sizes and painting.
LEMMA AsideKeeps ==
    ASSUME TypeOK, TypeOK', ModeInv, ViewInv, PreInv, ScreenInv, NativeInv, Aside
    PROVE  ModeInv' /\ ViewInv' /\ PreInv' /\ ScreenInv' /\ NativeInv'
<1>1. ModeInv' BY DEF Aside, ModeInv
<1>2. ViewInv' BY DEF Aside, ViewInv
<1>3. PreInv' BY DEF Aside, PreInv, ViewInv
<1>4. ScreenInv' BY DEF Aside, ScreenInv
<1>5. NativeInv'
    <2>1. CASE m.presentation = "native"
        <3>1. UNCHANGED phys BY <2>1 DEF Aside, ViewInv
        <3> QED BY <3>1, <2>1 DEF Aside, NativeInv, WasAlt, TypeOK, TermType, FrameType
    <2>2. CASE main.pc = "start"
        <3>1. UNCHANGED phys BY <2>2 DEF Aside, ViewInv, ModeInv
        <3> QED BY <3>1, <2>2 DEF Aside, NativeInv, WasAlt, TypeOK, TermType, FrameType
    <2> QED BY <2>1, <2>2 DEF Aside, NativeInv
<1> QED BY <1>1, <1>2, <1>3, <1>4, <1>5

\* A sendSize outside m.mu changes nothing that is shown.
LEMMA SizingSame ==
    ASSUME TypeOK, SizeStep
    PROVE  UNCHANGED <<cfg, phys, term, m, view, painter, frame, main, failed>> /\ (Sizing' <=> Sizing)
<1>0. sizer \in [Goroutines -> SizerType] /\ "frame" \in Goroutines /\ "resize" \in Goroutines
    BY DEF TypeOK, Goroutines
<1>1. CASE WindowChanges BY <1>1 DEF WindowChanges, screens, Sizing
<1>2. CASE ResizeEvent
    <2>1. \A g \in Goroutines : (sizer'[g].pc = "view") <=> (sizer[g].pc = "view")
        BY <1>0, <1>2 DEF ResizeEvent, SizerType
    <2> QED BY <1>2, <2>1 DEF ResizeEvent, screens, Sizing
<1>3. CASE SizeRequested
    <2>1. \A g \in Goroutines : (sizer'[g].pc = "view") <=> (sizer[g].pc = "view")
        BY <1>0, <1>3 DEF SizeRequested, SizerType
    <2> QED BY <1>3, <2>1 DEF SizeRequested, screens, Sizing
<1>4. ASSUME NEW h \in Goroutines, ReadSize(h) \/ SendSize(h)
      PROVE  UNCHANGED <<cfg, phys, term, m, view, painter, frame, main, failed>> /\ (Sizing' <=> Sizing)
    <2>1. \A g \in Goroutines : (sizer'[g].pc = "view") <=> (sizer[g].pc = "view")
        BY <1>0, <1>4 DEF ReadSize, SendSize, SizerType
    <2> QED BY <1>4, <2>1 DEF ReadSize, SendSize, screens, Sizing
<1> QED BY <1>1, <1>2, <1>3, <1>4 DEF SizeStep

\* The painter and the sizes: a change of size marks the view dirty, and what
\* the painter reads after it took the mark is current.
LEMMA AsidePaints ==
    ASSUME TypeOK, TypeOK', LockInv, ViewInv, SizeInv, PaintInv,
           \/ SizeStep \/ PainterStep
           \/ \E g \in Goroutines : applyResize(g) \/ SetViewSize(g)
    PROVE  SizeInv' /\ PaintInv'
<1>0. phys \in PhysType /\ term \in TermType /\ m \in ModelType /\ view \in ViewType
      /\ painter \in PainterType /\ sizer \in [Goroutines -> SizerType]
    BY DEF TypeOK
<1>1. CASE SizeStep
    <2>1. UNCHANGED <<cfg, phys, term, m, view, painter, frame, main, failed>> /\ (Sizing' <=> Sizing)
        BY <1>1, SizingSame
    <2> QED BY <2>1 DEF SizeInv, PaintInv, Stale, sessionRows, Dump, Active
<1>2. ASSUME NEW g \in Goroutines, applyResize(g) PROVE SizeInv' /\ PaintInv'
    <2>1. sizer[g].rows \in Nat BY <1>0 DEF SizerType
    <2>2. m'.physicalRows = sizer[g].rows /\ m'.rows = sessionRows(m', m'.physicalRows)
        BY <1>0, <1>2, <2>1, ResizedType DEF applyResize
    <2>3. UNCHANGED <<cfg, phys, view, painter, failed>> BY <1>2 DEF applyResize, screens
    <2>4. Sizing' BY <1>0, <1>2 DEF applyResize, Sizing, SizerType
    <2>5. term'.rows = m'.rows BY <1>0, <1>2 DEF applyResize, TermType
    <2>6. SizeInv' BY <2>2, <2>3, <2>4, <2>5 DEF SizeInv, sessionRows
    <2>7. PaintInv' BY <2>3, <2>4 DEF PaintInv, Stale
    <2> QED BY <2>6, <2>7
<1>3. ASSUME NEW g \in Goroutines, SetViewSize(g) PROVE SizeInv' /\ PaintInv'
    <2>1. view' = IF view.live THEN setSize(view, m) ELSE view BY <1>3 DEF SetViewSize
    <2>2. /\ view'.live => view'.wake /\ view'.rows = m.rows
          /\ view'.live => (view'.reserved <=> m.rows < m.physicalRows)
        BY <1>0, <2>1, ViewTypes
    <2>3. UNCHANGED <<cfg, term, m>> BY <1>3 DEF SetViewSize, screens
    <2> QED BY <2>2, <2>3 DEF SizeInv, PaintInv, sessionRows
<1>4. CASE PainterStep
    <2>1. /\ UNCHANGED <<cfg, term, m, sizer, frame>>
          /\ (view'.live <=> view.live) /\ view'.rows = view.rows /\ (view'.reserved <=> view.reserved)
        BY <1>0, <1>4 DEF PainterStep, PainterWakes, PainterReadsSize, PainterDumps, PainterWrites,
                          PainterPauses, others, ViewType
    <2>2. SizeInv' BY <2>1 DEF SizeInv, Sizing, sessionRows
    <2>3. Stale' <=> Stale BY <2>1 DEF Stale, Sizing
    <2>4. Active(term)' = Active(term) /\ Dump(term)' = Dump(term) BY <2>1 DEF Active, Dump
    <2>5. CASE PainterWakes
        <3>1. /\ UNCHANGED <<phys, failed>>
              /\ \/ painter'.pc = "size"
                 \/ painter.pc = "wait" /\ painter'.pc = "stopped" /\ UNCHANGED view
            BY <1>0, <2>5 DEF PainterWakes, PainterType
        <3> QED BY <2>1, <2>2, <2>3, <3>1 DEF PaintInv
    <2>6. CASE PainterReadsSize
        <3>1. painter'.pc = "dump" /\ painter'.rows = view.rows /\ painter'.reserved = view.reserved
            BY <1>0, <2>6 DEF PainterReadsSize, PainterType
        <3> QED BY <2>1, <2>2, <3>1 DEF PaintInv
    <2>7. CASE PainterDumps
        <3>1. /\ painter'.pc = "paint" /\ painter.pc = "dump" /\ painter'.screen = Dump(term)
              /\ painter'.rows = painter.rows /\ painter'.reserved = painter.reserved /\ UNCHANGED view
            BY <1>0, <2>7 DEF PainterDumps, PainterType
        <3> QED BY <2>1, <2>2, <2>4, <3>1 DEF PaintInv
    <2>8. CASE PainterWrites
        <3>1. UNCHANGED view /\ painter.pc = "paint" BY <2>8 DEF PainterWrites
        <3>2. CASE Fail("paint") /\ painter'.pc = "stopped"
            BY <2>2, <3>2 DEF PaintInv, Fail
        <3>3. CASE /\ phys' = Paint(phys, painter.rows, painter.reserved, painter.screen)
                   /\ painter'.pc = "pause"
            <4>1. painter.rows \in Nat /\ painter.reserved \in BOOLEAN /\ painter.screen \in PictureType
                BY <1>0 DEF PainterType
            <4>2. view.live => phys.screen = "alt" BY DEF ViewInv
            <4>3. view.live =>
                     /\ phys'.region <=> painter.reserved
                     /\ phys'.alt.text = painter.screen.text /\ (phys'.alt.hint <=> painter.reserved)
                     /\ painter.rows = painter.screen.rows => phys'.alt.rows = painter.rows
                BY <1>0, <3>3, <4>1, <4>2, PaintType
            <4>4. ~Stale /\ view.live => view.rows = term.rows BY DEF Stale, SizeInv
            <4>5. Dump(term).text = Active(term) /\ Dump(term).rows = term.rows BY DEF Dump
            <4> QED BY <2>1, <2>2, <2>3, <2>4, <3>1, <3>3, <4>3, <4>4, <4>5 DEF PaintInv
        <3>4. [NoPainter EXCEPT !.pc = "stopped"].pc = "stopped" /\ [NoPainter EXCEPT !.pc = "pause"].pc = "pause"
            BY DEF NoPainter
        <3> QED BY <2>8, <3>2, <3>3, <3>4 DEF PainterWrites
    <2>9. CASE PainterPauses
        <3>1. UNCHANGED <<phys, failed, view>> /\ painter.pc = "pause" /\ painter'.pc \in {"wait", "stopped"}
            BY <1>0, <2>9 DEF PainterPauses, PainterType
        <3> QED BY <2>2, <2>3, <2>4, <2>1, <3>1 DEF PaintInv
    <2> QED BY <1>4, <2>5, <2>6, <2>7, <2>8, <2>9 DEF PainterStep
<1> QED BY <1>1, <1>2, <1>3, <1>4

-----------------------------------------------------------------------------
(* The frame reader *)

\* While the frame reader has m.mu, nobody else is between emulator and view.
LEMMA FrameAlone ==
    ASSUME TypeOK, LockInv, frame.pc \in Busy
    PROVE  ~Sizing /\ main.pc = "run" /\ mu = "frame"
BY DEF TypeOK, LockInv, Sizing, Goroutines

\* Steps that touch neither the terminal nor the model's presentation.
LEMMA QuietFrameStep ==
    ASSUME TypeOK, TypeOK', LockInv, Shows,
           ReceiveOutput \/ Synchronize \/ FollowStays \/ FollowToNative
    PROVE  Shows'
<1>0. /\ phys \in PhysType /\ term \in TermType /\ m \in ModelType /\ view \in ViewType
      /\ painter \in PainterType /\ frame \in FrameType /\ frame' \in FrameType
      /\ term' \in TermType
    BY DEF TypeOK
<1>1. /\ UNCHANGED <<cfg, phys, m, painter, main, failed, sizer>>
      /\ (view'.live <=> view.live) /\ view'.rows = view.rows /\ (view'.reserved <=> view.reserved)
      /\ (view'.wake <=> view.wake) /\ term'.rows = term.rows
    BY <1>0 DEF ReceiveOutput, Synchronize, FollowStays, FollowToNative, aside, ViewType, TermType
<1>2. SizeInv' BY <1>1 DEF Shows, SizeInv, Sizing, sessionRows
<1>3. CASE ReceiveOutput
    <2>1. frame.pc = "idle" /\ frame'.pc = "write" /\ ~frame'.switched /\ UNCHANGED term
        BY <1>3 DEF ReceiveOutput, NoFrame
    <2>2. ModeInv' BY <1>1, <2>1 DEF Shows, ModeInv
    <2>3. ViewInv' BY <1>1, <2>1 DEF Shows, ViewInv
    <2>4. PaintInv' BY <1>1, <2>1 DEF Shows, PaintInv, Stale, Sizing, Dump, Active
    <2>5. PreInv' BY <1>1, <2>1 DEF Shows, PreInv
    <2>6. ScreenInv' BY <1>1, <2>1 DEF Shows, ScreenInv
    <2>7. NativeInv' BY <1>1, <2>1 DEF Shows, NativeInv
    <2> QED BY <1>2, <2>2, <2>3, <2>4, <2>5, <2>6, <2>7 DEF Shows
<1>4. CASE Synchronize
    <2>1. frame.pc = "write" /\ frame'.pc = "follow" /\ frame'.switched = frame.switched
        BY <1>0, <1>4 DEF Synchronize, FrameType
    <2>0. main.pc = "run" BY <2>1, FrameAlone DEF Busy
    <2>2. ModeInv' BY <1>1, <2>0, <2>1 DEF Shows, ModeInv
    <2>3. ViewInv' BY <1>1, <2>1 DEF Shows, ViewInv
    <2>4. PaintInv' BY <1>1, <2>1 DEF Shows, PaintInv, Stale
    <2>5. PreInv' BY <1>1, <2>1 DEF Shows, PreInv
    <2>6. ScreenInv' BY <1>1, <2>1 DEF Shows, ScreenInv
    <2>7. NativeInv' BY <1>1, <2>0, <2>1 DEF Shows, NativeInv, ModeInv
    <2> QED BY <1>2, <2>2, <2>3, <2>4, <2>5, <2>6, <2>7 DEF Shows
<1>5. CASE FollowStays
    <2>1. /\ frame.pc = "follow" /\ frame'.pc = "present" /\ UNCHANGED term
          /\ frame'.switched = frame.switched
          /\ cfg.mode # "auto" \/ Wanted = m.presentation
        BY <1>0, <1>5 DEF FollowStays, FrameType
    <2>0. main.pc = "run" BY <2>1, FrameAlone DEF Busy
    <2>2. ModeInv' BY <1>1, <2>0, <2>1 DEF Shows, ModeInv, Wanted
    <2>3. ViewInv' BY <1>1, <2>1 DEF Shows, ViewInv
    <2>4. PaintInv' BY <1>1, <2>1 DEF Shows, PaintInv, Stale
    <2>5. PreInv' BY <1>1, <2>1 DEF Shows, PreInv
    <2>6. ScreenInv' BY <1>1, <2>1 DEF Shows, ScreenInv
    <2>7. NativeInv' BY <1>1, <2>0, <2>1 DEF Shows, NativeInv
    <2> QED BY <1>2, <2>2, <2>3, <2>4, <2>5, <2>6, <2>7 DEF Shows
<1>6. CASE FollowToNative
    <2>1. /\ frame.pc = "follow" /\ frame'.pc = "leave" /\ UNCHANGED term
          /\ cfg.mode = "auto" /\ Wanted = "native" /\ m.presentation # "native"
        BY <1>0, <1>6 DEF FollowToNative, FrameType
    <2>0. main.pc = "run" BY <2>1, FrameAlone DEF Busy
    <2>2. ModeInv' BY <1>1, <2>0, <2>1 DEF Shows, ModeInv, Wanted
    <2>3. ViewInv' BY <1>1, <2>1 DEF Shows, ViewInv
    <2>4. PaintInv' BY <1>1, <2>1 DEF Shows, PaintInv, Stale
    <2>5. PreInv' BY <1>1, <2>1 DEF Shows, PreInv
    <2>6. ScreenInv' BY <1>1, <2>1 DEF Shows, ScreenInv
    <2>7. NativeInv' BY <1>1, <2>0, <2>1 DEF Shows, NativeInv
    <2> QED BY <1>2, <2>2, <2>3, <2>4, <2>5, <2>6, <2>7 DEF Shows
<1> QED BY <1>3, <1>4, <1>5, <1>6

\* What a switch of screens does to the emulator.
LEMMA SwitchFacts ==
    ASSUME NEW t \in TermType, NEW f, f = Switch(t)
    PROVE  /\ f \in TermType /\ (f.alt <=> ~t.alt) /\ f.rows = t.rows /\ f.primary = t.primary
           /\ f.altText = (IF t.alt THEN t.altText ELSE 0)
           /\ (f.modes <=> t.modes) /\ (f.hidden <=> t.hidden)
BY DEF Switch, TermType

\* The emulator is fed: the terminal lags behind by exactly that piece.
LEMMA WriteTermShows == ASSUME TypeOK, TypeOK', LockInv, Shows, WriteTerm PROVE Shows'
<1>0. /\ phys \in PhysType /\ term \in TermType /\ m \in ModelType /\ frame \in FrameType
      /\ pieces' \in Nat /\ frame' \in FrameType
    BY DEF TypeOK
<1>1. /\ UNCHANGED <<cfg, phys, m, view, painter, main, failed, sizer>>
      /\ frame.pc \in {"write", "more"} /\ m.presentation # "pending"
    BY DEF WriteTerm, aside
<1>2. PICK piece \in {"none", "text", "modes", "plain"}, switch \in BOOLEAN :
          /\ piece # "none" \/ switch
          /\ switch /\ cfg.mode # "auto" => piece = "none"
          /\ term' = IF switch THEN Switch(Feed(term, piece, pieces')) ELSE Feed(term, piece, pieces')
          /\ frame' = [frame EXCEPT !.pc = "raw", !.piece = piece, !.switched = switch,
                                    !.old = Active(term)]
    BY DEF WriteTerm
<1>3. /\ frame'.pc = "raw" /\ frame'.piece = piece /\ frame'.old = Active(term)
      /\ frame'.switched = switch
    BY <1>0, <1>2 DEF FrameType
<1> DEFINE fed == Feed(term, piece, pieces')
<1>4. /\ fed \in TermType /\ (fed.alt <=> term.alt) /\ fed.rows = term.rows
      /\ fed.primary = (IF piece = "text" /\ ~term.alt THEN pieces' ELSE term.primary)
      /\ fed.altText = (IF piece = "text" /\ term.alt THEN pieces' ELSE term.altText)
      /\ piece \notin {"modes", "plain"} => (fed.modes <=> term.modes) /\ (fed.hidden <=> term.hidden)
      /\ piece \in {"modes", "plain"} =>
            (fed.modes <=> piece = "modes") /\ (fed.hidden <=> piece = "modes")
    <2> DEFINE n == pieces'
    <2>1. n \in Nat /\ fed = Feed(term, piece, n) BY <1>0
    <2> HIDE DEF n, fed
    <2>2. /\ fed \in TermType /\ (fed.alt <=> term.alt) /\ fed.rows = term.rows
          /\ fed.primary = (IF piece = "text" /\ ~term.alt THEN n ELSE term.primary)
          /\ fed.altText = (IF piece = "text" /\ term.alt THEN n ELSE term.altText)
          /\ piece \notin {"modes", "plain"} => (fed.modes <=> term.modes) /\ (fed.hidden <=> term.hidden)
          /\ piece \in {"modes", "plain"} =>
                (fed.modes <=> piece = "modes") /\ (fed.hidden <=> piece = "modes")
        BY <1>0, <2>1 DEF Feed, TermType
    <2> QED BY <2>2 DEF n
<1>5. term' = IF switch THEN Switch(fed) ELSE fed BY <1>2
<1> HIDE DEF fed
<1>6. /\ (term'.alt <=> (term.alt # switch)) /\ term'.rows = term.rows
      /\ term'.primary = (IF piece = "text" /\ ~term.alt THEN pieces' ELSE term.primary)
      /\ term'.alt => term'.altText = (IF switch THEN 0
                                       ELSE IF piece = "text" THEN pieces' ELSE term.altText)
      /\ (term'.modes <=> fed.modes) /\ (term'.hidden <=> fed.hidden)
    <2>1. term.alt \in BOOLEAN BY <1>0 DEF TermType
    <2>2. CASE switch
        <3>1. /\ (term'.alt <=> ~fed.alt) /\ term'.rows = fed.rows /\ term'.primary = fed.primary
              /\ term'.altText = (IF fed.alt THEN fed.altText ELSE 0)
              /\ (term'.modes <=> fed.modes) /\ (term'.hidden <=> fed.hidden)
            BY <1>4, <1>5, <2>2, SwitchFacts
        <3> QED BY <1>4, <2>1, <2>2, <3>1
    <2>3. CASE ~switch BY <1>4, <1>5, <2>1, <2>3
    <2> QED BY <2>2, <2>3
<1>7. main.pc = "run" BY <1>1, FrameAlone DEF Busy
<1>8. ModeInv'
    <2>1. term.alt \in BOOLEAN BY <1>0 DEF TermType
    <2> QED BY <1>1, <1>2, <1>3, <1>6, <1>7, <2>1 DEF Shows, ModeInv
<1>9. ViewInv' BY <1>1, <1>3 DEF Shows, ViewInv
<1>10. SizeInv' BY <1>1, <1>6 DEF Shows, SizeInv, Sizing, sessionRows
<1>11. PaintInv' BY <1>1, <1>3 DEF Shows, PaintInv, Stale
<1>12. PreInv' BY <1>1, <1>3 DEF Shows, PreInv
<1>13. ScreenInv' BY <1>1, <1>3 DEF Shows, ScreenInv
<1>14. NativeInv'
    <2> SUFFICES ASSUME m.presentation = "native" PROVE NativeInv'
        BY <1>1, <1>7 DEF NativeInv
    <2>1. /\ phys.screen = IF term.alt THEN "alt" ELSE "primary"
          /\ phys.primary = term.primary
          /\ term.alt => phys.alt.text = term.altText
          /\ (phys.modes <=> term.modes) /\ (phys.hidden <=> term.hidden)
        BY <1>1 DEF Shows, NativeInv
    <2>2. term.alt \in BOOLEAN BY <1>0 DEF TermType
    <2>3. WasAlt' <=> term.alt BY <1>3, <1>6, <2>2 DEF WasAlt, TypeOK, TermType
    <2> QED BY <1>1, <1>3, <1>4, <1>6, <2>1, <2>2, <2>3 DEF NativeInv, Active
<1> QED BY <1>8, <1>9, <1>10, <1>11, <1>12, <1>13, <1>14 DEF Shows

\* enterNative changes nothing but what was shown before, and that once.
LEMMA EnterNativeFacts ==
    ASSUME TypeOK, NEW p \in PhysType, NEW q, q = enterNative(p)
    PROVE  /\ q \in PhysType /\ q.screen = p.screen /\ q.primary = p.primary /\ q.alt = p.alt
           /\ (q.region <=> p.region) /\ (q.modes <=> p.modes) /\ (q.hidden <=> p.hidden)
           /\ (q.hint <=> p.hint)
           /\ q.pre = p.pre \/ (p.pre = "shown" /\ q.pre \in {"scrolled", "cut"})
           /\ ~m.nativeEntered => q.pre # "shown"
<1> DEFINE s == ScrollAway(p, m.physicalRows)
<1>1. /\ s \in PhysType /\ s.screen = p.screen /\ s.primary = p.primary /\ s.alt = p.alt
      /\ (s.region <=> p.region) /\ (s.modes <=> p.modes) /\ (s.hidden <=> p.hidden)
      /\ (s.hint <=> p.hint)
      /\ s.pre = p.pre \/ (p.pre = "shown" /\ s.pre \in {"scrolled", "cut"})
      /\ s.pre # "shown"
    BY DEF ScrollAway, PhysType
<1> HIDE DEF s
<1>2. q = IF m.nativeEntered THEN p ELSE [s EXCEPT !.title = cfg.instructions]
    BY DEF enterNative, s
<1>3. cfg.instructions \in BOOLEAN BY DEF TypeOK
<1>4. CASE m.nativeEntered BY <1>2, <1>4
<1>5. CASE ~m.nativeEntered BY <1>1, <1>2, <1>3, <1>5 DEF PhysType
<1> QED BY <1>4, <1>5

\* Forwarding a piece draws on the screen that is active.
LEMMA ForwardFacts ==
    ASSUME TypeOK, NEW p \in PhysType, p.pre \notin {"shown", "lost"},
           NEW piece \in {"none", "text", "modes", "plain"}, NEW old \in Nat, NEW new \in Nat,
           NEW q, q = Forward(p, piece, old, new)
    PROVE  /\ q \in PhysType /\ q.screen = p.screen /\ q.pre = p.pre /\ (q.hint <=> p.hint)
           /\ piece # "text" => q.primary = p.primary /\ q.alt.text = p.alt.text
           /\ piece = "text" /\ p.screen = "alt" =>
                 q.primary = p.primary /\ (p.alt.text = old => q.alt.text = new)
           /\ piece = "text" /\ p.screen = "primary" =>
                 q.alt.text = p.alt.text /\ (p.primary = old => q.primary = new)
           /\ piece \notin {"modes", "plain"} => (q.modes <=> p.modes) /\ (q.hidden <=> p.hidden)
           /\ piece \in {"modes", "plain"} =>
                 (q.modes <=> piece = "modes") /\ (q.hidden <=> piece = "modes")
<1> DEFINE onto(text) == IF text = old THEN new ELSE "torn"
<1>1. \A text : onto(text) \in TextType /\ (text = old => onto(text) = new) BY DEF TextType
<1> HIDE DEF onto
<1>2. CASE piece = "text" /\ p.screen = "alt"
    <2> DEFINE a == [p.alt EXCEPT !.text = onto(@)]
    <2>1. q = [p EXCEPT !.alt = a] BY <1>2 DEF Forward, onto, PhysType
    <2>2. a \in PictureType /\ a.text = onto(p.alt.text) BY <1>1 DEF PhysType, PictureType
    <2> HIDE DEF a
    <2>3. /\ q \in PhysType /\ q.screen = p.screen /\ q.pre = p.pre /\ (q.hint <=> p.hint)
          /\ q.primary = p.primary /\ q.alt = a
          /\ (q.modes <=> p.modes) /\ (q.hidden <=> p.hidden)
        BY <2>1, <2>2 DEF PhysType
    <2> QED BY <1>1, <1>2, <2>2, <2>3
<1>3. CASE piece = "text" /\ p.screen # "alt"
    <2> DEFINE t == onto(p.primary)
    <2>1. q = DrawMain(p, t) BY <1>3 DEF Forward, onto
    <2>2. t \in TextType /\ (p.primary = old => t = new) BY <1>1
    <2> HIDE DEF t
    <2>3. /\ q \in PhysType /\ q.screen = p.screen /\ q.pre = p.pre /\ (q.hint <=> p.hint)
          /\ q.primary = t /\ q.alt = p.alt
          /\ (q.modes <=> p.modes) /\ (q.hidden <=> p.hidden)
        BY <2>1, <2>2 DEF DrawMain, PhysType
    <2> QED BY <1>3, <2>2, <2>3
<1>4. CASE piece # "text"
    BY <1>4 DEF Forward, PhysType
<1> QED BY <1>2, <1>3, <1>4

\* A forwarded switch takes the terminal to the emulator's screen.
LEMMA ForwardSwitchFacts ==
    ASSUME TypeOK, NEW p \in PhysType, NEW q, q = ForwardSwitch(p)
    PROVE  /\ q \in PhysType /\ q.screen = (IF term.alt THEN "alt" ELSE "primary")
           /\ q.primary = p.primary /\ q.pre = p.pre /\ (q.hint <=> p.hint)
           /\ (q.modes <=> p.modes) /\ (q.hidden <=> p.hidden)
           /\ term.alt => q.alt.text = 0
<1>1. Blank \in PictureType /\ Blank.text = 0 BY DEF Blank, PictureType, TextType
<1> QED BY <1>1 DEF ForwardSwitch, PhysType

\* The hint is drawn below, and only on the primary screen.
LEMMA HintFacts ==
    ASSUME TypeOK, NEW p \in PhysType, NEW q, q = showNativeHintOnce(p)
    PROVE  /\ q \in PhysType /\ q.screen = p.screen /\ q.primary = p.primary /\ q.alt = p.alt
           /\ q.pre = p.pre /\ (q.modes <=> p.modes) /\ (q.hidden <=> p.hidden)
           /\ q.hint <=> (p.hint \/ (HintDue /\ ~term.alt))
BY DEF showNativeHintOnce, PhysType

\* A repaint makes the terminal show the emulator.
LEMMA RepaintFacts ==
    ASSUME TypeOK, NEW p \in PhysType, p.pre \notin {"shown", "lost"}, NEW q, q = nativeRepaint(p)
    PROVE  /\ q \in PhysType /\ q.primary = term.primary /\ q.pre = p.pre /\ ~q.hint
           /\ (q.modes <=> term.modes) /\ (q.hidden <=> term.hidden)
           /\ cfg.mode # "native" => q.screen = p.screen
           /\ cfg.mode = "native" => q.screen = (IF term.alt THEN "alt" ELSE "primary")
           /\ cfg.mode = "native" /\ term.alt => q.alt.text = term.altText
<1>1. term.primary \in TextType /\ term.modes \in BOOLEAN /\ term.hidden \in BOOLEAN
    BY DEF TypeOK, TermType, TextType
<1> DEFINE s == DrawMain(p, term.primary)
           d == [Blank EXCEPT !.text = term.altText]
<1>2. d \in PictureType /\ d.text = term.altText
    BY DEF TypeOK, TermType, TextType, Blank, PictureType
<1>3. s \in PhysType /\ s.screen = p.screen /\ s.primary = term.primary /\ s.pre = p.pre
    BY <1>1 DEF DrawMain, PhysType
<1> HIDE DEF s, d
<1> DEFINE screen == IF cfg.mode = "native" /\ term.alt THEN "alt"
                     ELSE IF cfg.mode = "native" THEN "primary" ELSE s.screen
           alt == IF cfg.mode = "native" /\ term.alt THEN d ELSE s.alt
<1>4. q = [s EXCEPT !.hint = FALSE, !.modes = term.modes, !.hidden = term.hidden,
                    !.screen = screen, !.alt = alt]
    BY <1>3 DEF nativeRepaint, s, d, PhysType
<1>5. screen \in {"primary", "alt"} /\ alt \in PictureType BY <1>2, <1>3 DEF PhysType
<1> HIDE DEF screen, alt
<1>6. /\ q \in PhysType /\ q.primary = s.primary /\ q.pre = s.pre /\ ~q.hint
      /\ (q.modes <=> term.modes) /\ (q.hidden <=> term.hidden)
      /\ q.screen = screen /\ q.alt = alt
    BY <1>1, <1>3, <1>4, <1>5 DEF PhysType
<1> QED BY <1>2, <1>3, <1>6 DEF screen, alt

\* How the frame reader goes on, or gives m.mu back.
LEMMA FrameGoesOn ==
    ASSUME TypeOK, LockInv, frame.pc \in Busy
    PROVE  /\ FrameDone => frame'.pc = "idle" /\ ~Sizing'
           /\ FrameFails => frame'.pc = "failed" /\ ~Sizing'
           /\ FollowNext => frame'.pc = "follow" /\ (frame'.switched <=> frame.switched) /\ ~Sizing'
           /\ AfterPresent => \/ frame'.pc = "idle" /\ ~Sizing'
                              \/ frame'.pc = "more" /\ frame.switched /\ ~Sizing'
<1>0. frame \in FrameType /\ sizer \in [Goroutines -> SizerType] /\ "frame" \in Goroutines
    BY DEF TypeOK, Goroutines
<1>1. ~Sizing /\ \A g \in Goroutines : sizer[g].pc # "view" BY FrameAlone DEF Sizing
<1>2. UNCHANGED sizer => ~Sizing' BY <1>1 DEF Sizing
<1>3. FrameDone => frame'.pc = "idle" /\ ~Sizing'
    <2> SUFFICES ASSUME FrameDone PROVE frame'.pc = "idle" /\ ~Sizing' OBVIOUS
    <2>1. frame'.pc = "idle" BY DEF FrameDone, NoFrame
    <2>2. sizer' \in {sizer, [sizer EXCEPT !["frame"].pc = "read"]} BY DEF FrameDone
    <2>3. \A g \in Goroutines : sizer'[g].pc # "view" BY <1>0, <1>1, <2>2 DEF SizerType
    <2> QED BY <2>1, <2>3 DEF Sizing
<1>4. FrameFails => frame'.pc = "failed" /\ ~Sizing' BY <1>2 DEF FrameFails, NoFrame
<1>5. FollowNext => frame'.pc = "follow" /\ (frame'.switched <=> frame.switched) /\ ~Sizing'
    BY <1>0, <1>2 DEF FollowNext, FrameType
<1>6. AfterPresent => \/ frame'.pc = "idle" /\ ~Sizing'
                      \/ frame'.pc = "more" /\ frame.switched /\ ~Sizing'
    BY <1>2, <1>3 DEF AfterPresent, NoFrame
<1> QED BY <1>3, <1>4, <1>5, <1>6

\* An isolated presentation is marked dirty.
LEMMA MarkedShows ==
    ASSUME TypeOK, TypeOK', LockInv, Shows, m.presentation = "isolated",
           frame.pc \in {"raw", "present"}, view' = markDirty(view), ~Sizing',
           UNCHANGED <<cfg, phys, term, m, painter, main, failed>>,
           \/ frame'.pc = "idle"
           \/ frame'.pc \in {"follow", "more"} /\ cfg.mode = "auto"
    PROVE  Shows'
<1>0. main.pc = "run" /\ ~Sizing BY FrameAlone DEF Busy
<1>1. view.live BY <1>0 DEF Shows, ViewInv
<1>2. /\ view'.live /\ view'.wake /\ view'.rows = view.rows /\ (view'.reserved <=> view.reserved)
    <2>1. view \in ViewType /\ m \in ModelType BY DEF TypeOK
    <2> QED BY <1>1, <2>1, ViewTypes
<1>3. ModeInv' BY <1>0 DEF Shows, ModeInv
<1>4. ViewInv' BY <1>1, <1>2 DEF Shows, ViewInv
<1>5. SizeInv' BY <1>0, <1>1, <1>2 DEF Shows, SizeInv, sessionRows
<1>6. PaintInv' BY <1>2 DEF PaintInv
<1>7. PreInv' BY DEF Shows, PreInv
<1>8. ScreenInv' BY DEF Shows, ScreenInv
<1>9. NativeInv' BY <1>0 DEF NativeInv
<1> QED BY <1>3, <1>4, <1>5, <1>6, <1>7, <1>8, <1>9 DEF Shows

\* The model mm after a native write, hint included, and the terminal p before
\* the hint: p was scrolled first, and a hint it shows is recorded.
NativeWritten(p, mm) ==
    /\ m.presentation = "native" /\ frame.pc \in {"raw", "present"}
    /\ p \in PhysType /\ p.pre \notin {"shown", "lost"} /\ (p.hint => phys.hint)
    /\ cfg.mode = "auto" => p.screen = "primary"
    /\ p.screen = "alt" => phys.screen = "alt" \/ term.alt
    /\ mm \in ModelType /\ mm.presentation = "native" /\ mm.nativeEntered
    /\ mm.rows = m.rows /\ mm.physicalRows = m.physicalRows
    /\ mm.hinted <=> (m.hinted \/ cfg.instructions)
    /\ mm.hintOnPrimary => mm.hinted
    /\ HintDue => (mm.hintOnPrimary <=> ~term.alt)
    /\ p.hint /\ ~HintDue => mm.hintOnPrimary

\* A native write that succeeds.
LEMMA ShownShows ==
    ASSUME TypeOK, TypeOK', LockInv, Shows, NEW p, NEW mm, NativeWritten(p, mm),
           phys' = showNativeHintOnce(p), m' = mm, ~Sizing',
           UNCHANGED <<cfg, term, view, painter, main, failed>>,
           \/ frame'.pc = "follow" /\ cfg.mode = "auto"
           \/ /\ frame'.pc = "idle" \/ (frame'.pc = "more" /\ cfg.mode = "auto")
              /\ cfg.mode = "auto" => ~term.alt
              /\ p.screen = IF term.alt THEN "alt" ELSE "primary"
              /\ p.primary = term.primary
              /\ term.alt => p.alt.text = term.altText
              /\ (p.modes <=> term.modes) /\ (p.hidden <=> term.hidden)
    PROVE  Shows'
<1>0. main.pc = "run" /\ ~Sizing BY FrameAlone DEF Busy, NativeWritten
<1>1. p \in PhysType /\ m.presentation = "native" /\ m'.presentation = "native" BY DEF NativeWritten
<1>2. /\ phys'.screen = p.screen /\ phys'.primary = p.primary /\ phys'.alt = p.alt
      /\ phys'.pre = p.pre /\ (phys'.modes <=> p.modes) /\ (phys'.hidden <=> p.hidden)
      /\ phys'.hint <=> (p.hint \/ (HintDue /\ ~term.alt))
    BY <1>1, HintFacts
<1>3. ~view.live BY <1>1 DEF Shows, ViewInv
<1>4. ModeInv' BY <1>0, <1>1 DEF Shows, ModeInv
<1>5. ViewInv' BY <1>0, <1>1, <1>3 DEF Shows, ViewInv, NativeWritten
<1>6. SizeInv' BY <1>1, <1>3 DEF Shows, SizeInv, sessionRows, NativeWritten
<1>7. PaintInv' BY <1>3 DEF PaintInv
<1>8. PreInv' BY <1>1, <1>2 DEF Shows, PreInv, NativeWritten, HintDue
<1>9. ScreenInv' BY <1>1, <1>2 DEF ScreenInv, NativeWritten
<1>10. NativeInv' BY <1>0, <1>2 DEF NativeInv, NativeWritten
<1> QED BY <1>4, <1>5, <1>6, <1>7, <1>8, <1>9, <1>10 DEF Shows

\* A native write that fails leaves the terminal as it was, or written without
\* or with the hint.
LEMMA FailShows ==
    ASSUME TypeOK, TypeOK', LockInv, Shows, NEW p, NEW mm, NativeWritten(p, mm),
           NativeFails(p, mm), UNCHANGED <<cfg, term, view, painter, main>>
    PROVE  Shows'
<1>0. main.pc = "run" /\ ~Sizing /\ frame.pc \in Busy BY FrameAlone DEF Busy, NativeWritten
<1>1. p \in PhysType /\ m.presentation = "native" /\ m \in ModelType BY DEF NativeWritten, TypeOK
<1>2. frame'.pc = "failed" /\ ~Sizing' BY <1>0, FrameGoesOn DEF NativeFails
<1> DEFINE q == showNativeHintOnce(p)
<1>3. /\ q.screen = p.screen /\ q.pre = p.pre
      /\ q.hint <=> (p.hint \/ (HintDue /\ ~term.alt))
    BY <1>1, HintFacts
<1>4. /\ failed' = failed \cup {IF phys.screen = "alt" /\ ~term.alt THEN "leave" ELSE "native"}
      /\ \/ phys' \in {phys, p} /\ m' = [m EXCEPT !.nativeEntered = TRUE]
         \/ HintDue /\ phys' \in {p, q} /\ m' = mm
    BY DEF NativeFails, Fail
<1> HIDE DEF q
<1>5. /\ m'.presentation = "native" /\ m'.nativeEntered
      /\ m'.rows = m.rows /\ m'.physicalRows = m.physicalRows
      /\ m'.hintOnPrimary => m'.hinted
    BY <1>1, <1>4 DEF ModelType, NativeWritten, Shows, PreInv
<1>6. ~view.live BY <1>1 DEF Shows, ViewInv
<1>7. ModeInv' BY <1>0, <1>1, <1>2, <1>5 DEF Shows, ModeInv
<1>8. ViewInv' BY <1>2, <1>5, <1>6 DEF Shows, ViewInv
<1>9. SizeInv' BY <1>1, <1>5, <1>6 DEF Shows, SizeInv, sessionRows
<1>10. PaintInv' BY <1>6 DEF PaintInv
<1>11. PreInv'
    <2>1. CASE phys' \in {phys, p} /\ m' = [m EXCEPT !.nativeEntered = TRUE]
        <3>1. (m'.hinted <=> m.hinted) /\ (m'.hintOnPrimary <=> m.hintOnPrimary)
            BY <1>1, <2>1 DEF ModelType
        <3> QED BY <1>1, <1>2, <1>5, <2>1, <3>1 DEF Shows, PreInv, NativeWritten
    <2>2. CASE HintDue /\ phys' \in {p, q} /\ m' = mm
        BY <1>1, <1>2, <1>3, <1>5, <2>2 DEF Shows, PreInv, NativeWritten, HintDue
    <2> QED BY <1>4, <2>1, <2>2
<1>12. ScreenInv'
    <2>1. phys'.screen \in {phys.screen, p.screen} BY <1>3, <1>4
    <2>2. cfg.mode = "auto" /\ "leave" \notin failed => phys.screen = "primary"
        BY <1>1 DEF Shows, ScreenInv
    <2>3. "leave" \notin failed' => "leave" \notin failed /\ ~(phys.screen = "alt" /\ ~term.alt)
        BY <1>4
    <2> QED BY <1>2, <1>5, <2>1, <2>2, <2>3 DEF ScreenInv, NativeWritten
<1>13. NativeInv' BY <1>0, <1>2 DEF NativeInv
<1> QED BY <1>7, <1>8, <1>9, <1>10, <1>11, <1>12, <1>13 DEF Shows
\* The frame reader writes a piece to the terminal, or marks the view dirty.
LEMMA RawShows == ASSUME TypeOK, TypeOK', LockInv, Shows, presentRaw PROVE Shows'
<1>0. /\ frame.pc = "raw" /\ frame.pc \in Busy /\ phys \in PhysType /\ m \in ModelType
      /\ frame.old \in Nat /\ pieces \in Nat /\ frame.switched \in BOOLEAN /\ term.alt \in BOOLEAN
      /\ frame.piece \in {"none", "text", "modes", "plain"}
      /\ UNCHANGED <<cfg, term, painter, main>>
    BY DEF presentRaw, TypeOK, Busy, aside, FrameType, TermType
<1>1. main.pc = "run" /\ ~Sizing BY <1>0, FrameAlone
<1> DEFINE e == enterNative(phys)
           s == Forward(e, frame.piece, frame.old, pieces)
           p == IF frame.switched /\ cfg.mode = "native" THEN ForwardSwitch(s) ELSE s
           quiet == frame.piece = "none" /\ cfg.mode = "auto"
           mm == Hinted(m)
<1>2. \/ quiet /\ UNCHANGED <<phys, m, view, failed>> /\ FollowNext
      \/ /\ m.presentation = "isolated" /\ view' = markDirty(view)
         /\ UNCHANGED <<phys, m, failed>> /\ AfterRaw
      \/ /\ m.presentation = "native" /\ phys' = showNativeHintOnce(p) /\ m' = mm
         /\ UNCHANGED <<view, failed>> /\ AfterRaw
      \/ m.presentation = "native" /\ NativeFails(p, mm) /\ UNCHANGED view
    BY DEF presentRaw
<1>3. AfterRaw => \/ /\ frame'.pc = "follow" /\ cfg.mode = "auto" /\ frame.switched /\ ~Sizing'
                  \/ /\ frame'.pc = "idle" /\ (cfg.mode = "auto" => ~frame.switched) /\ ~Sizing'
    BY <1>0, FrameGoesOn DEF AfterRaw
<1>4. cfg.mode = "auto" /\ m.presentation = "native" => (term.alt <=> frame.switched) /\ ~WasAlt
    BY <1>0 DEF Shows, ModeInv, WasAlt
<1>5. CASE quiet /\ UNCHANGED <<phys, m, view, failed>> /\ FollowNext
    <2>1. frame'.pc = "follow" /\ ~Sizing' BY <1>0, <1>5, FrameGoesOn
    <2>2. ModeInv' BY <1>0, <1>1, <1>5, <2>1 DEF Shows, ModeInv
    <2>3. ViewInv' BY <1>0, <1>5, <2>1 DEF Shows, ViewInv
    <2>4. SizeInv' BY <1>0, <1>1, <1>5, <2>1 DEF Shows, SizeInv, sessionRows
    <2>5. PaintInv' BY <1>0, <1>5, <2>1 DEF Shows, PaintInv, Stale
    <2>6. PreInv' BY <1>0, <1>5, <2>1 DEF Shows, PreInv
    <2>7. ScreenInv' BY <1>0, <1>5, <2>1 DEF Shows, ScreenInv
    <2>8. NativeInv' BY <1>0, <1>1, <1>4, <1>5, <2>1 DEF Shows, NativeInv
    <2> QED BY <2>2, <2>3, <2>4, <2>5, <2>6, <2>7, <2>8 DEF Shows
<1>6. CASE m.presentation = "isolated" /\ view' = markDirty(view)
           /\ UNCHANGED <<phys, m, failed>> /\ AfterRaw
    BY <1>0, <1>3, <1>6, MarkedShows
<1>7. ASSUME m.presentation = "native"
      PROVE  /\ NativeWritten(p, mm)
             /\ ~(cfg.mode = "auto" /\ frame.switched) =>
                  /\ p.screen = IF term.alt THEN "alt" ELSE "primary"
                  /\ p.primary = term.primary
                  /\ term.alt => p.alt.text = term.altText
                  /\ (p.modes <=> term.modes) /\ (p.hidden <=> term.hidden)
    <2>1. /\ phys.pre # "lost" /\ (m.nativeEntered => phys.pre # "shown")
        BY <1>0 DEF Shows, PreInv
    <2>2. /\ e \in PhysType /\ e.screen = phys.screen /\ e.primary = phys.primary /\ e.alt = phys.alt
          /\ (e.modes <=> phys.modes) /\ (e.hidden <=> phys.hidden) /\ (e.hint <=> phys.hint)
          /\ e.pre \notin {"shown", "lost"}
        BY <1>0, <2>1, EnterNativeFacts
    <2> HIDE DEF e
    <2>3. s = Forward(e, frame.piece, frame.old, pieces) OBVIOUS
    <2> HIDE DEF s
    <2>4. /\ s \in PhysType /\ s.screen = e.screen /\ s.pre = e.pre /\ (s.hint <=> e.hint)
          /\ frame.piece # "text" => s.primary = e.primary /\ s.alt.text = e.alt.text
          /\ frame.piece = "text" /\ e.screen = "alt" =>
                s.primary = e.primary /\ (e.alt.text = frame.old => s.alt.text = pieces)
          /\ frame.piece = "text" /\ e.screen = "primary" =>
                s.alt.text = e.alt.text /\ (e.primary = frame.old => s.primary = pieces)
          /\ frame.piece \notin {"modes", "plain"} => (s.modes <=> e.modes) /\ (s.hidden <=> e.hidden)
          /\ frame.piece \in {"modes", "plain"} =>
                (s.modes <=> frame.piece = "modes") /\ (s.hidden <=> frame.piece = "modes")
        BY <1>0, <2>2, <2>3, ForwardFacts, SMTT(30)
    <2>5. /\ p \in PhysType /\ p.primary = s.primary /\ p.pre = s.pre /\ (p.hint <=> s.hint)
          /\ (p.modes <=> s.modes) /\ (p.hidden <=> s.hidden)
          /\ IF frame.switched /\ cfg.mode = "native"
             THEN /\ p.screen = (IF term.alt THEN "alt" ELSE "primary")
                  /\ term.alt => p.alt.text = 0
             ELSE p.screen = s.screen /\ p.alt = s.alt
        <3>1. CASE frame.switched /\ cfg.mode = "native"
            <4>1. p = ForwardSwitch(s) BY <3>1
            <4> HIDE DEF p
            <4> QED BY <2>4, <3>1, <4>1, ForwardSwitchFacts
        <3>2. CASE ~(frame.switched /\ cfg.mode = "native")
            <4>1. p = s BY <3>2
            <4> HIDE DEF p
            <4> QED BY <2>4, <3>2, <4>1
        <3> QED BY <3>1, <3>2
    <2>6. /\ mm \in ModelType /\ mm.presentation = "native" /\ mm.nativeEntered
          /\ (mm.hinted <=> (m.hinted \/ cfg.instructions))
          /\ (mm.hintOnPrimary <=> IF HintDue THEN ~term.alt ELSE m.hintOnPrimary)
          /\ mm.physicalRows = m.physicalRows /\ mm.rows = m.rows
        BY <1>0, <1>7, HintedType
    <2> HIDE DEF p, mm
    <2>7. /\ phys.screen = IF WasAlt THEN "alt" ELSE "primary"
          /\ frame.old = IF WasAlt THEN phys.alt.text ELSE phys.primary
          /\ term.primary = IF frame.piece = "text" /\ ~WasAlt THEN pieces ELSE phys.primary
          /\ term.alt => term.altText = IF frame.switched THEN 0
                                        ELSE IF frame.piece = "text" THEN pieces ELSE frame.old
          /\ frame.piece \notin {"modes", "plain"} =>
                (term.modes <=> phys.modes) /\ (term.hidden <=> phys.hidden)
          /\ frame.piece \in {"modes", "plain"} =>
                (term.modes <=> frame.piece = "modes") /\ (term.hidden <=> frame.piece = "modes")
        BY <1>0, <1>7 DEF Shows, NativeInv
    <2>8. WasAlt <=> (term.alt # frame.switched) BY DEF WasAlt
    <2>9. /\ (m.hintOnPrimary => m.hinted) /\ (phys.hint => m.hintOnPrimary) BY DEF Shows, PreInv
    <2>10. NativeWritten(p, mm)
        BY <1>0, <1>4, <1>7, <2>2, <2>4, <2>5, <2>6, <2>7, <2>9 DEF NativeWritten, HintDue
    <2>11. cfg.mode # "auto" => cfg.mode = "native" BY <1>7 DEF Shows, ModeInv, TypeOK
    <2>12. ASSUME ~(cfg.mode = "auto" /\ frame.switched)
           PROVE  /\ p.screen = IF term.alt THEN "alt" ELSE "primary"
                  /\ p.primary = term.primary
                  /\ term.alt => p.alt.text = term.altText
                  /\ (p.modes <=> term.modes) /\ (p.hidden <=> term.hidden)
        <3>1. CASE frame.switched
            BY <1>0, <2>2, <2>4, <2>5, <2>7, <2>8, <2>11, <2>12, <3>1 DEF Shows, ModeInv
        <3>2. CASE ~frame.switched
            BY <1>0, <2>2, <2>4, <2>5, <2>7, <2>8, <2>11, <2>12, <3>2
        <3> QED BY <3>1, <3>2
    <2> QED BY <2>10, <2>12
<1> HIDE DEF p, mm, quiet
<1>8. CASE /\ m.presentation = "native" /\ phys' = showNativeHintOnce(p) /\ m' = mm
           /\ UNCHANGED <<view, failed>> /\ AfterRaw
    <2>1. CASE frame'.pc = "follow" /\ cfg.mode = "auto" /\ ~Sizing'
        BY <1>0, <1>7, <1>8, <2>1, ShownShows
    <2>2. CASE frame'.pc = "idle" /\ (cfg.mode = "auto" => ~frame.switched) /\ ~Sizing'
        BY <1>0, <1>4, <1>7, <1>8, <2>2, ShownShows
    <2> QED BY <1>3, <1>8, <2>1, <2>2
<1>9. CASE m.presentation = "native" /\ NativeFails(p, mm) /\ UNCHANGED view
    BY <1>0, <1>7, <1>9, FailShows
<1> QED BY <1>2, <1>5, <1>6, <1>8, <1>9

\* The terminal is repainted from the model, or the view marked dirty.
LEMMA PresentShows == ASSUME TypeOK, TypeOK', LockInv, Shows, presentFromModel PROVE Shows'
<1>0. /\ frame.pc = "present" /\ frame.pc \in Busy /\ phys \in PhysType /\ m \in ModelType
      /\ UNCHANGED <<cfg, term, painter, main>>
    BY DEF presentFromModel, TypeOK, Busy, aside
<1> DEFINE e == enterNative(phys)
           p == nativeRepaint(e)
           u == [m EXCEPT !.hintOnPrimary = FALSE]
           mm == Hinted(u)
<1>1. \/ /\ m.presentation = "isolated" /\ view' = markDirty(view)
         /\ UNCHANGED <<phys, m, failed>> /\ AfterPresent
      \/ /\ m.presentation = "native" /\ phys' = showNativeHintOnce(p) /\ m' = mm
         /\ UNCHANGED <<view, failed>> /\ AfterPresent
      \/ m.presentation = "native" /\ NativeFails(p, mm) /\ UNCHANGED view
    BY DEF presentFromModel
<1>2. AfterPresent => ~Sizing' /\ (frame'.pc = "idle" \/ (frame'.pc = "more" /\ cfg.mode = "auto"))
    <2>1. frame.switched => cfg.mode = "auto" BY <1>0 DEF Shows, ModeInv
    <2> QED BY <1>0, <2>1, FrameGoesOn
<1>3. CASE m.presentation = "isolated" /\ view' = markDirty(view)
           /\ UNCHANGED <<phys, m, failed>> /\ AfterPresent
    BY <1>0, <1>2, <1>3, MarkedShows
<1>4. ASSUME m.presentation = "native"
      PROVE  /\ NativeWritten(p, mm)
             /\ cfg.mode = "auto" => ~term.alt
             /\ p.screen = IF term.alt THEN "alt" ELSE "primary"
             /\ p.primary = term.primary
             /\ term.alt => p.alt.text = term.altText
             /\ (p.modes <=> term.modes) /\ (p.hidden <=> term.hidden)
    <2>1. /\ phys.pre # "lost" /\ (m.nativeEntered => phys.pre # "shown")
        BY <1>0 DEF Shows, PreInv
    <2>2. e \in PhysType /\ e.screen = phys.screen /\ e.pre \notin {"shown", "lost"}
        BY <1>0, <2>1, EnterNativeFacts
    <2> HIDE DEF e
    <2>3. /\ p \in PhysType /\ p.primary = term.primary /\ p.pre = e.pre /\ ~p.hint
          /\ (p.modes <=> term.modes) /\ (p.hidden <=> term.hidden)
          /\ cfg.mode # "native" => p.screen = e.screen
          /\ cfg.mode = "native" => p.screen = (IF term.alt THEN "alt" ELSE "primary")
          /\ cfg.mode = "native" /\ term.alt => p.alt.text = term.altText
        BY <2>2, RepaintFacts
    <2>4. /\ u \in ModelType /\ u.presentation = m.presentation /\ (u.hinted <=> m.hinted)
          /\ ~u.hintOnPrimary /\ u.physicalRows = m.physicalRows /\ u.rows = m.rows
        BY <1>0 DEF ModelType
    <2> HIDE DEF u
    <2>5. /\ mm \in ModelType /\ mm.presentation = "native" /\ mm.nativeEntered
          /\ (mm.hinted <=> (m.hinted \/ cfg.instructions))
          /\ (mm.hintOnPrimary <=> IF HintDue THEN ~term.alt ELSE FALSE)
          /\ mm.physicalRows = m.physicalRows /\ mm.rows = m.rows
        BY <1>4, <2>4, HintedType
    <2> HIDE DEF p, mm
    <2>6. cfg.mode = "auto" => ~term.alt /\ phys.screen = "primary"
        BY <1>0, <1>4 DEF Shows, ModeInv, NativeInv
    <2>7. cfg.mode # "auto" => cfg.mode = "native" BY <1>4 DEF Shows, ModeInv, TypeOK
    <2>8. NativeWritten(p, mm)
        BY <1>0, <1>4, <2>2, <2>3, <2>5, <2>6, <2>7 DEF NativeWritten, HintDue
    <2> QED BY <2>2, <2>3, <2>6, <2>7, <2>8
<1> HIDE DEF p, mm
<1>5. CASE /\ m.presentation = "native" /\ phys' = showNativeHintOnce(p) /\ m' = mm
           /\ UNCHANGED <<view, failed>> /\ AfterPresent
    BY <1>0, <1>2, <1>4, <1>5, ShownShows
<1>6. CASE m.presentation = "native" /\ NativeFails(p, mm) /\ UNCHANGED view
    BY <1>0, <1>4, <1>6, FailShows
<1> QED BY <1>1, <1>3, <1>5, <1>6
\* The last paint of a closed view goes to the alternate screen.
LEMMA FlushedFacts ==
    ASSUME TypeOK, ViewInv, NEW q, q = Flushed(phys)
    PROVE  /\ q \in PhysType /\ q.screen = phys.screen /\ q.primary = phys.primary /\ q.pre = phys.pre
           /\ (q.modes <=> phys.modes) /\ (q.hidden <=> phys.hidden) /\ (q.hint <=> phys.hint)
           /\ view.wake => (q.region <=> view.reserved)
           /\ ~view.wake => q = phys
<1>1. Dump(term) \in PictureType
    BY DEF TypeOK, TermType, PictureType, Dump, Active, TextType
<1>2. phys \in PhysType /\ view.rows \in Nat /\ view.reserved \in BOOLEAN BY DEF TypeOK, ViewType
<1>3. CASE ~view.wake BY <1>2, <1>3 DEF Flushed
<1>4. CASE view.wake
    <2>1. phys.screen = "alt" BY <1>4 DEF ViewInv
    <2>2. q = Paint(phys, view.rows, view.reserved, Dump(term)) BY <1>4 DEF Flushed
    <2> QED BY <1>1, <1>2, <1>4, <2>1, <2>2, PaintType
<1> QED BY <1>3, <1>4

\* The modes are withdrawn and the view is entered, on the alternate screen.
LEMMA ToIsolatedShows == ASSUME TypeOK, TypeOK', LockInv, Shows, FollowToIsolated PROVE Shows'
<1>0. /\ frame.pc = "follow" /\ frame.pc \in Busy /\ cfg.mode = "auto" /\ m.presentation # "isolated"
      /\ term.alt /\ phys \in PhysType /\ frame \in FrameType
      /\ UNCHANGED <<cfg, main>>
    BY DEF FollowToIsolated, TypeOK, Busy, aside, Wanted
<1>1. main.pc = "run" /\ ~Sizing BY <1>0, FrameAlone
<1>2. ~view.live /\ painter.pc = "none" /\ ~view.wake BY <1>0 DEF Shows, ViewInv
<1>3. phys.screen = "primary" /\ "enter" \notin failed
    BY <1>0, <1>1 DEF Shows, ViewInv, ScreenInv, NativeInv, TypeOK, ModelType
<1> DEFINE r == nativeModeReset(phys)
           p == IF m.nativeEntered THEN r ELSE phys
<1>4. /\ r \in PhysType /\ r.screen = phys.screen /\ r.pre = phys.pre /\ ~r.modes
      /\ (r.hidden <=> phys.hidden) /\ (r.hint <=> phys.hint) /\ (r.region <=> phys.region)
    BY <1>0 DEF nativeModeReset, PhysType
<1>5. \/ /\ enterIsolated(p)
         /\ IF failed' = failed
            THEN /\ frame' = [frame EXCEPT !.pc = "present", !.resized = @ \/ m'.rows # m.rows]
                 /\ UNCHANGED <<mu, sizer>>
            ELSE FrameFails
      \/ /\ m.nativeEntered /\ Fail("native") /\ FrameFails
         /\ phys' \in {phys, r} /\ UNCHANGED <<term, m, view, painter>>
    BY DEF FollowToIsolated
<1> HIDE DEF r
<1>6. /\ p \in PhysType /\ p.screen = "primary" /\ p.pre = phys.pre /\ ~p.modes
      /\ (p.hidden <=> phys.hidden) /\ (p.hint <=> phys.hint) /\ (p.region <=> phys.region)
    BY <1>0, <1>3, <1>4 DEF Shows, PreInv
<1>7. CASE m.nativeEntered /\ Fail("native") /\ FrameFails
           /\ phys' \in {phys, r} /\ UNCHANGED <<term, m, view, painter>>
    <2>1. frame'.pc = "failed" /\ ~Sizing' BY <1>0, <1>7, FrameGoesOn
    <2>2. /\ phys'.screen = "primary" /\ phys'.pre = phys.pre /\ (phys'.hint <=> phys.hint)
        BY <1>3, <1>4, <1>7
    <2>3. ModeInv' BY <1>0, <1>1, <1>7, <2>1 DEF Shows, ModeInv
    <2>4. ViewInv' BY <1>0, <1>2, <1>7, <2>1 DEF Shows, ViewInv
    <2>5. SizeInv' BY <1>0, <1>2, <1>7 DEF Shows, SizeInv, sessionRows
    <2>6. PaintInv' BY <1>2, <1>7 DEF PaintInv
    <2>7. PreInv' BY <1>0, <1>7, <2>1, <2>2 DEF Shows, PreInv
    <2>8. ScreenInv' BY <1>0, <1>7, <2>1, <2>2 DEF Shows, ScreenInv
    <2>9. NativeInv' BY <1>0, <1>1, <2>1 DEF NativeInv
    <2> QED BY <2>3, <2>4, <2>5, <2>6, <2>7, <2>8, <2>9 DEF Shows
<1> HIDE DEF p
<1>8. CASE /\ enterIsolated(p)
           /\ IF failed' = failed
              THEN /\ frame' = [frame EXCEPT !.pc = "present", !.resized = @ \/ m'.rows # m.rows]
                   /\ UNCHANGED <<mu, sizer>>
              ELSE FrameFails
    <2>1. /\ m'.presentation = "isolated"
          /\ (m'.nativeEntered <=> m.nativeEntered) /\ (m'.hinted <=> m.hinted)
          /\ (m'.hintOnPrimary <=> m.hintOnPrimary)
          /\ m'.rows = sessionRows(m', m'.physicalRows)
          /\ phys' \in {p, isolatedEntry(p)} /\ term' = [term EXCEPT !.rows = m'.rows]
        BY <1>6, <1>8, EnterType
    <2>2. \/ /\ phys' = isolatedEntry(p) /\ failed' = failed
             /\ view'.live /\ view'.wake /\ painter'.pc = "wait"
             /\ view'.rows = m'.rows /\ (view'.reserved <=> m'.rows < m'.physicalRows)
          \/ "enter" \in failed' /\ failed \subseteq failed' /\ UNCHANGED <<view, painter>>
        BY <1>6, <1>8, EnterType
    <2>3. term'.rows = m'.rows /\ (term'.alt <=> term.alt)
        BY <2>1 DEF TypeOK, TermType
    <2>4. /\ isolatedEntry(p).screen = "alt" /\ isolatedEntry(p).pre = p.pre
          /\ ~isolatedEntry(p).modes /\ (isolatedEntry(p).hidden <=> p.hidden)
          /\ (isolatedEntry(p).hint <=> p.hint) /\ (isolatedEntry(p).region <=> p.region)
        BY <1>6 DEF isolatedEntry, PhysType
    <2>5. /\ phys'.pre = phys.pre /\ ~phys'.modes /\ (phys'.hidden <=> phys.hidden)
          /\ (phys'.hint <=> phys.hint) /\ (phys'.region <=> phys.region)
        BY <1>6, <2>1, <2>4
    <2>6. (view'.live => failed' = failed) /\ (~view'.live => failed' # failed /\ "enter" \in failed')
        BY <1>2, <1>3, <2>2
    <2>7. CASE view'.live
        <3>1. frame'.pc = "present" /\ ~Sizing'
            BY <1>0, <1>1, <1>8, <2>6, <2>7 DEF FrameType, Sizing
        <3>2. ModeInv' BY <1>0, <1>1, <2>1, <3>1 DEF Shows, ModeInv
        <3>3. ViewInv' BY <1>2, <1>3, <2>1, <2>2, <2>4, <2>7 DEF Shows, ViewInv
        <3>4. SizeInv' BY <1>0, <1>2, <2>1, <2>2, <2>3, <2>7 DEF SizeInv, sessionRows
        <3>5. PaintInv' BY <1>2, <2>2, <2>7 DEF PaintInv
        <3>6. PreInv' BY <1>0, <2>1, <2>5, <2>6, <2>7 DEF Shows, PreInv
        <3>7. ScreenInv' BY <2>1, <2>5 DEF ScreenInv
        <3>8. NativeInv' BY <1>0, <1>1, <2>1 DEF NativeInv
        <3> QED BY <3>2, <3>3, <3>4, <3>5, <3>6, <3>7, <3>8 DEF Shows
    <2>8. CASE ~view'.live
        <3>1. frame'.pc = "failed" /\ ~Sizing' /\ UNCHANGED <<view, painter>>
            BY <1>0, <1>8, <2>2, <2>6, <2>8, FrameGoesOn
        <3>2. ModeInv' BY <1>0, <1>1, <2>1, <3>1 DEF Shows, ModeInv
        <3>3. ViewInv' BY <1>2, <2>1, <2>6, <2>8, <3>1 DEF Shows, ViewInv
        <3>4. SizeInv' BY <1>0, <2>1, <2>3, <2>8 DEF SizeInv, sessionRows
        <3>5. PaintInv' BY <2>8 DEF PaintInv
        <3>6. PreInv' BY <1>0, <2>1, <2>5, <2>6, <2>8 DEF Shows, PreInv
        <3>7. ScreenInv' BY <2>1, <2>5 DEF ScreenInv
        <3>8. NativeInv' BY <1>0, <1>1, <2>1 DEF NativeInv
        <3> QED BY <3>2, <3>3, <3>4, <3>5, <3>6, <3>7, <3>8 DEF Shows
    <2> QED BY <2>7, <2>8
<1> QED BY <1>5, <1>7, <1>8

\* The view is closed, flushed and left for the primary screen.
LEMMA LeaveShows == ASSUME TypeOK, TypeOK', LockInv, Shows, leaveIsolated PROVE Shows'
<1>0. /\ frame.pc = "leave" /\ frame.pc \in Busy /\ phys \in PhysType /\ frame \in FrameType
      /\ view' = NoView /\ painter' = NoPainter /\ UNCHANGED <<cfg, main>>
    BY DEF leaveIsolated, TypeOK, Busy, aside
<1>1. main.pc = "run" /\ ~Sizing BY <1>0, FrameAlone
<1>2. cfg.mode = "auto" /\ m.presentation # "native" /\ ~term.alt BY <1>0 DEF Shows, ModeInv
<1>3. ~view'.live /\ ~view'.wake /\ painter'.pc = "none" BY <1>0 DEF NoView, NoPainter
<1>4. /\ m'.presentation = "native" /\ (m'.nativeEntered <=> m.nativeEntered)
      /\ (m'.hinted <=> m.hinted) /\ (m'.hintOnPrimary <=> m.hintOnPrimary)
      /\ m'.rows = sessionRows(m', m'.physicalRows)
      /\ term' = [term EXCEPT !.rows = m'.rows]
      /\ failed' \subseteq failed \cup {"paint", "leave"}
    BY Leaves
<1>5. term'.rows = m'.rows /\ ~term'.alt BY <1>2, <1>4 DEF TypeOK, TermType
<1>6. PICK p \in {phys, Flushed(phys)} :
          /\ p \in PhysType
          /\ \/ /\ failed \subseteq failed'
                /\ phys' = IF m.presentation = "isolated" THEN [LeaveAlt(p) EXCEPT !.region = FALSE] ELSE p
             \/ m.presentation = "isolated" /\ Fail("leave") /\ phys' = p /\ FrameFails
    BY Leaves
<1>7. /\ p.screen = phys.screen /\ p.pre = phys.pre
      /\ (p.modes <=> phys.modes) /\ (p.hidden <=> phys.hidden) /\ (p.hint <=> phys.hint)
      /\ ~view.wake => p = phys
    BY <1>0, <1>6, FlushedFacts DEF Shows
<1>8. frame'.pc \in {"failed", "present"} /\ (FrameFails => frame'.pc = "failed")
    <2>1. FrameFails => frame'.pc = "failed" BY <1>0, FrameGoesOn
    <2>2. \/ FrameFails
          \/ frame' = [frame EXCEPT !.pc = "present", !.resized = @ \/ m'.rows # m.rows]
        BY Leaves
    <2> QED BY <1>0, <2>1, <2>2 DEF FrameType
<1> DEFINE l == LeaveAlt(p)
           f == [l EXCEPT !.region = FALSE]
<1>9. /\ l \in PhysType /\ l.screen = "primary" /\ l.pre = p.pre
      /\ (l.modes <=> p.modes) /\ (l.hidden <=> p.hidden) /\ (l.hint <=> p.hint)
    BY <1>6 DEF LeaveAlt, PhysType
<1> HIDE DEF l
<1>10. /\ f.screen = "primary" /\ f.pre = p.pre /\ ~f.region
       /\ (f.modes <=> p.modes) /\ (f.hidden <=> p.hidden) /\ (f.hint <=> p.hint)
    BY <1>9 DEF PhysType
<1>11. \/ failed \subseteq failed' /\ phys' = IF m.presentation = "isolated" THEN f ELSE p
       \/ /\ m.presentation = "isolated" /\ "leave" \in failed' /\ phys' = p
          /\ frame'.pc = "failed"
    BY <1>6, <1>8 DEF l, Fail
<1> HIDE DEF f
<1>12. m.presentation # "isolated" => /\ m.presentation = "pending" /\ phys.screen = "primary"
                                      /\ p = phys
    BY <1>2, <1>7 DEF Shows, ViewInv, ScreenInv, TypeOK, ModelType
<1>13. /\ phys'.pre = phys.pre /\ (phys'.modes <=> phys.modes)
       /\ (phys'.hidden <=> phys.hidden) /\ (phys'.hint <=> phys.hint)
       /\ "leave" \notin failed' \/ frame'.pc = "present" => phys'.screen = "primary"
       /\ failed' = {} => failed = {} /\ (m.presentation = "isolated" => ~phys'.region)
       /\ failed' = {} /\ m.presentation # "isolated" => phys' = phys
    BY <1>7, <1>10, <1>11, <1>12
<1>14. ModeInv' BY <1>0, <1>1, <1>2, <1>4, <1>5, <1>8 DEF Shows, ModeInv
<1>15. ViewInv' BY <1>0, <1>1, <1>3, <1>4 DEF Shows, ViewInv
<1>16. SizeInv' BY <1>0, <1>3, <1>4, <1>5 DEF SizeInv, sessionRows
<1>17. PaintInv' BY <1>3 DEF PaintInv
<1>18. PreInv' BY <1>0, <1>4, <1>13 DEF Shows, PreInv
<1>19. ScreenInv' BY <1>4, <1>13 DEF ScreenInv
<1>20. NativeInv' BY <1>0, <1>1, <1>8, <1>13 DEF NativeInv
<1> QED BY <1>14, <1>15, <1>16, <1>17, <1>18, <1>19, <1>20 DEF Shows

\* Every step of the frame reader keeps what is shown right.
LEMMA FrameShows == ASSUME TypeOK, TypeOK', LockInv, Shows, FrameStep PROVE Shows'
BY QuietFrameStep, WriteTermShows, RawShows, PresentShows, ToIsolatedShows, LeaveShows DEF FrameStep
-----------------------------------------------------------------------------
(* Start and finish *)

\* start of the attachment, in each mode.
LEMMA StartShows == ASSUME TypeOK, TypeOK', LockInv, Shows, Start PROVE Shows'
<1>0. /\ main.pc = "start" /\ phys \in PhysType /\ m \in ModelType /\ main \in MainType
      /\ sizer \in [Goroutines -> SizerType] /\ "main" \in Goroutines
      /\ UNCHANGED <<cfg, frame>>
    BY DEF Start, TypeOK, Goroutines
<1>1. frame.pc = "idle" /\ ~Sizing BY <1>0 DEF LockInv, Sizing, Goroutines
<1>2. /\ m.presentation = "pending" /\ ~view.live /\ ~view.wake /\ painter.pc = "none"
      /\ phys.screen = "primary" /\ "enter" \notin failed /\ ~m.nativeEntered
    BY <1>0, <1>1 DEF Shows, ModeInv, ViewInv, ScreenInv, PreInv
<1>3. phys.pre = "shown" /\ ~phys.modes /\ ~phys.hidden /\ ~phys.hint /\ ~m.hinted /\ ~m.hintOnPrimary
    BY <1>2 DEF Shows, PreInv
<1>4. ~Sizing'
    <2>1. sizer' \in {sizer, [sizer EXCEPT !["main"].pc = "read"]} BY DEF Start
    <2>2. \A g \in Goroutines : sizer'[g].pc # "view" BY <1>0, <1>1, <2>1 DEF SizerType, Sizing
    <2> QED BY <2>2 DEF Sizing
<1>5. CASE /\ cfg.mode = "isolated" /\ enterIsolated(phys)
           /\ main' = [main EXCEPT !.pc = IF failed' = failed THEN "size" ELSE "abort"]
    <2>0. main'.pc = IF failed' = failed THEN "size" ELSE "abort" BY <1>0, <1>5 DEF MainType
    <2>1. /\ m'.presentation = "isolated"
          /\ (m'.nativeEntered <=> m.nativeEntered) /\ (m'.hinted <=> m.hinted)
          /\ (m'.hintOnPrimary <=> m.hintOnPrimary)
          /\ m'.rows = sessionRows(m', m'.physicalRows)
          /\ phys' \in {phys, isolatedEntry(phys)} /\ term' = [term EXCEPT !.rows = m'.rows]
        BY <1>0, <1>5, EnterType
    <2>2. \/ /\ phys' = isolatedEntry(phys) /\ failed' = failed
             /\ view'.live /\ view'.wake /\ painter'.pc = "wait"
             /\ view'.rows = m'.rows /\ (view'.reserved <=> m'.rows < m'.physicalRows)
          \/ "enter" \in failed' /\ UNCHANGED <<view, painter>>
        BY <1>0, <1>5, EnterType
    <2>3. term'.rows = m'.rows BY <2>1 DEF TypeOK, TermType
    <2>4. /\ isolatedEntry(phys).screen = "alt" /\ isolatedEntry(phys).pre = phys.pre
          /\ (isolatedEntry(phys).modes <=> phys.modes) /\ (isolatedEntry(phys).hidden <=> phys.hidden)
          /\ (isolatedEntry(phys).hint <=> phys.hint)
        BY <1>0 DEF isolatedEntry, PhysType
    <2>5. phys'.pre = "shown" /\ ~phys'.modes /\ ~phys'.hidden /\ ~phys'.hint
        BY <1>3, <2>1, <2>4
    <2>6. ModeInv' BY <1>0, <1>1, <1>5, <2>0, <2>1 DEF ModeInv
    <2>7. ViewInv'
        <3>1. CASE view'.live BY <1>2, <2>1, <2>2, <2>4, <3>1 DEF ViewInv
        <3>2. CASE ~view'.live
            <4>1. "enter" \in failed' /\ UNCHANGED <<view, painter>> BY <2>2, <3>2
            <4>2. failed' # failed /\ main'.pc = "abort" BY <1>2, <2>0, <4>1
            <4> QED BY <1>2, <4>1, <4>2 DEF ViewInv
        <3> QED BY <3>1, <3>2
    <2>8. SizeInv' BY <1>0, <1>2, <2>1, <2>2, <2>3 DEF SizeInv, sessionRows
    <2>9. PaintInv' BY <1>2, <2>2 DEF PaintInv
    <2>10. PreInv' BY <1>2, <1>3, <2>1, <2>5 DEF PreInv
    <2>11. ScreenInv' BY <2>1, <2>5 DEF ScreenInv
    <2>12. NativeInv' BY <2>0, <2>1 DEF NativeInv
    <2> QED BY <2>6, <2>7, <2>8, <2>9, <2>10, <2>11, <2>12 DEF Shows
<1>6. CASE /\ cfg.mode # "isolated"
           /\ m' = [m EXCEPT !.presentation = IF cfg.mode = "native" THEN "native" ELSE @]
           /\ main' = [main EXCEPT !.pc = "size"]
           /\ UNCHANGED <<phys, term, view, painter, failed>>
    <2>1. /\ m'.presentation = IF cfg.mode = "native" THEN "native" ELSE "pending"
          /\ (m'.nativeEntered <=> m.nativeEntered) /\ (m'.hinted <=> m.hinted)
          /\ (m'.hintOnPrimary <=> m.hintOnPrimary)
          /\ m'.rows = m.rows /\ m'.physicalRows = m.physicalRows
        BY <1>0, <1>2, <1>6 DEF ModelType
    <2>2. main'.pc = "size" BY <1>0, <1>6 DEF MainType
    <2>3. ModeInv' BY <1>0, <1>1, <1>6, <2>1, <2>2 DEF ModeInv, TypeOK
    <2>4. ViewInv' BY <1>2, <1>6, <2>1 DEF ViewInv
    <2>5. SizeInv' BY <1>0, <1>2, <1>6, <2>1 DEF Shows, SizeInv, sessionRows
    <2>6. PaintInv' BY <1>2, <1>6 DEF PaintInv
    <2>7. PreInv' BY <1>2, <1>3, <1>6, <2>1 DEF Shows, PreInv
    <2>8. ScreenInv' BY <1>2, <1>6, <2>1 DEF ScreenInv
    <2>9. NativeInv' BY <1>0, <1>1, <1>6 DEF Shows, NativeInv
    <2> QED BY <2>3, <2>4, <2>5, <2>6, <2>7, <2>8, <2>9 DEF Shows
<1> QED BY <1>5, <1>6 DEF Start

\* The goroutines start; finish begins when they have ended.
LEMMA StartedShows == ASSUME TypeOK, TypeOK', LockInv, Shows, Started \/ BeginFinish PROVE Shows'
<1>0. /\ UNCHANGED <<cfg, phys, term, m, painter, frame, sizer, pieces, failed>>
      /\ main.pc \in {"size", "run", "abort"} /\ main'.pc \in {"run", "closing"}
      /\ (main.pc = "abort" => main'.pc = "closing")
      /\ (main'.pc = "closing" => main'.outcome # "none")
    BY DEF Started, BeginFinish, closing, TypeOK, MainType
<1>1. /\ (view'.live <=> view.live) /\ view'.rows = view.rows /\ (view'.reserved <=> view.reserved)
      /\ (view'.wake <=> view.wake)
    BY DEF Started, BeginFinish, TypeOK, ViewType
<1>2. ModeInv' BY <1>0 DEF Shows, ModeInv
<1>3. ViewInv' BY <1>0, <1>1 DEF Shows, ViewInv
<1>4. SizeInv' BY <1>0, <1>1 DEF Shows, SizeInv, Sizing, sessionRows
<1>5. PaintInv' BY <1>0, <1>1 DEF Shows, PaintInv, Stale, Sizing, Dump, Active
<1>6. PreInv' BY <1>0 DEF Shows, PreInv
<1>7. ScreenInv' BY <1>0 DEF Shows, ScreenInv
<1>8. NativeInv' BY <1>0 DEF Shows, NativeInv, WasAlt
<1> QED BY <1>2, <1>3, <1>4, <1>5, <1>6, <1>7, <1>8 DEF Shows
\* The hint goes only from a terminal that was scrolled before it was drawn.
LEMMA HintCleanupFacts ==
    ASSUME TypeOK, PreInv, NEW p \in PhysType, p.pre = phys.pre, p.hint <=> phys.hint,
           frame.pc # "failed" \/ phys.pre # "shown" \/ ~m.hintOnPrimary,
           NEW q, q = nativeHintCleanup(p)
    PROVE  /\ q \in PhysType /\ q.screen = p.screen /\ q.pre = p.pre /\ ~q.hint
           /\ (q.region <=> p.region) /\ (q.modes <=> p.modes) /\ (q.hidden <=> p.hidden)
<1> DEFINE t == DrawMain(p, term.primary)
<1>1. term.primary \in TextType BY DEF TypeOK, TermType, TextType
<1>2. CASE m.hinted /\ m.hintOnPrimary
    <2>1. p.pre # "shown" BY <1>2 DEF PreInv
    <2>2. /\ t \in PhysType /\ t.screen = p.screen /\ t.pre = p.pre
          /\ (t.region <=> p.region) /\ (t.modes <=> p.modes) /\ (t.hidden <=> p.hidden)
        BY <1>1, <2>1 DEF DrawMain, PhysType
    <2>3. q = [t EXCEPT !.hint = FALSE] BY <1>2 DEF nativeHintCleanup
    <2> HIDE DEF t
    <2> QED BY <2>2, <2>3 DEF PhysType
<1>3. CASE ~(m.hinted /\ m.hintOnPrimary)
    <2>1. q = p BY <1>3 DEF nativeHintCleanup
    <2> QED BY <1>3, <2>1 DEF PreInv
<1> QED BY <1>2, <1>3

\* The writes of finish of the isolated presentation, one after the other.
LEMMA IsolatedParts ==
    ASSUME TypeOK, PreInv, NEW p \in PhysType, p.pre = phys.pre, p.hint <=> phys.hint, NEW o
    PROVE  /\ LeaveAlt(p).pre = p.pre /\ hintErased(p).pre = p.pre
           /\ LET b == altLeft(p)
              IN /\ b \in PhysType /\ b.screen = "primary" /\ b.pre = p.pre /\ ~b.hint
                 /\ (b.region <=> p.region) /\ (b.modes <=> p.modes) /\ (b.hidden <=> p.hidden)
           /\ LET a == scrolled(p)
              IN /\ a \in PhysType /\ a.screen = "primary" /\ a.pre \notin {"shown", "lost"} /\ ~a.hint
                 /\ a.pre = "cut" => p.pre = "cut" \/ ~(m.physicalRows >= window.rows)
                 /\ ~a.region /\ (a.modes <=> p.modes)
           /\ LET g == givenBack(p, o)
              IN /\ g.screen = "primary" /\ g.pre = p.pre /\ ~g.hint /\ (~p.modes => ~g.modes)
                 /\ o = "detached" /\ m.nativeEntered => ~g.region /\ ~g.hidden
                 /\ o = "detached" /\ ~m.nativeEntered =>
                       /\ g.hidden <=> p.hidden
                       /\ (p.region => m.rows < m.physicalRows) => ~g.region
<1> DEFINE l == LeaveAlt(p)
           c == hintErased(p)
           b == altLeft(p)
           away == ScrollAway(b, m.physicalRows)
           a == scrolled(p)
           g == givenBack(p, o)
<1>1. /\ l \in PhysType /\ l.pre = p.pre /\ (l.hint <=> p.hint)
      /\ (l.region <=> p.region) /\ (l.modes <=> p.modes) /\ (l.hidden <=> p.hidden)
    BY DEF LeaveAlt, PhysType
<1>2. c = IF m.hinted /\ m.hintOnPrimary THEN nativeHintCleanup(l) ELSE p BY DEF hintErased
<1> HIDE DEF l
<1>3. /\ c \in PhysType /\ c.pre = p.pre /\ ~c.hint
      /\ (c.region <=> p.region) /\ (c.modes <=> p.modes) /\ (c.hidden <=> p.hidden)
    <2> HIDE DEF c
    <2>1. CASE m.hinted /\ m.hintOnPrimary
        <3>1. c = nativeHintCleanup(l) BY <1>2, <2>1
        <3>2. phys.pre # "shown" BY <2>1 DEF PreInv
        <3> QED BY <1>1, <3>1, <3>2, HintCleanupFacts
    <2>2. CASE ~(m.hinted /\ m.hintOnPrimary)
        <3>1. c = p BY <1>2, <2>2
        <3>2. ~p.hint BY <2>2 DEF PreInv
        <3> QED BY <3>1, <3>2
    <2> QED BY <2>1, <2>2
<1>4. b = LeaveAlt(c) BY DEF altLeft
<1> HIDE DEF c
<1>5. /\ b \in PhysType /\ b.screen = "primary" /\ b.pre = p.pre /\ ~b.hint
      /\ (b.region <=> p.region) /\ (b.modes <=> p.modes) /\ (b.hidden <=> p.hidden)
    BY <1>3, <1>4 DEF LeaveAlt, PhysType
<1>6. p.pre # "lost" BY DEF PreInv
<1>7. a = [away EXCEPT !.region = FALSE] BY DEF scrolled
<1>8. g = IF o # "detached" THEN b
          ELSE IF m.nativeEntered THEN nativeCleanup(b)
          ELSE IF m.rows < m.physicalRows THEN [b EXCEPT !.region = FALSE] ELSE b
    BY DEF givenBack
<1> HIDE DEF b, a, g
<1>9. /\ away \in PhysType /\ away.screen = "primary" /\ away.pre \notin {"shown", "lost"} /\ ~away.hint
      /\ away.pre = "cut" => p.pre = "cut" \/ ~(m.physicalRows >= window.rows)
      /\ (away.modes <=> p.modes)
    BY <1>5, <1>6 DEF ScrollAway, PhysType
<1> HIDE DEF away
<1>10. /\ a \in PhysType /\ a.screen = "primary" /\ a.pre \notin {"shown", "lost"} /\ ~a.hint
       /\ a.pre = "cut" => p.pre = "cut" \/ ~(m.physicalRows >= window.rows)
       /\ ~a.region /\ (a.modes <=> p.modes)
    BY <1>7, <1>9 DEF PhysType
<1>11. CASE o = "detached" /\ m.nativeEntered
    <2>1. g = nativeCleanup(b) BY <1>8, <1>11
    <2>2. g.screen = "primary" /\ ~g.hint /\ g.pre = p.pre /\ ~g.modes /\ ~g.region /\ ~g.hidden
        BY <1>5, <2>1 DEF nativeCleanup, nativeModeReset, PhysType
    <2> QED BY <1>1, <1>3, <1>5, <1>10, <1>11, <2>2 DEF l, c, b, a, g
<1>12. CASE o = "detached" /\ ~m.nativeEntered
    <2>1. g = IF m.rows < m.physicalRows THEN [b EXCEPT !.region = FALSE] ELSE b BY <1>8, <1>12
    <2>2. /\ g.screen = "primary" /\ ~g.hint /\ g.pre = p.pre /\ (g.modes <=> p.modes)
          /\ (g.hidden <=> p.hidden) /\ (m.rows < m.physicalRows => ~g.region)
          /\ g.region => p.region
        BY <1>5, <2>1 DEF PhysType
    <2> QED BY <1>1, <1>3, <1>5, <1>10, <1>12, <2>2 DEF l, c, b, a, g
<1>13. CASE o # "detached"
    <2>1. g = b BY <1>8, <1>13
    <2> QED BY <1>1, <1>3, <1>5, <1>10, <1>13, <2>1 DEF l, c, b, a, g
<1> QED BY <1>11, <1>12, <1>13

\* The last screen is drawn over nothing but the screen that was scrolled away.
LEMMA LastScreenFacts ==
    ASSUME TypeOK, PreInv, NEW p \in PhysType, p.pre = phys.pre, p.hint <=> phys.hint,
           NEW q \in LastScreens(p)
    PROVE  /\ q.screen = "primary" /\ ~q.hint /\ q.pre # "lost"
           /\ q.pre = "cut" => p.pre = "cut" \/ ~(m.physicalRows >= window.rows)
           /\ ~q.region /\ (q.modes <=> p.modes)
           /\ q = lastScreen(p, Active(term), FALSE) => ~q.hidden
<1> DEFINE a == scrolled(p)
<1>1. /\ a \in PhysType /\ a.screen = "primary" /\ a.pre \notin {"shown", "lost"} /\ ~a.hint
      /\ a.pre = "cut" => p.pre = "cut" \/ ~(m.physicalRows >= window.rows)
      /\ ~a.region /\ (a.modes <=> p.modes)
    BY IsolatedParts
<1>2. Active(term) \in TextType /\ 0 \in TextType BY DEF TypeOK, TermType, TextType, Active
<1>3. ASSUME NEW text \in TextType, NEW hidden \in BOOLEAN, NEW x, x = lastScreen(p, text, hidden)
      PROVE  /\ x.screen = "primary" /\ ~x.hint /\ x.pre = a.pre
             /\ ~x.region /\ (x.modes <=> p.modes) /\ (x.hidden <=> hidden)
    <2> DEFINE d == DrawMain(a, text)
    <2>1. x = [d EXCEPT !.hidden = hidden] BY <1>3 DEF lastScreen
    <2> HIDE DEF a
    <2>2. /\ d \in PhysType /\ d.screen = "primary" /\ ~d.hint /\ d.pre = a.pre
          /\ ~d.region /\ (d.modes <=> p.modes)
        BY <1>1, <1>3 DEF DrawMain, PhysType
    <2> HIDE DEF d
    <2> QED BY <2>1, <2>2 DEF PhysType
<1> HIDE DEF a
<1>4. p.hidden \in BOOLEAN BY DEF PhysType
<1>5. PICK text \in {Active(term), 0}, hidden \in {FALSE, p.hidden} : q = lastScreen(p, text, hidden)
    BY DEF LastScreens
<1>6. /\ q.screen = "primary" /\ ~q.hint /\ q.pre = a.pre /\ ~q.region /\ (q.modes <=> p.modes)
    BY <1>2, <1>3, <1>4, <1>5
<1>7. q = lastScreen(p, Active(term), FALSE) => ~q.hidden BY <1>2, <1>3
<1> QED BY <1>1, <1>6, <1>7

\* finish of the isolated presentation, per outcome and failures.
LEMMA FinishIsolatedFacts ==
    ASSUME TypeOK, PreInv, NEW p \in PhysType, p.pre = phys.pre, p.hint <=> phys.hint,
           NEW o, NEW lost, NEW q \in finishIsolated(p, o, lost)
    PROVE  /\ q.pre # "lost"
           /\ o \notin Over => q.pre = p.pre
           /\ q.pre = "cut" => p.pre = "cut" \/ (o \in Over /\ ~(m.physicalRows >= window.rows))
           /\ "leave" \notin lost => q.screen = "primary"
           /\ lost = {} =>
                /\ ~q.hint /\ (~p.modes => ~q.modes)
                /\ o \in Over => ~q.region /\ ~q.hidden
                /\ o = "detached" /\ m.nativeEntered => ~q.region /\ ~q.hidden
                /\ o = "detached" /\ ~m.nativeEntered =>
                      /\ q.hidden <=> p.hidden
                      /\ (p.region => m.rows < m.physicalRows) => ~q.region
<1>0. p.pre # "lost" /\ "detached" \notin Over BY DEF PreInv, Over
<1>1. CASE "leave" \in lost
    <2>1. q \in {p, LeaveAlt(p), hintErased(p), altLeft(p), givenBack(p, o)} \/ (o \in Over /\ q = scrolled(p))
        BY <1>1, IsolatedWrites
    <2>2. CASE q \in {p, LeaveAlt(p), hintErased(p), altLeft(p), givenBack(p, o)}
        <3>1. q.pre = p.pre BY <2>2, IsolatedParts
        <3> QED BY <1>0, <1>1, <3>1
    <2>3. CASE o \in Over /\ q = scrolled(p)
        <3>1. q.pre # "lost" /\ (q.pre = "cut" => p.pre = "cut" \/ ~(m.physicalRows >= window.rows))
            BY <2>3, IsolatedParts
        <3> QED BY <1>1, <2>3, <3>1
    <2> QED BY <2>1, <2>2, <2>3
<1>2. CASE "leave" \notin lost /\ o \notin Over
    <2>1. q = givenBack(p, o) \/ (lost # {} /\ q = altLeft(p)) BY <1>2, IsolatedWrites
    <2>2. CASE q = givenBack(p, o)
        <3>1. /\ q.screen = "primary" /\ q.pre = p.pre /\ ~q.hint /\ (~p.modes => ~q.modes)
              /\ o = "detached" /\ m.nativeEntered => ~q.region /\ ~q.hidden
              /\ o = "detached" /\ ~m.nativeEntered =>
                    /\ q.hidden <=> p.hidden
                    /\ (p.region => m.rows < m.physicalRows) => ~q.region
            BY <2>2, IsolatedParts
        <3> QED BY <1>0, <1>2, <3>1
    <2>3. CASE lost # {} /\ q = altLeft(p)
        <3>1. q.screen = "primary" /\ q.pre = p.pre BY <2>3, IsolatedParts
        <3> QED BY <1>0, <1>2, <2>3, <3>1
    <2> QED BY <2>1, <2>2, <2>3
<1>3. CASE "leave" \notin lost /\ o \in Over
    <2>1. q \in LastScreens(p) /\ (lost = {} => q = lastScreen(p, Active(term), FALSE))
        BY <1>3, IsolatedWrites
    <2>2. /\ q.screen = "primary" /\ ~q.hint /\ q.pre # "lost"
          /\ q.pre = "cut" => p.pre = "cut" \/ ~(m.physicalRows >= window.rows)
          /\ ~q.region /\ (q.modes <=> p.modes)
          /\ q = lastScreen(p, Active(term), FALSE) => ~q.hidden
        BY <2>1, LastScreenFacts
    <2> QED BY <1>0, <1>3, <2>1, <2>2
<1> QED BY <1>1, <1>2, <1>3

\* finish of the native presentation.
LEMMA FinishNativeFacts ==
    ASSUME TypeOK, PreInv, m.nativeEntered, NEW p \in PhysType, p.pre = phys.pre, p.hint <=> phys.hint,
           NEW lost, NEW q \in finishNative(p, lost)
    PROVE  /\ q.pre = p.pre
           /\ "leave" \notin lost /\ (p.screen = "primary" \/ term.alt) => q.screen = "primary"
           /\ lost = {} => ~q.hint /\ ~q.modes /\ ~q.hidden /\ ~q.region
<1> DEFINE left == nativeLeft(p)
           c == nativeCleanup(left)
           h == nativeHintCleanup(c)
           f == nativeFinal(p)
<1>1. /\ left \in PhysType /\ left.pre = p.pre /\ (left.hint <=> p.hint)
      /\ p.screen = "primary" \/ term.alt => left.screen = "primary"
    BY DEF nativeLeft, LeaveAlt, PhysType
<1>2. f = [h EXCEPT !.title = FALSE] BY DEF nativeFinal
<1>3. q = p \/ q = left \/ q = f BY NativeWrites
<1>4. "leave" \notin lost => q = left \/ q = f BY NativeWrites
<1>5. lost = {} => q = f BY NativeWrites
<1> HIDE DEF left, f
<1>6. /\ c \in PhysType /\ c.pre = p.pre /\ (c.hint <=> p.hint) /\ c.screen = left.screen
      /\ ~c.modes /\ ~c.hidden /\ ~c.region
    BY <1>1 DEF nativeCleanup, nativeModeReset, PhysType
<1>7. frame.pc # "failed" \/ phys.pre # "shown" \/ ~m.hintOnPrimary BY DEF PreInv
<1>8. h = nativeHintCleanup(c) OBVIOUS
<1> HIDE DEF c, h
<1>9. /\ h \in PhysType /\ h.pre = p.pre /\ ~h.hint /\ h.screen = left.screen
      /\ ~h.modes /\ ~h.hidden /\ ~h.region
    BY <1>6, <1>7, <1>8, HintCleanupFacts
<1>10. /\ f.pre = p.pre /\ ~f.hint /\ f.screen = left.screen /\ ~f.modes /\ ~f.hidden /\ ~f.region
    BY <1>2, <1>9 DEF PhysType
<1> QED BY <1>1, <1>3, <1>4, <1>5, <1>10

\* finish gives the terminal back.
LEMMA FinishGives == ASSUME TypeOK, TypeOK', LockInv, Shows, Finish PROVE DoneInv'
<1>0. /\ main.pc = "closing" /\ main'.pc = "done" /\ main'.outcome = main.outcome /\ ViewClosed
      /\ painter'.pc = "none" /\ UNCHANGED m
    BY DEF Finish, TypeOK, MainType, NoPainter
<1>1. ~Sizing BY <1>0 DEF LockInv, Sizing, Goroutines
<1>2. PICK lost \in SUBSET FinishWrites :
        /\ failed' = failed \cup lost
        /\ phys' \in LET x == IF "paint" \in lost THEN phys ELSE Flushed(phys)
                     IN CASE m.presentation = "isolated" -> finishIsolated(x, main.outcome, lost)
                          [] m.presentation = "native" -> finishNative(x, lost)
                          [] OTHER -> {x}
    BY DEF Finish
<1> DEFINE p == IF "paint" \in lost THEN phys ELSE Flushed(phys)
<1>3. /\ p \in PhysType /\ p.screen = phys.screen /\ p.pre = phys.pre
      /\ (p.modes <=> phys.modes) /\ (p.hidden <=> phys.hidden) /\ (p.hint <=> phys.hint)
      /\ view.wake /\ lost = {} => (p.region <=> view.reserved)
      /\ ~view.wake => p = phys
    BY FlushedFacts DEF Shows, TypeOK
<1> HIDE DEF p
<1>4. PreInv /\ (~view.live => p = phys) BY <1>3 DEF Shows, ViewInv
<1>5. ~m.nativeEntered => phys.pre = "shown" /\ ~phys.hidden /\ ~phys.modes /\ ~phys.hint
    BY <1>4 DEF PreInv
<1>6. frame.pc \notin Busy BY <1>0 DEF LockInv
<1>7. failed' = {} => failed = {} /\ lost = {} BY <1>2
<1>8. "leave" \notin failed' => "leave" \notin failed /\ "leave" \notin lost BY <1>2
<1>9. phys.pre # "lost" BY <1>4 DEF PreInv
<1>10. /\ "leave" \notin failed' => phys'.screen = "primary"
       /\ main.outcome # "aborted" /\ failed' = {} =>
             ~phys'.region /\ ~phys'.hidden /\ ~phys'.modes /\ ~phys'.hint
       /\ phys'.pre # "lost"
       /\ main.outcome \in {"detached", "aborted"} /\ ~m.nativeEntered => phys'.pre = "shown"
    <2>1. CASE m.presentation = "isolated"
        <3>1. phys' \in finishIsolated(p, main.outcome, lost) BY <1>2, <2>1 DEF p
        <3>2. /\ phys'.pre # "lost"
              /\ main.outcome \notin Over => phys'.pre = p.pre
              /\ "leave" \notin lost => phys'.screen = "primary"
              /\ lost = {} =>
                   /\ ~phys'.hint /\ (~p.modes => ~phys'.modes)
                   /\ main.outcome \in Over => ~phys'.region /\ ~phys'.hidden
                   /\ main.outcome = "detached" /\ m.nativeEntered => ~phys'.region /\ ~phys'.hidden
                   /\ main.outcome = "detached" /\ ~m.nativeEntered =>
                         /\ phys'.hidden <=> p.hidden
                         /\ (p.region => m.rows < m.physicalRows) => ~phys'.region
            BY <1>3, <1>4, <3>1, FinishIsolatedFacts
        <3>3. ~p.modes BY <1>3, <2>1 DEF Shows, ScreenInv
        <3>4. failed = {} /\ lost = {} =>
                (p.region <=> view.reserved) /\ (view.reserved <=> m.rows < m.physicalRows)
            <4> SUFFICES ASSUME failed = {}, lost = {}
                         PROVE  (p.region <=> view.reserved) /\ (view.reserved <=> m.rows < m.physicalRows)
                OBVIOUS
            <4>1. view.live /\ painter.pc = "stopped" BY <1>0, <2>1 DEF Shows, ViewInv, ViewClosed
            <4>2. view.reserved <=> m.rows < m.physicalRows BY <1>1, <4>1 DEF Shows, SizeInv
            <4>3. ~view.wake => (phys.region <=> view.reserved) BY <4>1 DEF Shows, PaintInv
            <4> QED BY <1>3, <4>2, <4>3
        <3>5. main.outcome # "none" BY <1>0 DEF Shows, ModeInv
        <3>6. main.outcome \in {"detached", "aborted"} \cup Over
            BY <3>5 DEF TypeOK, MainType, Over
        <3>7. "detached" \notin Over /\ "aborted" \notin Over BY DEF Over
        <3> QED BY <1>3, <1>5, <1>7, <1>8, <3>2, <3>3, <3>4, <3>6, <3>7
    <2>2. CASE m.presentation = "native"
        <3>1. phys' \in finishNative(p, lost) /\ p = phys BY <1>2, <1>4, <2>2 DEF Shows, ViewInv, p
        <3>2. CASE ~m.nativeEntered
            <4>1. phys' = phys BY <3>1, <3>2, NativeWrites
            <4>2. "leave" \notin failed => phys.screen = "primary"
                BY <1>6, <2>2, <3>2 DEF Shows, ScreenInv, Busy, TypeOK, PhysType
            <4>3. failed = {} => ~phys.region BY <2>2, <3>2 DEF Shows, PreInv
            <4> QED BY <1>5, <1>7, <1>8, <1>9, <3>2, <4>1, <4>2, <4>3
        <3>3. CASE m.nativeEntered
            <4>1. /\ "leave" \notin lost /\ (p.screen = "primary" \/ term.alt) => phys'.screen = "primary"
                  /\ phys'.pre = p.pre
                  /\ lost = {} => ~phys'.hint /\ ~phys'.modes /\ ~phys'.hidden /\ ~phys'.region
                BY <1>3, <1>4, <3>1, <3>3, FinishNativeFacts
            <4>2. "leave" \notin failed => phys.screen = "primary" \/ term.alt
                BY <1>6, <2>2 DEF Shows, ScreenInv, Busy, TypeOK, PhysType
            <4> QED BY <1>3, <1>7, <1>8, <1>9, <3>3, <4>1, <4>2
        <3> QED BY <3>2, <3>3
    <2>3. CASE m.presentation \notin {"isolated", "native"}
        <3>1. m.presentation = "pending" BY <2>3 DEF TypeOK, ModelType
        <3>2. phys' = phys BY <1>2, <1>4, <2>3 DEF Shows, ViewInv, p
        <3>3. phys.screen = "primary" /\ ~m.nativeEntered /\ (failed = {} => ~phys.region)
            BY <3>1 DEF Shows, ScreenInv, PreInv
        <3> QED BY <1>5, <1>7, <3>2, <3>3
    <2> QED BY <2>1, <2>2, <2>3
<1> QED BY <1>0, <1>10 DEF DoneInv, TerminalLeftUsable

\* Nothing happens after it.
LEMMA DoneStays == ASSUME TypeOK, LockInv, DoneInv, main.pc = "done", [Next]_vars PROVE UNCHANGED vars
<1>1. /\ \A g \in Goroutines : sizer[g].pc = "idle"
      /\ frame.pc \notin Busy
    BY DEF LockInv, Goroutines
<1>2. painter.pc = "none" BY DEF DoneInv
<1>3. ~SizeStep BY <1>1 DEF SizeStep, WindowChanges, ResizeEvent, SizeRequested, ReadSize, SendSize
<1>4. ~PainterStep
    BY <1>2 DEF PainterStep, PainterWakes, PainterReadsSize, PainterDumps, PainterWrites, PainterPauses
<1>5. ~FrameStep
    BY <1>1 DEF FrameStep, ReceiveOutput, Synchronize, WriteTerm, presentRaw, FollowStays, Busy,
                FollowToIsolated, FollowToNative, leaveIsolated, presentFromModel
<1>6. \A g \in Goroutines : ~applyResize(g) /\ ~SetViewSize(g)
    BY <1>1 DEF applyResize, SetViewSize
<1>7. ~Start /\ ~Started /\ ~BeginFinish /\ ~Finish BY DEF Start, Started, BeginFinish, Finish
<1> QED BY <1>3, <1>4, <1>5, <1>6, <1>7, Steps
-----------------------------------------------------------------------------
(* The whole of the earlier screen *)

\* The first sendSize has been applied, and not only started.
Sized ==
    \/ main.pc = "run"
    \/ main.pc = "size" /\ sizer["main"].pc \notin {"read", "apply"}
    \/ main.pc = "closing" /\ main.outcome # "aborted"

\* While the window has only shrunk, the height the model has for it is not too
\* small: newlines of that height scroll everything away.
CutInv ==
    /\ phys.pre = "cut" => window.grew
    /\ ~window.grew =>
         /\ \A g \in Goroutines : sizer[g].pc = "apply" => sizer[g].rows >= window.rows
         /\ Sized => m.physicalRows >= window.rows

\* What is drawn, forwarded and switched leaves no more of the earlier screen.
LEMMA CutOps ==
    ASSUME TypeOK, NEW p \in PhysType, p.pre # "cut"
    PROVE  /\ LeaveAlt(p).pre # "cut" /\ isolatedEntry(p).pre # "cut"
           /\ nativeModeReset(p).pre # "cut"
           /\ \A text : DrawMain(p, text).pre # "cut"
           /\ \A piece, old, new : Forward(p, piece, old, new).pre # "cut"
           /\ ForwardSwitch(p).pre # "cut" /\ showNativeHintOnce(p).pre # "cut"
           /\ nativeRepaint(p).pre # "cut"
<1>1. LeaveAlt(p).pre # "cut" BY DEF LeaveAlt, PhysType
<1>2. isolatedEntry(p).pre # "cut" BY DEF isolatedEntry, PhysType
<1>3. nativeModeReset(p).pre # "cut" BY DEF nativeModeReset, PhysType
<1>4. \A text : DrawMain(p, text).pre # "cut" BY DEF DrawMain, PhysType
<1>5. \A piece, old, new : Forward(p, piece, old, new).pre # "cut"
    <2> TAKE piece, old, new
    <2>1. CASE piece = "text" /\ p.screen # "alt" BY <1>4, <2>1 DEF Forward
    <2>2. CASE piece = "text" /\ p.screen = "alt" BY <2>2 DEF Forward, PhysType
    <2>3. CASE piece # "text" BY <2>3 DEF Forward, PhysType
    <2> QED BY <2>1, <2>2, <2>3
<1>6. ForwardSwitch(p).pre # "cut" BY DEF ForwardSwitch, PhysType
<1>7. showNativeHintOnce(p).pre # "cut" BY DEF showNativeHintOnce, PhysType
<1>8. nativeRepaint(p).pre # "cut"
    <2> DEFINE d == DrawMain(p, term.primary)
    <2>1. term.primary \in TextType BY DEF TypeOK, TermType, TextType
    <2>2. d \in PhysType /\ d.pre # "cut" BY <1>4, <2>1, PhysOps
    <2>3. nativeRepaint(p).pre = d.pre
        <3> HIDE DEF d
        <3> SUFFICES [d EXCEPT
                        !.hint = FALSE, !.modes = term.modes, !.hidden = term.hidden,
                        !.screen = IF cfg.mode = "native" /\ term.alt THEN "alt"
                                   ELSE IF cfg.mode = "native" THEN "primary" ELSE @,
                        !.alt = IF cfg.mode = "native" /\ term.alt
                                THEN [Blank EXCEPT !.text = term.altText] ELSE @].pre = d.pre
            BY DEF nativeRepaint, d
        <3> QED BY <2>2 DEF PhysType
    <2> QED BY <2>2, <2>3
<1> QED BY <1>1, <1>2, <1>3, <1>4, <1>5, <1>6, <1>7, <1>8

\* Only newlines that are too few leave a part.
LEMMA EnterNativeCut ==
    ASSUME TypeOK, NEW p \in PhysType, p.pre # "cut", m.physicalRows >= window.rows
    PROVE  enterNative(p).pre # "cut"
<1> DEFINE s == ScrollAway(p, m.physicalRows)
<1>1. s \in PhysType /\ s.pre # "cut" BY DEF ScrollAway, PhysType
<1> HIDE DEF s
<1>2. enterNative(p) = IF m.nativeEntered THEN p ELSE [s EXCEPT !.title = cfg.instructions]
    BY DEF enterNative, s
<1> QED BY <1>1, <1>2 DEF PhysType

\* A failed native write shows one of the pictures on the way.
LEMMA FailCut ==
    ASSUME TypeOK, NEW p \in PhysType, NEW mm \in ModelType, mm.physicalRows = m.physicalRows,
           NativeFails(p, mm), phys.pre # "cut", p.pre # "cut"
    PROVE  phys'.pre # "cut" /\ m'.physicalRows = m.physicalRows
<1>1. showNativeHintOnce(p).pre # "cut" BY CutOps
<1>2. [m EXCEPT !.nativeEntered = TRUE].physicalRows = m.physicalRows BY DEF TypeOK, ModelType
<1> QED BY <1>1, <1>2 DEF NativeFails

\* The same for the model alone.
LEMMA FailSize ==
    ASSUME TypeOK, NEW p, NEW mm, mm.physicalRows = m.physicalRows, NativeFails(p, mm)
    PROVE  m'.physicalRows = m.physicalRows
<1>1. [m EXCEPT !.nativeEntered = TRUE].physicalRows = m.physicalRows BY DEF TypeOK, ModelType
<1> QED BY <1>1 DEF NativeFails

\* The frame reader does not change the height the model has.
LEMMA FrameSize ==
    ASSUME TypeOK, FrameStep
    PROVE  m'.physicalRows = m.physicalRows /\ window' = window /\ main' = main
<1>0. m \in ModelType /\ phys \in PhysType BY DEF TypeOK
<1>1. window' = window /\ main' = main
    BY DEF FrameStep, ReceiveOutput, Synchronize, WriteTerm, presentRaw, FollowStays,
           FollowToIsolated, FollowToNative, leaveIsolated, presentFromModel, aside
<1>2. CASE presentRaw
    <2>1. Hinted(m).physicalRows = m.physicalRows BY <1>0, HintedType
    <2>2. \/ UNCHANGED m \/ m' = Hinted(m) \/ \E p : NativeFails(p, Hinted(m)) BY <1>2 DEF presentRaw
    <2> QED BY <1>1, <2>1, <2>2, FailSize
<1>3. CASE presentFromModel
    <2> DEFINE u == [m EXCEPT !.hintOnPrimary = FALSE]
    <2>1. u \in ModelType /\ u.physicalRows = m.physicalRows BY <1>0 DEF ModelType
    <2> HIDE DEF u
    <2>2. Hinted(u).physicalRows = m.physicalRows BY <2>1, HintedType
    <2>3. UNCHANGED m \/ m' = Hinted(u) \/ \E p : NativeFails(p, Hinted(u))
        BY <1>3 DEF presentFromModel, u
    <2> QED BY <1>1, <2>2, <2>3, FailSize
<1>4. CASE leaveIsolated BY <1>1, <1>4, Leaves
<1>5. CASE FollowToIsolated
    <2> DEFINE p == IF m.nativeEntered THEN nativeModeReset(phys) ELSE phys
    <2>1. 0 \in TextType BY DEF TextType
    <2>2. p \in PhysType BY <1>0, <2>1, PhysOps
    <2>3. enterIsolated(p) \/ UNCHANGED m BY <1>5 DEF FollowToIsolated
    <2> HIDE DEF p
    <2> QED BY <1>1, <2>2, <2>3, EnterType
<1>6. CASE ReceiveOutput \/ Synchronize \/ WriteTerm \/ FollowStays \/ FollowToNative
    BY <1>1, <1>6 DEF ReceiveOutput, Synchronize, WriteTerm, FollowStays, FollowToNative
<1> QED BY <1>2, <1>3, <1>4, <1>5, <1>6 DEF FrameStep

\* Nor does it cut the earlier screen when that height is enough.
LEMMA FrameCut ==
    ASSUME TypeOK, ViewInv, FrameStep, phys.pre # "cut", m.physicalRows >= window.rows
    PROVE  phys'.pre # "cut"
<1>0. m \in ModelType /\ phys \in PhysType BY DEF TypeOK
<1>1. enterNative(phys) \in PhysType /\ enterNative(phys).pre # "cut"
    BY <1>0, NativeType, EnterNativeCut
<1>2. CASE presentRaw
    <2> DEFINE shown == Forward(enterNative(phys), frame.piece, frame.old, pieces)
               all == IF frame.switched /\ cfg.mode = "native" THEN ForwardSwitch(shown) ELSE shown
    <2>1. frame.old \in Nat /\ pieces \in Nat BY DEF TypeOK, FrameType
    <2>2. shown \in PhysType /\ shown.pre # "cut" BY <1>1, <2>1, ForwardType, CutOps
    <2>3. Hinted(m) \in ModelType /\ Hinted(m).physicalRows = m.physicalRows BY <1>0, HintedType
    <2>4. UNCHANGED phys \/ phys' = showNativeHintOnce(all) \/ NativeFails(all, Hinted(m))
        BY <1>2 DEF presentRaw
    <2> HIDE DEF shown
    <2>5. all \in PhysType /\ all.pre # "cut" BY <2>2, NativeType, CutOps
    <2> HIDE DEF all
    <2>6. showNativeHintOnce(all).pre # "cut" BY <2>5, CutOps
    <2> QED BY <2>3, <2>4, <2>5, <2>6, FailCut
<1>3. CASE presentFromModel
    <2> DEFINE u == [m EXCEPT !.hintOnPrimary = FALSE]
               r == nativeRepaint(enterNative(phys))
    <2>1. u \in ModelType /\ u.physicalRows = m.physicalRows BY <1>0 DEF ModelType
    <2>2. UNCHANGED phys \/ phys' = showNativeHintOnce(r) \/ NativeFails(r, Hinted(u))
        BY <1>3 DEF presentFromModel
    <2>3. r \in PhysType /\ r.pre # "cut" BY <1>1, NativeType, CutOps
    <2> HIDE DEF u, r
    <2>4. Hinted(u) \in ModelType /\ Hinted(u).physicalRows = m.physicalRows BY <2>1, HintedType
    <2>5. showNativeHintOnce(r).pre # "cut" BY <2>3, CutOps
    <2> QED BY <2>2, <2>3, <2>4, <2>5, FailCut
<1>4. CASE leaveIsolated
    <2>1. PICK p \in {phys, Flushed(phys)} :
             p \in PhysType /\ phys' \in {p, [LeaveAlt(p) EXCEPT !.region = FALSE]}
        BY <1>4, Leaves
    <2>2. p.pre # "cut" BY <2>1, FlushedFacts
    <2>3. LeaveAlt(p) \in PhysType /\ LeaveAlt(p).pre # "cut" BY <2>1, <2>2, CutOps DEF LeaveAlt, PhysType
    <2>4. [LeaveAlt(p) EXCEPT !.region = FALSE].pre = LeaveAlt(p).pre BY <2>3 DEF PhysType
    <2> QED BY <2>1, <2>2, <2>3, <2>4
<1>5. CASE FollowToIsolated
    <2> DEFINE p == IF m.nativeEntered THEN nativeModeReset(phys) ELSE phys
    <2>1. 0 \in TextType BY DEF TextType
    <2>2. nativeModeReset(phys) \in PhysType /\ nativeModeReset(phys).pre # "cut"
        BY <1>0, <2>1, PhysOps, CutOps
    <2>3. p \in PhysType /\ p.pre # "cut" BY <1>0, <2>2
    <2>4. enterIsolated(p) \/ phys' \in {phys, nativeModeReset(phys)} BY <1>5 DEF FollowToIsolated
    <2> HIDE DEF p
    <2>5. isolatedEntry(p).pre # "cut" BY <2>3, CutOps
    <2>6. enterIsolated(p) => phys' \in {p, isolatedEntry(p)} BY <2>3, EnterType
    <2> QED BY <2>2, <2>3, <2>4, <2>5, <2>6
<1>6. CASE ReceiveOutput \/ Synchronize \/ WriteTerm \/ FollowStays \/ FollowToNative
    BY <1>6 DEF ReceiveOutput, Synchronize, WriteTerm, FollowStays, FollowToNative
<1> QED BY <1>2, <1>3, <1>4, <1>5, <1>6 DEF FrameStep

\* Neither does finish: an attachment it gives a last screen for has been sized.
LEMMA FinishCut ==
    ASSUME TypeOK, Shows, Finish, phys.pre # "cut", Sized => m.physicalRows >= window.rows
    PROVE  phys'.pre # "cut"
<1>1. PICK lost \in SUBSET FinishWrites :
         phys' \in CASE m.presentation = "isolated" ->
                          finishIsolated(IF "paint" \in lost THEN phys ELSE Flushed(phys), main.outcome, lost)
                     [] m.presentation = "native" ->
                          finishNative(IF "paint" \in lost THEN phys ELSE Flushed(phys), lost)
                     [] OTHER -> {IF "paint" \in lost THEN phys ELSE Flushed(phys)}
    BY DEF Finish
<1> DEFINE p == IF "paint" \in lost THEN phys ELSE Flushed(phys)
<1>2. p \in PhysType /\ p.pre = phys.pre /\ (p.hint <=> phys.hint)
    BY FlushedFacts DEF Shows, TypeOK
<1>3. phys' \in CASE m.presentation = "isolated" -> finishIsolated(p, main.outcome, lost)
                  [] m.presentation = "native" -> finishNative(p, lost)
                  [] OTHER -> {p}
    BY <1>1
<1> HIDE DEF p
<1>4. PreInv BY DEF Shows
<1>5. CASE m.presentation = "isolated"
    <2>1. phys' \in finishIsolated(p, main.outcome, lost) BY <1>3, <1>5
    <2>2. phys'.pre = "cut" => main.outcome \in Over /\ ~(m.physicalRows >= window.rows)
        BY <1>2, <1>4, <2>1, FinishIsolatedFacts
    <2>3. main.pc = "closing" BY DEF Finish
    <2>4. main.outcome \in Over => Sized BY <2>3 DEF Sized, Over
    <2> QED BY <2>2, <2>4
<1>6. CASE m.presentation = "native"
    <2>1. phys' \in finishNative(p, lost) BY <1>3, <1>6
    <2>2. CASE ~m.nativeEntered BY <1>2, <2>1, <2>2, NativeWrites
    <2>3. CASE m.nativeEntered
        <3>1. phys'.pre = p.pre BY <1>2, <1>4, <2>1, <2>3, FinishNativeFacts
        <3> QED BY <1>2, <3>1
    <2> QED BY <2>2, <2>3
<1>7. CASE m.presentation \notin {"isolated", "native"} BY <1>2, <1>3, <1>7
<1> QED BY <1>5, <1>6, <1>7

LEMMA CutInit == ASSUME Init PROVE CutInv
<1>1. /\ phys.pre = "shown" /\ main.pc = "start" /\ \A g \in Goroutines : sizer[g].pc = "idle"
    BY DEF Init
<1> QED BY <1>1 DEF CutInv, Sized

\* A window that has not grown is no higher than when its height was read.
LEMMA CutStep == ASSUME ShowInv, CutInv, [Next]_vars PROVE CutInv'
<1>0. TypeOK /\ LockInv BY DEF ShowInv
<1>1. /\ window.rows \in Nat /\ m.physicalRows \in Nat /\ window.grew \in BOOLEAN
      /\ window \in [rows : Nat, signal : BOOLEAN, grew : BOOLEAN]
      /\ sizer \in [Goroutines -> SizerType] /\ \A g \in Goroutines : sizer[g].rows \in Nat
      /\ main \in MainType
    BY <1>0 DEF TypeOK, ModelType, SizerType
<1>2. CASE main.pc = "done"
    <2>1. UNCHANGED vars BY <1>0, <1>2, DoneStays DEF ShowInv
    <2> QED BY <2>1 DEF vars, CutInv, Sized
<1> SUFFICES ASSUME main.pc # "done" PROVE CutInv' BY <1>2
<1>3. Shows BY DEF ShowInv
<1>4. CASE SizeStep
    <2>1. UNCHANGED <<phys, m, main>>
        BY <1>4 DEF SizeStep, WindowChanges, ResizeEvent, SizeRequested, ReadSize, SendSize, screens
    <2>2. CASE WindowChanges
        <3>1. PICK h \in Heights :
                 window' = [rows |-> h, signal |-> TRUE, grew |-> window.grew \/ h > window.rows]
            BY <2>2 DEF WindowChanges
        <3>2. h \in Nat /\ UNCHANGED sizer BY <2>2, HeightsAssumption DEF WindowChanges
        <3>3. /\ window.grew => window'.grew
              /\ ~window'.grew => ~window.grew /\ window'.rows = h /\ window.rows >= h
            <4>1. window'.rows = h /\ (window'.grew <=> (window.grew \/ h > window.rows)) BY <3>1
            <4>2. h > window.rows \/ window.rows >= h BY <1>1, <3>2
            <4> QED BY <4>1, <4>2
        <3>4. ASSUME ~window'.grew, NEW g \in Goroutines, sizer'[g].pc = "apply"
              PROVE  sizer'[g].rows >= window'.rows
            <4>1. sizer[g].rows >= window.rows BY <3>2, <3>3, <3>4 DEF CutInv
            <4> QED BY <1>1, <3>2, <3>3, <3>4, <4>1
        <3>5. ASSUME ~window'.grew, Sized' PROVE m'.physicalRows >= window'.rows
            <4>1. m.physicalRows >= window.rows BY <2>1, <3>2, <3>3, <3>5 DEF CutInv, Sized
            <4> QED BY <1>1, <2>1, <3>2, <3>3, <3>5, <4>1
        <3> QED BY <2>1, <3>3, <3>4, <3>5 DEF CutInv
    <2>3. CASE ResizeEvent \/ SizeRequested \/ \E g \in Goroutines : ReadSize(g) \/ SendSize(g)
        <3>1. window'.rows = window.rows /\ window'.grew = window.grew
            BY <1>1, <2>3 DEF ResizeEvent, SizeRequested, ReadSize, SendSize
        <3>2. PICK g \in Goroutines :
                 \/ sizer' = [sizer EXCEPT ![g].pc = "read"]
                 \/ sizer' = [sizer EXCEPT ![g] = [pc |-> "apply", rows |-> window.rows]] /\ sizer[g].pc = "read"
                 \/ sizer' = [sizer EXCEPT ![g] = [pc |-> "idle", rows |-> 0]] /\ sizer[g].pc = "send"
            BY <2>3 DEF ResizeEvent, SizeRequested, ReadSize, SendSize, Goroutines
        <3>3. \A h \in Goroutines : sizer'[h].pc = "apply" =>
                 \/ sizer[h].pc = "apply" /\ sizer'[h].rows = sizer[h].rows
                 \/ sizer'[h].rows = window.rows
            BY <1>1, <3>2 DEF SizerType
        <3>4. sizer'["main"].pc \notin {"read", "apply"} => sizer["main"].pc \notin {"read", "apply"}
            <4>1. "main" \in Goroutines BY DEF Goroutines
            <4> QED BY <1>1, <3>2, <4>1 DEF SizerType
        <3>5. Sized' => Sized BY <2>1, <3>4 DEF Sized
        <3>6. \A n \in Nat : n >= n OBVIOUS
        <3> QED BY <1>1, <2>1, <3>1, <3>3, <3>5, <3>6 DEF CutInv
    <2> QED BY <1>4, <2>2, <2>3 DEF SizeStep
<1>5. CASE PainterStep
    <2>1. UNCHANGED <<window, m, main, sizer>>
        BY <1>5 DEF PainterStep, PainterWakes, PainterReadsSize, PainterDumps, PainterWrites,
                    PainterPauses, others
    <2>2. phys'.pre = phys.pre BY <1>0, <1>3, <1>5, AsideSteps DEF Shows, Aside
    <2> QED BY <2>1, <2>2 DEF CutInv, Sized
<1>6. ASSUME NEW g \in Goroutines, applyResize(g) PROVE CutInv'
    <2>1. UNCHANGED <<phys, window, main>> /\ sizer[g].pc = "apply" BY <1>6 DEF applyResize, screens
    <2>2. m \in ModelType /\ m' = Resized(m, sizer[g].rows) BY <1>0, <1>6 DEF applyResize, TypeOK
    <2>3. m'.physicalRows = sizer[g].rows
        <3>1. sizer[g].rows \in Nat BY <1>1
        <3> QED BY <1>0, <2>2, <3>1, ResizedType
    <2>4. \A h \in Goroutines : sizer'[h].pc = "apply" => sizer[h].pc = "apply" /\ sizer'[h].rows = sizer[h].rows
        BY <1>1, <1>6 DEF applyResize, SizerType
    <2> QED BY <2>1, <2>3, <2>4 DEF CutInv
<1>7. ASSUME NEW g \in Goroutines, SetViewSize(g) PROVE CutInv'
    <2>1. UNCHANGED <<phys, window, m, main>> BY <1>7 DEF SetViewSize, screens
    <2>2. /\ \A h \in Goroutines : sizer'[h].pc = "apply" => sizer[h].pc = "apply" /\ sizer'[h].rows = sizer[h].rows
          /\ sizer'["main"].pc \notin {"read", "apply"} => sizer["main"].pc \notin {"read", "apply"}
        BY <1>1, <1>7 DEF SetViewSize, Goroutines
    <2> QED BY <2>1, <2>2 DEF CutInv, Sized
<1>8. CASE FrameStep
    <2>1. m'.physicalRows = m.physicalRows /\ window' = window /\ main' = main
        BY <1>0, <1>8, FrameSize
    <2>2. main.pc = "run"
        BY <1>0, <1>8 DEF LockInv, FrameStep, ReceiveOutput, Synchronize, WriteTerm, presentRaw,
                          FollowStays, FollowToIsolated, FollowToNative, leaveIsolated,
                          presentFromModel, Busy
    <2>3. \A g \in Goroutines : sizer'[g].pc = "apply" => sizer[g].pc = "apply" /\ sizer'[g].rows = sizer[g].rows
        <3>1. UNCHANGED sizer \/ sizer' = [sizer EXCEPT !["frame"].pc = "read"]
            BY <1>8 DEF FrameStep, ReceiveOutput, Synchronize, WriteTerm, presentRaw,
                        FollowStays, FollowToIsolated, FollowToNative, leaveIsolated,
                        presentFromModel, FrameDone, FrameFails, FollowNext, AfterRaw,
                        AfterPresent, NativeFails
        <3> QED BY <1>1, <3>1 DEF SizerType
    <2>4. phys'.pre = "cut" => phys.pre = "cut" \/ ~(m.physicalRows >= window.rows)
        BY <1>0, <1>3, <1>8, FrameCut DEF Shows
    <2> QED BY <2>1, <2>2, <2>3, <2>4 DEF CutInv, Sized
<1>9. CASE Start
    <2>1. window' = window BY <1>9 DEF Start
    <2>2. phys'.pre = "cut" => phys.pre = "cut"
        <3>1. phys \in PhysType BY <1>0 DEF TypeOK
        <3>2. enterIsolated(phys) \/ UNCHANGED phys BY <1>9 DEF Start
        <3>3. enterIsolated(phys) => phys' \in {phys, isolatedEntry(phys)} BY <1>0, <3>1, EnterType
        <3>4. isolatedEntry(phys).pre = phys.pre BY <3>1 DEF isolatedEntry, PhysType
        <3> QED BY <3>2, <3>3, <3>4
    <2>3. \A g \in Goroutines : sizer'[g].pc = "apply" => sizer[g].pc = "apply" /\ sizer'[g].rows = sizer[g].rows
        BY <1>1, <1>9 DEF Start
    <2>4. ~Sized'
        <3>1. main'.pc \in {"size", "abort"} BY <1>1, <1>9 DEF Start, MainType
        <3>2. main'.pc = "size" => sizer'["main"].pc = "read"
            BY <1>1, <1>9 DEF Start, Goroutines, SizerType
        <3> QED BY <3>1, <3>2 DEF Sized
    <2> QED BY <2>1, <2>2, <2>3, <2>4 DEF CutInv
<1>10. CASE Started \/ BeginFinish
    <2>1. UNCHANGED <<window, phys, m, sizer>> BY <1>10 DEF Started, BeginFinish, closing
    <2>2. Sized' => Sized
        <3>1. CASE Started BY <1>1, <3>1 DEF Started, Sized, MainType
        <3>2. CASE BeginFinish BY <1>1, <3>2 DEF BeginFinish, Sized, MainType
        <3> QED BY <1>10, <3>1, <3>2
    <2> QED BY <2>1, <2>2 DEF CutInv
<1>11. CASE Finish
    <2>1. UNCHANGED <<window, sizer>> /\ main'.pc = "done" BY <1>1, <1>11 DEF Finish, closing, MainType
    <2>2. phys'.pre = "cut" => phys.pre = "cut" \/ ~(Sized => m.physicalRows >= window.rows)
        BY <1>0, <1>3, <1>11, FinishCut
    <2> QED BY <2>1, <2>2 DEF CutInv, Sized
<1>12. CASE UNCHANGED vars BY <1>12 DEF vars, CutInv, Sized
<1> QED BY <1>4, <1>5, <1>6, <1>7, <1>8, <1>9, <1>10, <1>11, <1>12, Steps

-----------------------------------------------------------------------------
(* The theorems *)

\* The invariant holds at first, is kept by every step, and so always holds.
LEMMA ShowInit == ASSUME Init PROVE ShowInv
<1>1. /\ cfg \in [mode : Modes, instructions : BOOLEAN] /\ window \in [rows : Heights, signal : {FALSE}, grew : {FALSE}]
      /\ Modes \subseteq {"auto", "isolated", "native"} /\ Heights \subseteq Nat /\ DefaultRows \in Nat
    BY ModesAssumption, HeightsAssumption DEF Init
<1>2. /\ phys = [screen |-> "primary", primary |-> 0, alt |-> Blank, pre |-> "shown", region |-> FALSE,
                 modes |-> FALSE, hidden |-> FALSE, hint |-> FALSE, title |-> FALSE]
      /\ term = [alt |-> FALSE, primary |-> 0, altText |-> 0, modes |-> FALSE, hidden |-> FALSE,
                 rows |-> DefaultRows]
      /\ m = [presentation |-> "pending", nativeEntered |-> FALSE, hinted |-> FALSE,
              hintOnPrimary |-> FALSE, rows |-> DefaultRows, physicalRows |-> DefaultRows]
      /\ mu = "free" /\ view = NoView /\ painter = NoPainter /\ frame = NoFrame
      /\ sizer = [g \in Goroutines |-> [pc |-> "idle", rows |-> 0]]
      /\ main = [pc |-> "start", outcome |-> "none"] /\ sent = 0
      /\ pieces = 0 /\ events = 0 /\ failed = {}
    BY DEF Init
<1>3. Blank \in PictureType BY DEF Blank, PictureType, TextType
<1>4. phys \in PhysType BY <1>2, <1>3 DEF PhysType, TextType
<1>5. term \in TermType /\ m \in ModelType BY <1>1, <1>2 DEF TermType, ModelType
<1>6. /\ view \in ViewType /\ painter \in PainterType /\ frame \in FrameType /\ main \in MainType
      /\ sizer \in [Goroutines -> SizerType]
    BY <1>2, <1>3 DEF NoView, ViewType, NoPainter, PainterType, NoFrame, FrameType, MainType, SizerType
<1>7. TypeOK BY <1>1, <1>2, <1>4, <1>5, <1>6 DEF TypeOK
<1>8. /\ \A g \in Goroutines : sizer[g].pc = "idle"
      /\ view.live = FALSE /\ view.wake = FALSE /\ painter.pc = "none" /\ frame.pc = "idle"
      /\ main.pc = "start"
    BY <1>2 DEF NoView, NoPainter, NoFrame
<1>9. LockInv BY <1>2, <1>8 DEF LockInv, Goroutines, Busy
<1>10. ModeInv BY <1>2, <1>8 DEF ModeInv
<1>11. ViewInv BY <1>2, <1>8 DEF ViewInv
<1>12. SizeInv BY <1>2, <1>8 DEF SizeInv, sessionRows
<1>13. PaintInv BY <1>8 DEF PaintInv
<1>14. PreInv BY <1>2 DEF PreInv
<1>15. ScreenInv BY <1>2 DEF ScreenInv
<1>16. NativeInv BY <1>2, <1>8 DEF NativeInv
<1> QED BY <1>7, <1>8, <1>9, <1>10, <1>11, <1>12, <1>13, <1>14, <1>15, <1>16 DEF ShowInv, Shows

LEMMA ShowStep == ASSUME ShowInv, [Next]_vars PROVE ShowInv'
<1>1. TypeOK /\ LockInv BY DEF ShowInv
<1>2. TypeOK' /\ LockInv' BY <1>1, TypeStep, LockStep
<1>3. CASE main.pc = "done"
    <2>1. UNCHANGED vars /\ DoneInv BY <1>1, <1>3, DoneStays DEF ShowInv
    <2>2. DoneInv' BY <2>1 DEF vars, DoneInv, TerminalLeftUsable
    <2>3. main'.pc = "done" BY <1>3, <2>1 DEF vars
    <2> QED BY <1>2, <2>2, <2>3 DEF ShowInv
<1>4. CASE main.pc # "done"
    <2>0. Shows BY <1>4 DEF ShowInv
    <2>1. ASSUME Shows', main'.pc # "done" PROVE ShowInv' BY <1>2, <2>1 DEF ShowInv
    <2>2. CASE \/ SizeStep \/ PainterStep
               \/ \E g \in Goroutines : applyResize(g) \/ SetViewSize(g)
        <3>1. Aside BY <1>1, <2>0, <2>2, AsideSteps DEF Shows
        <3>2. ModeInv' /\ ViewInv' /\ PreInv' /\ ScreenInv' /\ NativeInv'
            BY <1>1, <1>2, <2>0, <3>1, AsideKeeps DEF Shows
        <3>3. SizeInv' /\ PaintInv' BY <1>1, <1>2, <2>0, <2>2, AsidePaints DEF Shows
        <3>4. main' = main BY <3>1 DEF Aside
        <3> QED BY <1>4, <2>1, <3>2, <3>3, <3>4 DEF Shows
    <2>3. CASE FrameStep
        <3>1. main' = main
            BY <2>3 DEF FrameStep, ReceiveOutput, Synchronize, WriteTerm, presentRaw, FollowStays,
                        FollowToIsolated, FollowToNative, leaveIsolated, presentFromModel, aside
        <3> QED BY <1>1, <1>2, <1>4, <2>0, <2>1, <2>3, <3>1, FrameShows
    <2>4. CASE Start
        <3>1. main'.pc \in {"size", "abort"} BY <1>1, <2>4 DEF Start, TypeOK, MainType
        <3> QED BY <1>1, <1>2, <2>0, <2>1, <2>4, <3>1, StartShows
    <2>5. CASE Started \/ BeginFinish
        <3>1. main'.pc \in {"run", "closing"}
            BY <1>1, <2>5 DEF Started, BeginFinish, TypeOK, MainType
        <3> QED BY <1>1, <1>2, <2>0, <2>1, <2>5, <3>1, StartedShows
    <2>6. CASE Finish
        <3>1. main'.pc = "done" BY <1>1, <2>6 DEF Finish, TypeOK, MainType
        <3>2. DoneInv' BY <1>1, <1>2, <2>0, <2>6, FinishGives
        <3> QED BY <1>2, <3>1, <3>2 DEF ShowInv
    <2>7. CASE UNCHANGED vars
        <3>1. ModeInv' /\ ViewInv' BY <2>0, <2>7 DEF vars, Shows, ModeInv, ViewInv
        <3>2. SizeInv' BY <2>0, <2>7 DEF vars, Shows, SizeInv, Sizing, sessionRows
        <3>3. PaintInv' BY <2>0, <2>7 DEF vars, Shows, PaintInv, Sizing, Stale, Active, Dump
        <3>4. PreInv' /\ ScreenInv' BY <2>0, <2>7 DEF vars, Shows, PreInv, ScreenInv
        <3>5. NativeInv' BY <2>0, <2>7 DEF vars, Shows, NativeInv, WasAlt
        <3>6. main'.pc # "done" BY <1>4, <2>7 DEF vars
        <3> QED BY <2>1, <3>1, <3>2, <3>3, <3>4, <3>5, <3>6 DEF Shows
    <2> QED BY <2>2, <2>3, <2>4, <2>5, <2>6, <2>7, Steps
<1> QED BY <1>3, <1>4

\* The inductive invariant, always: modes, views, sizes, paints and screens agree.
THEOREM ShowInvariant == Spec => []ShowInv
<1>1. Init => ShowInv BY ShowInit
<1>2. ShowInv /\ [Next]_vars => ShowInv' BY ShowStep
<1> QED BY <1>1, <1>2, PTL DEF Spec

\* Once nothing is pending the terminal shows the session: whatever resizes,
\* output frames and paints overlapped and whichever writes failed before, the
\* painted screen is the emulator's, with the hint below it, and a native screen
\* holds every piece in order.
THEOREM Settled == Spec => []ScreenSettles
<1>1. ASSUME ShowInv PROVE ScreenSettles
    <2> SUFFICES ASSUME Quiet
                 PROVE  /\ m.rows = term.rows
                        /\ m.presentation = "isolated" =>
                             /\ phys.screen = "alt" /\ ~phys.modes
                             /\ phys.alt = [Dump(term) EXCEPT !.hint = m.rows < m.physicalRows]
                        /\ m.presentation = "native" /\ m.nativeEntered =>
                             /\ phys.screen = IF term.alt THEN "alt" ELSE "primary"
                             /\ Active(term) = IF term.alt THEN phys.alt.text ELSE phys.primary
                             /\ phys.modes = term.modes /\ phys.hidden = term.hidden
        BY DEF ScreenSettles
    <2>1. /\ main.pc = "run" /\ mu = "free" /\ frame.pc = "idle" /\ ~view.wake
          /\ painter.pc \in {"none", "wait", "pause"}
        BY DEF Quiet
    <2>2. TypeOK /\ LockInv /\ Shows BY <1>1, <2>1 DEF ShowInv
    <2>3. ~Sizing /\ ~Stale BY <2>1, <2>2 DEF LockInv, Sizing, Stale, Goroutines
    <2>4. m.rows = term.rows BY <2>2 DEF Shows, SizeInv
    <2>5. ASSUME m.presentation = "isolated"
          PROVE  /\ phys.screen = "alt" /\ ~phys.modes
                 /\ phys.alt = [Dump(term) EXCEPT !.hint = m.rows < m.physicalRows]
        <3>1. view.live BY <2>1, <2>2, <2>5 DEF Shows, ViewInv
        <3>2. painter.pc \in {"wait", "pause"} BY <2>1, <2>2, <3>1 DEF Shows, ViewInv
        <3>3. phys.screen = "alt" /\ ~phys.modes BY <2>2, <2>5, <3>1 DEF Shows, ViewInv, ScreenInv
        <3>4. view.reserved <=> m.rows < m.physicalRows BY <2>2, <2>3, <3>1 DEF Shows, SizeInv
        <3>5. /\ phys.alt.text = Active(term) /\ phys.alt.rows = term.rows
              /\ phys.alt.hint <=> view.reserved
            BY <2>1, <2>2, <2>3, <3>1, <3>2 DEF Shows, PaintInv
        <3> DEFINE s == Dump(term)
                   d == [s EXCEPT !.hint = m.rows < m.physicalRows]
        <3>6. s \in PictureType /\ s.text = Active(term) /\ s.rows = term.rows
            BY <2>2 DEF Dump, Active, PictureType, TextType, TypeOK, TermType
        <3>7. (m.rows < m.physicalRows) \in BOOLEAN BY <2>2 DEF TypeOK, ModelType
        <3> HIDE DEF s
        <3>8. /\ d \in PictureType /\ d.text = Active(term) /\ d.rows = term.rows
              /\ d.hint <=> m.rows < m.physicalRows
            BY <3>6, <3>7 DEF PictureType
        <3> HIDE DEF d
        <3>9. phys.alt \in PictureType BY <2>2 DEF TypeOK, PhysType
        <3>10. phys.alt = d BY <3>4, <3>5, <3>8, <3>9, SamePicture
        <3> QED BY <3>3, <3>10 DEF d, s
    <2>6. ASSUME m.presentation = "native"
          PROVE  /\ phys.screen = IF term.alt THEN "alt" ELSE "primary"
                 /\ Active(term) = IF term.alt THEN phys.alt.text ELSE phys.primary
                 /\ phys.modes = term.modes /\ phys.hidden = term.hidden
        BY <2>1, <2>2, <2>6 DEF Shows, NativeInv, Active, TypeOK, TermType, PhysType
    <2> QED BY <2>4, <2>5, <2>6
<1> QED BY <1>1, ShowInvariant, PTL

\* However an attachment ends, the shell gets its screen back unless the write
\* that leaves the alternate screen failed; without failures and aborts also its
\* scroll region, cursor and input modes, and no hint is left on it.
THEOREM GivenBack == Spec => []TerminalLeftUsable
<1>1. ShowInv => TerminalLeftUsable BY DEF ShowInv, DoneInv, TerminalLeftUsable
<1> QED BY <1>1, ShowInvariant, PTL

\* The earlier screen is scrolled away in whole as long as the window has not grown.
THEOREM CutInvariant == Spec => []CutInv
<1>1. Init => CutInv BY CutInit
<1>2. ShowInv /\ CutInv /\ [Next]_vars => CutInv' BY CutStep
<1> QED BY <1>1, <1>2, ShowInvariant, PTL DEF Spec

\* What the terminal showed before the attachment is never drawn over where it
\* stands: it is scrolled away first, in whole unless the window has grown, and it
\* is back when an attachment that never went native was left.
THEOREM PreAttachKept == Spec => []PreAttachSurvives
<1>1. ShowInv /\ CutInv => PreAttachSurvives
    <2> SUFFICES ASSUME ShowInv, CutInv PROVE PreAttachSurvives OBVIOUS
    <2>2. phys.pre = "cut" => window.grew BY DEF CutInv
    <2>3. CASE main.pc = "done" BY <2>2, <2>3 DEF ShowInv, DoneInv, PreAttachSurvives
    <2>4. CASE main.pc # "done" BY <2>2, <2>4 DEF ShowInv, Shows, PreInv, PreAttachSurvives
    <2> QED BY <2>3, <2>4
<1> QED BY <1>1, ShowInvariant, CutInvariant, PTL
=============================================================================
