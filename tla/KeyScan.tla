------------------------------- MODULE KeyScan -------------------------------
(***************************************************************************)
(* The keyboard side of an attached terminal: detachScanner (ctrlkey.go),  *)
(* which finds the detach key ctrl+\ in input that arrives in arbitrary    *)
(* reads, and the loop of runAttachInput (client_attach_input.go) that     *)
(* drives it, with the timer that releases a lone Escape.                  *)
(*                                                                         *)
(* Bytes are their codes.  A behaviour types one of Inputs, which arrives  *)
(* in reads of any length.                                                 *)
(***************************************************************************)
EXTENDS Naturals, Sequences, SequencesExt

CONSTANTS Inputs,     \* what may be typed, as byte streams
          Wrap        \* the numbers of parseDecimal: 2^32, they are uint32

ESC == 27
FS == 28
LBRACKET == 91
SEMI == 59
COLON == 58
LOWER_U == 117
Digit == 48 .. 57

ASSUME InputsAssumption == \A s \in Inputs : s \in Seq(0 .. 255)
ASSUME WrapAssumption == Wrap \in Nat \ {0}

VARIABLES typed,      \* the input of this behaviour
          got,        \* how many bytes of it have been read
          before,     \* history: of a detach, how many had been before its read
          sent,       \* the payloads of the FrameInput frames, in order
          pending,    \* scanner.pending
          timer,      \* attachEscapeTimeout is running
          released,   \* offsets in typed at which the timer flushed
          pc          \* "reading", or how runAttachInput returned

vars == <<typed, got, before, sent, pending, timer, released, pc>>

-----------------------------------------------------------------------------
(* The scanner *)

\* The byte at index i, or 0 beyond the end.
At(buf, i) == IF i \in DOMAIN buf THEN buf[i] ELSE 0

\* The first index from p on whose byte is not in S.
Span(buf, p, S) ==
    CHOOSE q \in p .. Len(buf) + 1 :
        /\ At(buf, q) \notin S
        /\ \A i \in p .. q - 1 : buf[i] \in S

\* The number that digits spell, leading zeros and overflow included.
Value(digits) == FoldLeft(LAMBDA value, b : (value * 10 + (b - 48)) % Wrap, 0, digits)

\* parseDecimal: the value of the digits from p to q - 1.
Decimal(buf, p, q) == Value(SubSeq(buf, p, q - 1))

\* CSI key[:alternates] ; modifiers[:event] [; text] u from index p on, with key
\* 92, exactly ctrl among the intentional modifiers, and not a release.
keypressWithMod(buf, p) ==
    LET key == Span(buf, p, Digit)
        alt == IF At(buf, key) = COLON THEN Span(buf, key, Digit \cup {COLON}) ELSE key
        mod == Span(buf, alt + 1, Digit)
        event == IF At(buf, mod) = COLON THEN Span(buf, mod + 1, Digit) ELSE mod
        text == IF At(buf, event) = SEMI THEN Span(buf, event + 1, Digit \cup {COLON}) ELSE event
    IN /\ key > p /\ Decimal(buf, p, key) = 92
       /\ At(buf, alt) = SEMI
       /\ mod > alt + 1 /\ Decimal(buf, alt + 1, mod) >= 1
       /\ (Decimal(buf, alt + 1, mod) - 1) % 64 = 4
       /\ event = mod \/ (event > mod + 1 /\ Decimal(buf, mod + 1, event) # 3)
       /\ At(buf, text) = LOWER_U

isCtrlBackslash(buf) ==
    \E i \in DOMAIN buf :
        \/ buf[i] = FS
        \/ /\ i + 2 \in DOMAIN buf
           /\ buf[i] = ESC /\ buf[i + 1] = LBRACKET
           /\ keypressWithMod(buf, i + 2)

\* s begins with ESC.
ctrlBackslashPrefix(s) ==
    LET i == Span(s, 3, Digit)
        keyDigits == SubSeq(s, 3, i - 1)
    IN \/ Len(s) = 1
       \/ /\ s[2] = LBRACKET
          /\ \/ i > Len(s) /\ IsPrefix(keyDigits, <<57, 50>>)
             \/ i <= Len(s) /\ keyDigits = <<57, 50>> /\ s[i] \in {COLON, SEMI}

\* Mutant: only a buffer that is all fragment is held.
SuffixLenWhole(buf) ==
    IF buf # <<>> /\ buf[1] = ESC /\ ctrlBackslashPrefix(buf) THEN Len(buf) ELSE 0

\* Only the last ESC of the buffer is considered.
ctrlBackslashSuffixLen(buf) ==
    LET i == SelectLastInSeq(buf, LAMBDA b : b = ESC)
    IN IF i > 0 /\ ctrlBackslashPrefix(SubSeq(buf, i, Len(buf)))
       THEN Len(buf) - i + 1
       ELSE 0

\* Mutant: the fragment that is held is forwarded as well.
feedForwards(buf) ==
    LET cut == Len(buf) - ctrlBackslashSuffixLen(buf)
    IN [forward |-> IF isCtrlBackslash(buf) THEN <<>> ELSE buf,
        pending |-> SubSeq(buf, cut + 1, Len(buf)),
        detach |-> isCtrlBackslash(buf)]

\* feed: what is forwarded, what stays pending, and whether ctrl+\ was seen.
feed(buf) ==
    LET cut == Len(buf) - ctrlBackslashSuffixLen(buf)
    IN IF isCtrlBackslash(buf)
       THEN [forward |-> <<>>, pending |-> <<>>, detach |-> TRUE]
       ELSE [forward |-> SubSeq(buf, 1, cut),
             pending |-> SubSeq(buf, cut + 1, Len(buf)),
             detach |-> FALSE]

-----------------------------------------------------------------------------
(* runAttachInput *)

Init ==
    /\ typed \in Inputs /\ got = 0 /\ before = 0
    /\ sent = <<>> /\ pending = <<>>
    /\ timer = FALSE /\ released = {} /\ pc = "reading"

received == SubSeq(typed, 1, got)

\* Mutant: the timer is not set.
ArmedNever(held) == FALSE

\* The next request of a read starts the timer only for a lone Escape.
Armed(held) == held = <<ESC>>

\* A read returns n bytes: the scanner is fed, what it forwards is sent, and a
\* detach is announced with FrameDetach.  A send that fails ends the loop.
Read(n) ==
    LET fed == feed(pending \o SubSeq(typed, got + 1, got + n))
    IN /\ pc = "reading"
       /\ got' = got + n
       /\ before' = IF fed.detach THEN got ELSE before
       /\ pending' = fed.pending
       /\ UNCHANGED <<typed, released>>
       /\ \/ /\ sent' = sent \o fed.forward
             /\ pc' = IF fed.detach THEN "detached" ELSE "reading"
             /\ timer' = (~fed.detach /\ Armed(fed.pending))
          \/ /\ fed.forward # <<>> \/ fed.detach
             /\ pc' = "failed" /\ timer' = FALSE
             /\ UNCHANGED sent

\* flush: what is pending is sent as it stands.
Flush(reached) ==
    /\ pending' = <<>> /\ timer' = FALSE
    /\ \/ sent' = sent \o pending /\ pc' = reached
       \/ pending # <<>> /\ pc' = "failed" /\ UNCHANGED sent

\* The timer fires while the read is still outstanding.
EscapeTimeout ==
    /\ pc = "reading" /\ timer
    /\ released' = released \cup {got}
    /\ Flush("reading")
    /\ UNCHANGED <<typed, got, before>>

\* The terminal's input ends, or its read fails.
ReadEOF ==
    /\ pc = "reading"
    /\ Flush("eof")
    /\ UNCHANGED <<typed, got, before, released>>

ReadFails ==
    /\ pc = "reading"
    /\ pc' = "failed" /\ timer' = FALSE
    /\ UNCHANGED <<typed, got, before, sent, pending, released>>

Next ==
    \/ \E n \in 1 .. Len(typed) - got : Read(n)
    \/ EscapeTimeout \/ ReadEOF \/ ReadFails

\* The timer is the runtime's and fires.
Spec == Init /\ [][Next]_vars /\ WF_vars(EscapeTimeout)

-----------------------------------------------------------------------------
(* The reference: the encodings of a ctrl+\ press as a language, without a
   scanner or a position in it.                                             *)

Over(f, S) == Range(f) \subseteq S

Key(f) == f # <<>> /\ Over(f, Digit) /\ Value(f) = 92
Alternates(f) == f = <<>> \/ (f[1] = COLON /\ Over(f, Digit \cup {COLON}))
CtrlModifier(f) ==
    f # <<>> /\ Over(f, Digit) /\ Value(f) >= 1 /\ (Value(f) - 1) % 64 = 4
Event(f) ==
    f = <<>> \/ (Len(f) > 1 /\ f[1] = COLON /\ Over(Tail(f), Digit) /\ Value(Tail(f)) # 3)
Text(f) == f = <<>> \/ (f[1] = SEMI /\ Over(Tail(f), Digit \cup {COLON}))

IsKeypress(s) ==
    \/ s = <<FS>>
    \/ /\ Len(s) > 2 /\ s[1] = ESC /\ s[2] = LBRACKET /\ s[Len(s)] = LOWER_U
       /\ \E k \in 3 .. Len(s) :
          /\ Key(SubSeq(s, 3, k - 1))
          /\ \E a \in k .. Len(s) - 1 : \E m \in a + 1 .. Len(s) : \E e \in m .. Len(s) :
             /\ Alternates(SubSeq(s, k, a - 1)) /\ s[a] = SEMI
             /\ CtrlModifier(SubSeq(s, a + 1, m - 1))
             /\ Event(SubSeq(s, m, e - 1))
             /\ Text(SubSeq(s, e, Len(s) - 1))

\* Every press in Inputs writes its key as the two digits 92, as terminals do: 092
\* is the same key to keypressWithMod, but not to ctrlBackslashPrefix.
PlainKeypresses ==
    \A s \in Inputs : \A i, j \in DOMAIN s :
        i < j /\ IsKeypress(SubSeq(s, i, j)) =>
            \E c \in {COLON, SEMI} : SubSeq(s, i, i + 4) = <<ESC, LBRACKET, 57, 50, c>>

\* A ctrl+\ press from byte i to byte j of what was read, unless its ESC stood
\* alone for so long that the timer released it as an Escape.
PressAt(i, j) == IsKeypress(SubSeq(typed, i, j)) /\ i \notin released

\* runAttachInput returns for a detach exactly when the bytes typed contain the
\* detach key, in whatever reads they arrived: no split hides the key from the
\* scanner and nothing else, a release or another modifier, is taken for it.
DetachIsExact ==
    /\ pc = "reading" => ~\E j \in 1 .. got : \E i \in 1 .. j : PressAt(i, j)
    /\ pc = "detached" => \E j \in 1 .. got : \E i \in 1 .. j : PressAt(i, j)

\* s begins as the detach key does, or is as much of its beginning.
Fragment(s) ==
    \/ IsPrefix(s, <<ESC, LBRACKET, 57, 50>>)
    \/ \E c \in {COLON, SEMI} : IsPrefix(<<ESC, LBRACKET, 57, 50, c>>, s)

\* The session receives what was typed, in order.  While reading, all but what is
\* held back, which begins as the detach key does; at the end of the input,
\* everything; on a detach, what had been read before the last read, which
\* completed the key, but for such a beginning.  So a detach loses exactly what
\* was held and the read that held the key, with the input in it before the key
\* (feed forwards nothing of it).  A send or a read that fails promises nothing.
InputForwarded ==
    /\ pc = "reading" => sent \o pending = received /\ Fragment(pending)
    /\ pc = "eof" => sent = received
    /\ pc = "detached" =>
         /\ IsPrefix(sent, SubSeq(typed, 1, before))
         /\ Fragment(SubSeq(typed, Len(sent) + 1, before))
         /\ \E j \in before + 1 .. got : \E i \in Len(sent) + 1 .. j : PressAt(i, j)

\* A lone Escape reaches the session although nothing else is typed.
EscapeIsForwarded ==
    (pc = "reading" /\ pending = <<ESC>>) ~> (pc # "reading" \/ pending # <<ESC>>)

\* ctrlBackslashPrefix: "an incomplete prefix that could still grow into a ctrl+\
\* keypress".  A key that is complete and not ctrl+\ cannot.
HeldCanGrow ==
    \A i \in 3 .. Len(pending) : pending[i] \in Digit \cup {SEMI, COLON}
=============================================================================
