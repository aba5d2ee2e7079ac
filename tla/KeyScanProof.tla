---------------------------- MODULE KeyScanProof ----------------------------
(***************************************************************************)
(* Proofs about the detach scanner, for input of any length in reads of    *)
(* any size: what the scanner takes for ctrl+\ is exactly what the         *)
(* encodings of the key are as a language, no split of the input hides the *)
(* key, and nothing that was typed is lost or forwarded twice.             *)
(***************************************************************************)
EXTENDS KeyScan, WellFoundedInduction, TLAPS

-----------------------------------------------------------------------------
(* Natural numbers.                                                        *)

\* The order of the naturals is well-founded.
LEMMA Below ==
    \E R : IsWellFoundedOn(R, Nat) /\ \A x, y \in Nat : x < y => <<x, y>> \in R
<1> DEFINE R == OpToRel(<, Nat)
<1>1. IsWellFoundedOn(R, Nat) BY NatLessThanWellFounded
<1>2. \A x, y \in Nat : x < y => <<x, y>> \in R BY DEF OpToRel
<1> HIDE DEF R
<1> QED BY <1>1, <1>2

\* A set of naturals has a least element.
LEMMA Least ==
    ASSUME NEW T \in SUBSET Nat, T # {}
    PROVE  \E m \in T : \A n \in T : m <= n
<1>1. PICK R : IsWellFoundedOn(R, Nat) /\ \A x, y \in Nat : x < y => <<x, y>> \in R
    BY Below
<1>2. IsWellFoundedOn(R, Nat) /\ T \subseteq Nat BY <1>1
<1>3. \E m \in T : \A y \in T : ~(<<y, m>> \in R) BY <1>2, WFMin, Zenon
<1>4. PICK m \in T : \A y \in T : ~(<<y, m>> \in R) BY <1>3
<1>5. ASSUME NEW n \in T PROVE m <= n
    <2>1. m \in Nat /\ n \in Nat OBVIOUS
    <2>2. ~(n < m) BY <1>1, <1>4, <2>1, Zenon
    <2> QED BY <2>1, <2>2
<1> QED BY <1>5

\* A bounded set of naturals has the greatest element that Max chooses.
LEMMA MaxIs ==
    ASSUME NEW b \in Nat, NEW T \in SUBSET (0..b), T # {}
    PROVE  Max(T) \in T /\ \A n \in T : n <= Max(T)
<1> DEFINE U == {k \in 0..b : b - k \in T}
<1>1. U \in SUBSET Nat OBVIOUS
<1>2. U # {}
    <2>1. PICK n \in T : TRUE OBVIOUS
    <2>2. n \in 0..b /\ b - n \in 0..b /\ b - (b - n) = n BY <2>1
    <2> QED BY <2>1, <2>2
<1>3. PICK m \in U : \A k \in U : m <= k
    <2> HIDE DEF U
    <2> QED BY <1>1, <1>2, Least
<1>4. b - m \in T BY <1>3
<1>5. ASSUME NEW n \in T PROVE n <= b - m
    <2>1. n \in 0..b /\ b - n \in 0..b /\ b - (b - n) = n OBVIOUS
    <2>2. b - n \in U BY <2>1
    <2>3. m <= b - n /\ m \in 0..b BY <1>3, <2>2
    <2> QED BY <2>1, <2>3
<1>6. \E x \in T : \A y \in T : x >= y
    <2>1. \A n \in T : b - m >= n BY <1>3, <1>5
    <2> QED BY <1>4, <2>1
<1>7. Max(T) \in T /\ \A y \in T : Max(T) >= y BY <1>6 DEF Max
<1> QED BY <1>7

-----------------------------------------------------------------------------
(* The scanner's fields.                                                   *)

Byte == 0..255
DigitOrColon == Digit \cup {COLON}

\* The bytes from p to q - 1 are all in S.
Runs(t, p, q, S) == \A x \in p..q - 1 : t[x] \in S

\* q ends the bytes of S from p on.
IsSpan(t, p, S, q) == q \in p..Len(t) + 1 /\ At(t, q) \notin S /\ Runs(t, p, q, S)

\* Neither a digit nor a colon is what At returns beyond the end.
LEMMA NoDigit ==
    /\ 0 \notin Digit /\ 0 \notin DigitOrColon
    /\ COLON \notin Digit /\ SEMI \notin DigitOrColon
    /\ LOWER_U \notin DigitOrColon /\ ESC \notin DigitOrColon
    /\ Digit \subseteq DigitOrColon
    /\ ESC # SEMI /\ ESC # LOWER_U /\ ESC # LBRACKET /\ SEMI # LOWER_U /\ COLON # LOWER_U
    /\ SEMI # COLON /\ ESC # FS /\ FS \notin Digit
    BY DEF Digit, DigitOrColon, ESC, FS, LBRACKET, SEMI, COLON, LOWER_U

\* A run of bytes of S ends somewhere.
LEMMA SpanExists ==
    ASSUME NEW t \in Seq(Byte), NEW p \in 1..Len(t) + 1, NEW S, 0 \notin S
    PROVE  \E q : IsSpan(t, p, S, q)
<1> DEFINE T == {q \in p..Len(t) + 1 : At(t, q) \notin S}
<1>1. Len(t) \in Nat /\ DOMAIN t = 1..Len(t) OBVIOUS
<1>2. Len(t) + 1 \in T
    <2>1. Len(t) + 1 \notin DOMAIN t BY <1>1
    <2>2. At(t, Len(t) + 1) = 0 BY <2>1 DEF At
    <2> QED BY <1>1, <2>2
<1>3. T \in SUBSET Nat /\ T # {} BY <1>1, <1>2
<1>4. PICK q \in T : \A n \in T : q <= n
    <2> HIDE DEF T
    <2> QED BY <1>3, Least
<1>5. ASSUME NEW x \in p..q - 1 PROVE t[x] \in S
    <2>1. x \in 1..Len(t) /\ x < q /\ x \in p..Len(t) + 1 BY <1>1, <1>4
    <2>2. x \notin T BY <1>4, <2>1
    <2>3. At(t, x) \in S BY <2>1, <2>2
    <2> QED BY <1>1, <2>1, <2>3 DEF At
<1>6. IsSpan(t, p, S, q) BY <1>4, <1>5 DEF IsSpan, Runs
<1> QED BY <1>6

\* ... and only at one place.
LEMMA SpanUnique ==
    ASSUME NEW t \in Seq(Byte), NEW p \in 1..Len(t) + 1, NEW S,
           NEW q, IsSpan(t, p, S, q), NEW r, IsSpan(t, p, S, r)
    PROVE  ~(q < r)
<1> SUFFICES ASSUME q < r PROVE FALSE OBVIOUS
<1>1. Len(t) \in Nat /\ DOMAIN t = 1..Len(t) OBVIOUS
<1>2. q \in p..Len(t) + 1 /\ r \in p..Len(t) + 1 BY DEF IsSpan
<1>3. q \in p..r - 1 /\ q \in DOMAIN t BY <1>1, <1>2
<1>4. t[q] \in S BY <1>3 DEF IsSpan, Runs
<1>5. At(t, q) = t[q] BY <1>3 DEF At
<1> QED BY <1>4, <1>5 DEF IsSpan

\* Span is that place.
LEMMA SpanIs ==
    ASSUME NEW t \in Seq(Byte), NEW p \in 1..Len(t) + 1, NEW S, 0 \notin S
    PROVE  IsSpan(t, p, S, Span(t, p, S))
<1>1. PICK q : IsSpan(t, p, S, q) BY SpanExists
<1>2. q \in p..Len(t) + 1 /\ At(t, q) \notin S /\ \A i \in p..q - 1 : t[i] \in S
    BY <1>1 DEF IsSpan, Runs
<1>3. /\ Span(t, p, S) \in p..Len(t) + 1 /\ At(t, Span(t, p, S)) \notin S
      /\ \A i \in p..Span(t, p, S) - 1 : t[i] \in S
    BY <1>2 DEF Span
<1> QED BY <1>3 DEF IsSpan, Runs

\* A place where the run ends is the one Span chooses.
LEMMA SpanEquals ==
    ASSUME NEW t \in Seq(Byte), NEW p \in 1..Len(t) + 1, NEW S, 0 \notin S,
           NEW q, IsSpan(t, p, S, q)
    PROVE  Span(t, p, S) = q
<1>1. IsSpan(t, p, S, Span(t, p, S)) BY SpanIs
<1>2. q \in Nat /\ Span(t, p, S) \in Nat BY <1>1 DEF IsSpan
<1>3. ~(q < Span(t, p, S)) /\ ~(Span(t, p, S) < q) BY <1>1, SpanUnique
<1> QED BY <1>2, <1>3

\* The part of t from p to q - 1, byte by byte.
LEMMA FieldIs ==
    ASSUME NEW t \in Seq(Byte), NEW p \in 1..Len(t) + 1, NEW q \in p..Len(t) + 1
    PROVE  /\ SubSeq(t, p, q - 1) \in Seq(Byte) /\ Len(SubSeq(t, p, q - 1)) = q - p
           /\ \A x \in 1..q - p : SubSeq(t, p, q - 1)[x] = t[p + x - 1]
           /\ (SubSeq(t, p, q - 1) = <<>>) <=> (q = p)
           /\ \A S : Over(SubSeq(t, p, q - 1), S) <=> Runs(t, p, q, S)
<1> DEFINE f == SubSeq(t, p, q - 1)
<1>1. Len(t) \in Nat /\ p \in Nat /\ q \in Nat OBVIOUS
<1>2. f \in Seq(Byte) /\ Len(f) = q - p /\ \A x \in 1..q - p : f[x] = t[p + x - 1]
    BY <1>1
<1>3. DOMAIN f = 1..q - p BY <1>2
<1> HIDE DEF f
<1>4. (f = <<>>) <=> (q = p) BY <1>1, <1>2
<1>5. ASSUME NEW S PROVE Over(f, S) <=> Runs(t, p, q, S)
    <2>1. ASSUME Runs(t, p, q, S), NEW x \in 1..q - p PROVE f[x] \in S
        <3>1. p + x - 1 \in p..q - 1 BY <1>1
        <3> QED BY <1>2, <2>1, <3>1 DEF Runs
    <2>2. ASSUME Over(f, S), NEW y \in p..q - 1 PROVE t[y] \in S
        <3>1. y - p + 1 \in 1..q - p /\ p + (y - p + 1) - 1 = y BY <1>1
        <3>2. f[y - p + 1] \in S BY <1>3, <2>2, <3>1 DEF Over, Range
        <3> QED BY <1>2, <3>1, <3>2
    <2>3. Over(f, S) <=> \A x \in 1..q - p : f[x] \in S
        BY <1>3 DEF Over, Range
    <2> QED BY <2>1, <2>2, <2>3 DEF Runs
<1> QED BY <1>2, <1>4, <1>5 DEF f

\* Its length and its bytes alone.
LEMMA FieldBytes ==
    ASSUME NEW t \in Seq(Byte), NEW p \in 1..Len(t) + 1, NEW q \in p..Len(t) + 1
    PROVE  /\ SubSeq(t, p, q - 1) \in Seq(Byte) /\ Len(SubSeq(t, p, q - 1)) = q - p
           /\ \A x \in 1..q - p : SubSeq(t, p, q - 1)[x] = t[p + x - 1]
BY FieldIs

\* The tail of a field starts one byte later.
LEMMA FieldTail ==
    ASSUME NEW t \in Seq(Byte), NEW p \in 1..Len(t) + 1, NEW q \in p + 1..Len(t) + 1
    PROVE  Tail(SubSeq(t, p, q - 1)) = SubSeq(t, p + 1, q - 1)
<1>1. Len(t) \in Nat /\ p \in Nat /\ q \in Nat OBVIOUS
<1>2. p + 1 \in 1..Len(t) + 1 /\ q \in p + 1..Len(t) + 1 /\ q \in p..Len(t) + 1 BY <1>1
<1> DEFINE f == SubSeq(t, p, q - 1)
           g == SubSeq(t, p + 1, q - 1)
<1>3. f \in Seq(Byte) /\ Len(f) = q - p /\ \A x \in 1..q - p : f[x] = t[p + x - 1]
    BY <1>2, FieldIs
<1>4. g \in Seq(Byte) /\ Len(g) = q - (p + 1) /\ \A x \in 1..q - (p + 1) : g[x] = t[(p + 1) + x - 1]
    BY <1>2, FieldIs
<1> HIDE DEF f, g
<1>5. Tail(f) \in Seq(Byte) /\ Len(Tail(f)) = q - p - 1 /\ \A x \in 1..q - p - 1 : Tail(f)[x] = f[x + 1]
    BY <1>1, <1>3
<1>6. ASSUME NEW x \in 1..q - p - 1 PROVE Tail(f)[x] = g[x]
    <2>1. x + 1 \in 1..q - p /\ x \in 1..q - (p + 1) /\ p + (x + 1) - 1 = (p + 1) + x - 1 BY <1>1
    <2> QED BY <1>3, <1>4, <1>5, <2>1
<1>7. Len(Tail(f)) = Len(g) BY <1>1, <1>4, <1>5
<1> QED BY <1>1, <1>4, <1>5, <1>6, <1>7 DEF f, g

\* What the reference says of a field, said of the bytes it is cut from.
LEMMA FieldSays ==
    ASSUME NEW t \in Seq(Byte), NEW p \in 1..Len(t) + 1, NEW q \in p..Len(t) + 1
    PROVE  /\ Key(SubSeq(t, p, q - 1)) <=>
                p < q /\ Runs(t, p, q, Digit) /\ Decimal(t, p, q) = 92
           /\ Alternates(SubSeq(t, p, q - 1)) <=>
                p = q \/ (t[p] = COLON /\ Runs(t, p, q, DigitOrColon))
           /\ CtrlModifier(SubSeq(t, p, q - 1)) <=>
                /\ p < q /\ Runs(t, p, q, Digit)
                /\ Decimal(t, p, q) >= 1 /\ (Decimal(t, p, q) - 1) % 64 = 4
           /\ Event(SubSeq(t, p, q - 1)) <=>
                p = q \/ /\ p + 1 < q /\ t[p] = COLON
                         /\ Runs(t, p + 1, q, Digit) /\ Decimal(t, p + 1, q) # 3
           /\ Text(SubSeq(t, p, q - 1)) <=>
                p = q \/ (t[p] = SEMI /\ Runs(t, p + 1, q, DigitOrColon))
<1> DEFINE f == SubSeq(t, p, q - 1)
<1>1. Len(t) \in Nat /\ p \in Nat /\ q \in Nat /\ p <= q OBVIOUS
<1>2. /\ Len(f) = q - p /\ \A x \in 1..q - p : f[x] = t[p + x - 1]
      /\ (f = <<>>) <=> (q = p)
      /\ \A S : Over(f, S) <=> Runs(t, p, q, S)
    BY FieldIs
<1>3. p < q => f[1] = t[p]
    <2> SUFFICES ASSUME p < q PROVE f[1] = t[p] OBVIOUS
    <2>1. 1 \in 1..q - p /\ p + 1 - 1 = p BY <1>1
    <2> HIDE DEF f
    <2> QED BY <1>2, <2>1
<1>4. ASSUME p < q
      PROVE  Tail(f) = SubSeq(t, p + 1, q - 1) /\ \A S : Over(Tail(f), S) <=> Runs(t, p + 1, q, S)
    <2>1. p + 1 \in 1..Len(t) + 1 /\ q \in p + 1..Len(t) + 1 BY <1>1, <1>4
    <2>2. Tail(f) = SubSeq(t, p + 1, q - 1) BY <2>1, FieldTail
    <2>3. \A S : Over(SubSeq(t, p + 1, q - 1), S) <=> Runs(t, p + 1, q, S) BY <2>1, FieldIs
    <2> HIDE DEF f
    <2> QED BY <2>2, <2>3
<1>5. Value(f) = Decimal(t, p, q) BY DEF Decimal
<1>6. Value(SubSeq(t, p + 1, q - 1)) = Decimal(t, p + 1, q) BY DEF Decimal
<1> HIDE DEF f
<1>7. Key(f) <=> p < q /\ Runs(t, p, q, Digit) /\ Decimal(t, p, q) = 92
    BY <1>1, <1>2, <1>5 DEF Key
<1>8. Alternates(f) <=> p = q \/ (t[p] = COLON /\ Runs(t, p, q, DigitOrColon))
    BY <1>1, <1>2, <1>3 DEF Alternates, DigitOrColon
<1>9. CtrlModifier(f) <=>
                /\ p < q /\ Runs(t, p, q, Digit)
                /\ Decimal(t, p, q) >= 1 /\ (Decimal(t, p, q) - 1) % 64 = 4
    BY <1>1, <1>2, <1>5 DEF CtrlModifier
<1>10. Event(f) <=> p = q \/ /\ p + 1 < q /\ t[p] = COLON
                             /\ Runs(t, p + 1, q, Digit) /\ Decimal(t, p + 1, q) # 3
    <2>1. CASE p = q BY <1>1, <1>2, <2>1 DEF Event
    <2>2. CASE p < q
        <3>1. f # <<>> /\ (Len(f) > 1 <=> p + 1 < q) BY <1>1, <1>2, <2>2
        <3>2. Value(Tail(f)) = Decimal(t, p + 1, q) BY <1>4, <1>6, <2>2
        <3> QED BY <1>1, <1>3, <1>4, <2>2, <3>1, <3>2 DEF Event
    <2> QED BY <1>1, <2>1, <2>2
<1>11. Text(f) <=> p = q \/ (t[p] = SEMI /\ Runs(t, p + 1, q, DigitOrColon))
    <2>1. CASE p = q BY <1>1, <1>2, <2>1 DEF Text
    <2>2. CASE p < q BY <1>1, <1>2, <1>3, <1>4, <2>2 DEF Text, DigitOrColon
    <2> QED BY <1>1, <2>1, <2>2
<1> QED BY <1>7, <1>8, <1>9, <1>10, <1>11 DEF f

\* The CSI u form of the key from byte i to byte j of t: the key code ends before
\* k, the alternates before a, the modifiers before m and the event before e.
Parse(t, i, k, a, m, e, j) ==
    /\ i \in DOMAIN t /\ j \in DOMAIN t
    /\ k \in i + 2..j /\ a \in k..j - 1 /\ m \in a + 1..j /\ e \in m..j
    /\ t[i] = ESC /\ t[i + 1] = LBRACKET /\ t[a] = SEMI /\ t[j] = LOWER_U
    /\ Key(SubSeq(t, i + 2, k - 1))
    /\ Alternates(SubSeq(t, k, a - 1))
    /\ CtrlModifier(SubSeq(t, a + 1, m - 1))
    /\ Event(SubSeq(t, m, e - 1))
    /\ Text(SubSeq(t, e, j - 1))

\* The same by the bytes.
LEMMA ParseBytes ==
    ASSUME NEW t \in Seq(Byte), NEW i \in DOMAIN t, NEW j \in DOMAIN t,
           NEW k \in i + 2..j, NEW a \in k..j - 1, NEW m \in a + 1..j, NEW e \in m..j
    PROVE  Parse(t, i, k, a, m, e, j) <=>
             /\ t[i] = ESC /\ t[i + 1] = LBRACKET /\ t[a] = SEMI /\ t[j] = LOWER_U
             /\ i + 2 < k /\ Runs(t, i + 2, k, Digit) /\ Decimal(t, i + 2, k) = 92
             /\ k = a \/ (t[k] = COLON /\ Runs(t, k, a, DigitOrColon))
             /\ a + 1 < m /\ Runs(t, a + 1, m, Digit)
             /\ Decimal(t, a + 1, m) >= 1 /\ (Decimal(t, a + 1, m) - 1) % 64 = 4
             /\ m = e \/ /\ m + 1 < e /\ t[m] = COLON
                         /\ Runs(t, m + 1, e, Digit) /\ Decimal(t, m + 1, e) # 3
             /\ e = j \/ (t[e] = SEMI /\ Runs(t, e + 1, j, DigitOrColon))
<1>1. Len(t) \in Nat /\ DOMAIN t = 1..Len(t) OBVIOUS
<1>2. /\ i + 2 \in 1..Len(t) + 1 /\ k \in i + 2..Len(t) + 1
      /\ k \in 1..Len(t) + 1 /\ a \in k..Len(t) + 1
      /\ a + 1 \in 1..Len(t) + 1 /\ m \in a + 1..Len(t) + 1
      /\ m \in 1..Len(t) + 1 /\ e \in m..Len(t) + 1
      /\ e \in 1..Len(t) + 1 /\ j \in e..Len(t) + 1
    BY <1>1
<1>3. Key(SubSeq(t, i + 2, k - 1)) <=>
         i + 2 < k /\ Runs(t, i + 2, k, Digit) /\ Decimal(t, i + 2, k) = 92
    BY <1>2, FieldSays, SMTT(30)
<1>4. Alternates(SubSeq(t, k, a - 1)) <=>
         k = a \/ (t[k] = COLON /\ Runs(t, k, a, DigitOrColon))
    BY <1>2, FieldSays
<1>5. CtrlModifier(SubSeq(t, a + 1, m - 1)) <=>
         /\ a + 1 < m /\ Runs(t, a + 1, m, Digit)
         /\ Decimal(t, a + 1, m) >= 1 /\ (Decimal(t, a + 1, m) - 1) % 64 = 4
    BY <1>2, FieldSays, SMTT(30)
<1>6. Event(SubSeq(t, m, e - 1)) <=>
         m = e \/ /\ m + 1 < e /\ t[m] = COLON
                  /\ Runs(t, m + 1, e, Digit) /\ Decimal(t, m + 1, e) # 3
    BY <1>2, FieldSays
<1>7. Text(SubSeq(t, e, j - 1)) <=> e = j \/ (t[e] = SEMI /\ Runs(t, e + 1, j, DigitOrColon))
    BY <1>2, FieldSays, SMTT(30)
<1>8. Parse(t, i, k, a, m, e, j) <=>
         /\ t[i] = ESC /\ t[i + 1] = LBRACKET /\ t[a] = SEMI /\ t[j] = LOWER_U
         /\ Key(SubSeq(t, i + 2, k - 1)) /\ Alternates(SubSeq(t, k, a - 1))
         /\ CtrlModifier(SubSeq(t, a + 1, m - 1)) /\ Event(SubSeq(t, m, e - 1))
         /\ Text(SubSeq(t, e, j - 1))
    BY DEF Parse
<1> QED BY <1>3, <1>4, <1>5, <1>6, <1>7, <1>8, Zenon

-----------------------------------------------------------------------------
(* The scanner accepts the language.                                       *)

\* Where keypressWithMod stops after each field.
AltEnd(t, key) == IF At(t, key) = COLON THEN Span(t, key, Digit \cup {COLON}) ELSE key
EventEnd(t, mod) == IF At(t, mod) = COLON THEN Span(t, mod + 1, Digit) ELSE mod
TextEnd(t, event) ==
    IF At(t, event) = SEMI THEN Span(t, event + 1, Digit \cup {COLON}) ELSE event

\* What keypressWithMod asks of those places.
Accepts(t, p, key, alt, mod, event, text) ==
    /\ key > p /\ Decimal(t, p, key) = 92
    /\ At(t, alt) = SEMI
    /\ mod > alt + 1 /\ Decimal(t, alt + 1, mod) >= 1
    /\ (Decimal(t, alt + 1, mod) - 1) % 64 = 4
    /\ event = mod \/ (event > mod + 1 /\ Decimal(t, mod + 1, event) # 3)
    /\ At(t, text) = LOWER_U

\* keypressWithMod, one field after another.
LEMMA KeypressFields ==
    ASSUME NEW t, NEW p, NEW key, key = Span(t, p, Digit), NEW alt, alt = AltEnd(t, key),
           NEW mod, mod = Span(t, alt + 1, Digit), NEW event, event = EventEnd(t, mod),
           NEW text, text = TextEnd(t, event)
    PROVE  keypressWithMod(t, p) <=> Accepts(t, p, key, alt, mod, event, text)
    BY Zenon DEF keypressWithMod, Accepts, AltEnd, EventEnd, TextEnd

\* A key is recognised where one is.
LEMMA ScannerAccepts ==
    ASSUME NEW t \in Seq(Byte), NEW i, NEW k, NEW a, NEW m, NEW e, NEW j,
           Parse(t, i, k, a, m, e, j)
    PROVE  i + 2 \in DOMAIN t /\ keypressWithMod(t, i + 2)
<1>1. Len(t) \in Nat /\ DOMAIN t = 1..Len(t) OBVIOUS
<1>2. /\ i \in DOMAIN t /\ j \in DOMAIN t
      /\ k \in i + 2..j /\ a \in k..j - 1 /\ m \in a + 1..j /\ e \in m..j
    BY DEF Parse
<1>3. /\ i \in 1..Len(t) /\ j \in 1..Len(t) /\ k \in 1..Len(t) /\ a \in 1..Len(t)
      /\ m \in 1..Len(t) /\ e \in 1..Len(t) /\ k >= i + 2 /\ a >= k /\ m >= a + 1 /\ e >= m /\ j >= e
    BY <1>1, <1>2
<1>4. /\ t[i] = ESC /\ t[i + 1] = LBRACKET /\ t[a] = SEMI /\ t[j] = LOWER_U
      /\ i + 2 < k /\ Runs(t, i + 2, k, Digit) /\ Decimal(t, i + 2, k) = 92
      /\ k = a \/ (t[k] = COLON /\ Runs(t, k, a, DigitOrColon))
      /\ a + 1 < m /\ Runs(t, a + 1, m, Digit)
      /\ Decimal(t, a + 1, m) >= 1 /\ (Decimal(t, a + 1, m) - 1) % 64 = 4
      /\ m = e \/ /\ m + 1 < e /\ t[m] = COLON
                  /\ Runs(t, m + 1, e, Digit) /\ Decimal(t, m + 1, e) # 3
      /\ e = j \/ (t[e] = SEMI /\ Runs(t, e + 1, j, DigitOrColon))
    BY <1>2, ParseBytes
<1>5. \A x \in 1..Len(t) : At(t, x) = t[x] BY <1>1 DEF At
<1>6. i + 2 \in 1..Len(t) + 1 /\ a + 1 \in 1..Len(t) + 1 /\ m + 1 \in 1..Len(t) + 1
      /\ e + 1 \in 1..Len(t) + 1
    BY <1>1, <1>3
<1>7. Span(t, i + 2, Digit) = k
    <2>1. t[k] \in {COLON, SEMI} BY <1>4
    <2>2. At(t, k) \notin Digit BY <1>3, <1>5, <2>1, NoDigit
    <2>3. k \in i + 2..Len(t) + 1 BY <1>1, <1>3
    <2>4. IsSpan(t, i + 2, Digit, k) BY <1>4, <2>2, <2>3 DEF IsSpan
    <2> QED BY <1>6, <2>4, SpanEquals, NoDigit
<1>8. AltEnd(t, k) = a
    <2>1. CASE k = a BY <1>3, <1>4, <1>5, <2>1, NoDigit DEF AltEnd
    <2>2. CASE k # a
        <3>1. t[k] = COLON /\ Runs(t, k, a, DigitOrColon) BY <1>4, <2>2
        <3>2. At(t, a) \notin DigitOrColon BY <1>3, <1>4, <1>5, NoDigit
        <3>3. a \in k..Len(t) + 1 /\ k \in 1..Len(t) + 1 BY <1>1, <1>3
        <3>4. IsSpan(t, k, DigitOrColon, a) BY <3>1, <3>2, <3>3 DEF IsSpan
        <3>5. Span(t, k, DigitOrColon) = a BY <3>3, <3>4, SpanEquals, NoDigit
        <3> QED BY <1>3, <1>5, <3>1, <3>5 DEF AltEnd, DigitOrColon
    <2> QED BY <2>1, <2>2
<1>9. Span(t, a + 1, Digit) = m
    <2>1. t[m] \in {COLON, SEMI, LOWER_U} BY <1>4
    <2>2. At(t, m) \notin Digit BY <1>3, <1>5, <2>1, NoDigit
    <2>3. m \in a + 1..Len(t) + 1 BY <1>1, <1>3
    <2>4. IsSpan(t, a + 1, Digit, m) BY <1>4, <2>2, <2>3 DEF IsSpan
    <2> QED BY <1>6, <2>4, SpanEquals, NoDigit
<1>10. EventEnd(t, m) = e
    <2>1. CASE m = e
        <3>1. t[m] \in {SEMI, LOWER_U} BY <1>4, <2>1
        <3> QED BY <1>3, <1>5, <2>1, <3>1, NoDigit DEF EventEnd
    <2>2. CASE m # e
        <3>1. t[m] = COLON /\ Runs(t, m + 1, e, Digit) /\ m + 1 < e BY <1>4, <2>2
        <3>2. t[e] \in {SEMI, LOWER_U} BY <1>4
        <3>3. At(t, e) \notin Digit BY <1>3, <1>5, <3>2, NoDigit
        <3>4. e \in m + 1..Len(t) + 1 BY <1>1, <1>3, <3>1
        <3>5. IsSpan(t, m + 1, Digit, e) BY <3>1, <3>3, <3>4 DEF IsSpan
        <3>6. Span(t, m + 1, Digit) = e BY <1>6, <3>5, SpanEquals, NoDigit
        <3> QED BY <1>3, <1>5, <3>1, <3>6 DEF EventEnd
    <2> QED BY <2>1, <2>2
<1>11. TextEnd(t, e) = j
    <2>1. CASE e = j BY <1>3, <1>4, <1>5, <2>1, NoDigit DEF TextEnd
    <2>2. CASE e # j
        <3>1. t[e] = SEMI /\ Runs(t, e + 1, j, DigitOrColon) BY <1>4, <2>2
        <3>2. At(t, j) \notin DigitOrColon BY <1>3, <1>4, <1>5, NoDigit
        <3>3. j \in e + 1..Len(t) + 1 BY <1>1, <1>3, <2>2
        <3>4. IsSpan(t, e + 1, DigitOrColon, j) BY <3>1, <3>2, <3>3 DEF IsSpan
        <3>5. Span(t, e + 1, DigitOrColon) = j BY <1>6, <3>4, SpanEquals, NoDigit
        <3> QED BY <1>3, <1>5, <3>1, <3>5 DEF TextEnd, DigitOrColon
    <2> QED BY <2>1, <2>2
<1>12. Accepts(t, i + 2, k, a, m, e, j)
    <2>1. e = m \/ (e > m + 1 /\ Decimal(t, m + 1, e) # 3) BY <1>3, <1>4
    <2>2. k > i + 2 /\ m > a + 1 BY <1>3, <1>4
    <2> QED BY <1>3, <1>4, <1>5, <2>1, <2>2 DEF Accepts
<1>13. keypressWithMod(t, i + 2)
    BY <1>7, <1>8, <1>9, <1>10, <1>11, <1>12, KeypressFields
<1> QED BY <1>1, <1>3, <1>4, <1>13

\* Nothing else is recognised as the key.
LEMMA ScannerSound ==
    ASSUME NEW t \in Seq(Byte), NEW i \in DOMAIN t, i + 2 \in DOMAIN t,
           t[i] = ESC, t[i + 1] = LBRACKET, keypressWithMod(t, i + 2)
    PROVE  \E k, a, m, e, j : Parse(t, i, k, a, m, e, j)
<1>1. Len(t) \in Nat /\ DOMAIN t = 1..Len(t) /\ i \in Nat OBVIOUS
<1>2. PICK k : k = Span(t, i + 2, Digit) OBVIOUS
<1>3. PICK a : a = AltEnd(t, k) OBVIOUS
<1>4. PICK m : m = Span(t, a + 1, Digit) OBVIOUS
<1>5. PICK e : e = EventEnd(t, m) OBVIOUS
<1>6. PICK j : j = TextEnd(t, e) OBVIOUS
<1>7. Accepts(t, i + 2, k, a, m, e, j) BY <1>2, <1>3, <1>4, <1>5, <1>6, KeypressFields
<1>8. ASSUME NEW x, At(t, x) # 0 PROVE x \in 1..Len(t) /\ At(t, x) = t[x]
    BY <1>1, <1>8 DEF At
<1>9. COLON # 0 /\ SEMI # 0 /\ LOWER_U # 0 BY DEF COLON, SEMI, LOWER_U
<1>10. IsSpan(t, i + 2, Digit, k)
    <2>1. i + 2 \in 1..Len(t) + 1 BY <1>1
    <2> QED BY <1>2, <2>1, SpanIs, NoDigit
<1>11. k \in i + 2..Len(t) + 1 /\ Runs(t, i + 2, k, Digit) BY <1>10 DEF IsSpan
<1>12. /\ a >= k /\ a \in 1..Len(t) /\ t[a] = SEMI
       /\ k = a \/ (t[k] = COLON /\ Runs(t, k, a, DigitOrColon))
    <2>1. a \in 1..Len(t) /\ t[a] = SEMI BY <1>7, <1>8, <1>9 DEF Accepts
    <2>2. CASE At(t, k) = COLON
        <3>1. k \in 1..Len(t) /\ t[k] = COLON BY <1>8, <1>9, <2>2
        <3>2. a = Span(t, k, DigitOrColon) BY <1>3, <2>2 DEF AltEnd, DigitOrColon
        <3>3. k \in 1..Len(t) + 1 BY <1>1, <3>1
        <3>4. IsSpan(t, k, DigitOrColon, a) BY <3>2, <3>3, SpanIs, NoDigit
        <3>5. a \in k..Len(t) + 1 /\ Runs(t, k, a, DigitOrColon) BY <3>4 DEF IsSpan
        <3> QED BY <1>1, <2>1, <3>1, <3>5
    <2>3. CASE At(t, k) # COLON
        <3>1. a = k BY <1>3, <2>3 DEF AltEnd
        <3> QED BY <1>1, <1>11, <2>1, <3>1
    <2> QED BY <2>2, <2>3
<1>13. m \in a + 1..Len(t) + 1 /\ Runs(t, a + 1, m, Digit) /\ a + 1 < m
    <2>1. a + 1 \in 1..Len(t) + 1 BY <1>1, <1>12
    <2>2. IsSpan(t, a + 1, Digit, m) BY <1>4, <2>1, SpanIs, NoDigit
    <2>3. m \in a + 1..Len(t) + 1 /\ Runs(t, a + 1, m, Digit) BY <2>2 DEF IsSpan
    <2> QED BY <1>7, <1>12, <2>3 DEF Accepts
<1>14. /\ e \in m..Len(t) + 1
       /\ m = e \/ /\ m + 1 < e /\ t[m] = COLON
                   /\ Runs(t, m + 1, e, Digit) /\ Decimal(t, m + 1, e) # 3
    <2>1. CASE At(t, m) = COLON
        <3>1. m \in 1..Len(t) /\ t[m] = COLON BY <1>8, <1>9, <2>1
        <3>2. e = Span(t, m + 1, Digit) BY <1>5, <2>1 DEF EventEnd
        <3>3. m + 1 \in 1..Len(t) + 1 BY <1>1, <3>1
        <3>4. IsSpan(t, m + 1, Digit, e) BY <3>2, <3>3, SpanIs, NoDigit
        <3>5. e \in m + 1..Len(t) + 1 /\ Runs(t, m + 1, e, Digit) BY <3>4 DEF IsSpan
        <3>6. e # m BY <1>1, <3>1, <3>5
        <3>7. e > m + 1 /\ Decimal(t, m + 1, e) # 3 BY <1>7, <3>6 DEF Accepts
        <3> QED BY <1>1, <3>1, <3>5, <3>7
    <2>2. CASE At(t, m) # COLON
        <3>1. e = m BY <1>5, <2>2 DEF EventEnd
        <3> QED BY <1>1, <1>13, <1>12, <3>1
    <2> QED BY <2>1, <2>2
<1>15. /\ j \in 1..Len(t) /\ t[j] = LOWER_U /\ j >= e
       /\ e = j \/ (t[e] = SEMI /\ Runs(t, e + 1, j, DigitOrColon))
    <2>1. j \in 1..Len(t) /\ t[j] = LOWER_U BY <1>7, <1>8, <1>9 DEF Accepts
    <2>2. CASE At(t, e) = SEMI
        <3>1. e \in 1..Len(t) /\ t[e] = SEMI BY <1>8, <1>9, <2>2
        <3>2. j = Span(t, e + 1, DigitOrColon) BY <1>6, <2>2 DEF TextEnd, DigitOrColon
        <3>3. e + 1 \in 1..Len(t) + 1 BY <1>1, <3>1
        <3>4. IsSpan(t, e + 1, DigitOrColon, j) BY <3>2, <3>3, SpanIs, NoDigit
        <3>5. j \in e + 1..Len(t) + 1 /\ Runs(t, e + 1, j, DigitOrColon) BY <3>4 DEF IsSpan
        <3> QED BY <1>1, <2>1, <3>1, <3>5
    <2>3. CASE At(t, e) # SEMI
        <3>1. j = e BY <1>6, <2>3 DEF TextEnd
        <3> QED BY <1>1, <2>1, <3>1
    <2> QED BY <2>2, <2>3
<1>16. k > i + 2 /\ Decimal(t, i + 2, k) = 92 /\ Decimal(t, a + 1, m) >= 1
       /\ (Decimal(t, a + 1, m) - 1) % 64 = 4
    BY <1>7 DEF Accepts
<1>17. /\ k \in i + 2..j /\ a \in k..j - 1 /\ m \in a + 1..j /\ e \in m..j /\ j \in DOMAIN t
    BY <1>1, <1>11, <1>12, <1>13, <1>14, <1>15
<1>18. i + 2 < k BY <1>1, <1>11, <1>16
<1>19. Parse(t, i, k, a, m, e, j)
    BY <1>12, <1>13, <1>14, <1>15, <1>16, <1>17, <1>18, <1>11, ParseBytes, SMTT(30)
<1> QED BY <1>19

-----------------------------------------------------------------------------
(* Presses within the input.                                               *)

\* A press of the key from byte i to byte j of t.
Press(t, i, j) == IsKeypress(SubSeq(t, i, j))

\* Sequences of the same bytes are the same.
LEMMA SameBytes ==
    ASSUME NEW f \in Seq(Byte), NEW g \in Seq(Byte), Len(f) = Len(g),
           \A x \in 1..Len(f) : f[x] = g[x]
    PROVE  f = g
    OBVIOUS

\* What the window from i to j of t holds.
LEMMA WindowIs ==
    ASSUME NEW t \in Seq(Byte), NEW i \in DOMAIN t, NEW j \in i..Len(t)
    PROVE  /\ SubSeq(t, i, j) \in Seq(Byte) /\ Len(SubSeq(t, i, j)) = j - i + 1
           /\ \A x \in 1..j - i + 1 : SubSeq(t, i, j)[x] = t[x + (i - 1)]
<1>1. Len(t) \in Nat /\ DOMAIN t = 1..Len(t) OBVIOUS
<1>2. i \in 1..Len(t) + 1 /\ j + 1 \in i..Len(t) + 1 /\ (j + 1) - 1 = j /\ (j + 1) - i = j - i + 1
    BY <1>1
<1>3. PICK q : q = j + 1 OBVIOUS
<1>4. /\ SubSeq(t, i, q - 1) \in Seq(Byte) /\ Len(SubSeq(t, i, q - 1)) = q - i
      /\ \A x \in 1..q - i : SubSeq(t, i, q - 1)[x] = t[i + x - 1]
    BY <1>2, <1>3, FieldIs
<1>5. \A x \in Int : i + x - 1 = x + (i - 1) BY <1>1
<1>6. q - 1 = j /\ q - i = j - i + 1 BY <1>2, <1>3
<1>7. \A x \in 1..j - i + 1 : x \in Int BY <1>1
<1> QED BY <1>4, <1>5, <1>6, <1>7

\* w is the window of t from i to j, where t numbers the bytes of w i - 1 higher.
IsWindow(t, i, j, w) == i \in DOMAIN t /\ j \in i..Len(t) /\ w = SubSeq(t, i, j)
Moved(i, x, y) == y = x + (i - 1)
Field(s, p, q) == SubSeq(s, p, q - 1)
InField(p, q, n) == p \in Nat /\ q \in Nat /\ 1 <= p /\ p <= q /\ q <= n + 1

\* A field of the window is a field of t.
LEMMA WindowField ==
    ASSUME NEW t \in Seq(Byte), NEW i, NEW j, NEW w, IsWindow(t, i, j, w),
           NEW p, NEW q, InField(p, q, j - i + 1), NEW P, Moved(i, p, P), NEW Q, Moved(i, q, Q)
    PROVE  Field(w, p, q) = Field(t, P, Q)
<1>1. /\ Len(t) \in Nat /\ DOMAIN t = 1..Len(t) /\ i \in Nat /\ j \in Nat /\ p \in Nat /\ q \in Nat
      /\ 1 <= i /\ i <= j /\ j <= Len(t) /\ 1 <= p /\ p <= q /\ q <= j - i + 2
      /\ i \in DOMAIN t /\ j \in i..Len(t) /\ w = SubSeq(t, i, j)
      /\ P = p + (i - 1) /\ Q = q + (i - 1)
    BY SMTT(30) DEF IsWindow, Moved, InField
<1>5. w \in Seq(Byte) /\ Len(w) = j - i + 1 /\ \A x \in 1..j - i + 1 : w[x] = t[x + (i - 1)]
    BY <1>1, WindowIs
<1>6. p \in 1..Len(w) + 1 /\ q \in p..Len(w) + 1 /\ P \in 1..Len(t) + 1 /\ Q \in P..Len(t) + 1
    BY <1>1, <1>5, SMTT(30)
<1>7. /\ SubSeq(w, p, q - 1) \in Seq(Byte) /\ Len(SubSeq(w, p, q - 1)) = q - p
      /\ \A x \in 1..q - p : SubSeq(w, p, q - 1)[x] = w[p + x - 1]
    BY <1>5, <1>6, FieldBytes
<1>8. /\ SubSeq(t, P, Q - 1) \in Seq(Byte) /\ Len(SubSeq(t, P, Q - 1)) = Q - P
      /\ \A x \in 1..Q - P : SubSeq(t, P, Q - 1)[x] = t[P + x - 1]
    BY <1>6, FieldBytes
<1>9. Q - P = q - p BY <1>1, SMTT(30)
<1>10. PICK f : f = SubSeq(w, p, q - 1) OBVIOUS
<1>11. PICK g : g = SubSeq(t, P, Q - 1) OBVIOUS
<1>12. ASSUME NEW x \in 1..q - p PROVE f[x] = g[x]
    <2>1. p + x - 1 \in 1..j - i + 1 /\ (p + x - 1) + (i - 1) = P + x - 1 BY <1>1, <1>12, SMTT(30)
    <2>2. f[x] = w[p + x - 1] BY <1>7, <1>10
    <2>3. w[p + x - 1] = t[P + x - 1] BY <1>5, <2>1
    <2>4. g[x] = t[P + x - 1] BY <1>8, <1>9, <1>11
    <2> QED BY <2>2, <2>3, <2>4
<1>13. f \in Seq(Byte) /\ g \in Seq(Byte) /\ Len(f) = q - p /\ Len(g) = q - p
    BY <1>7, <1>8, <1>9, <1>10, <1>11
<1>14. q - p \in Nat /\ Len(f) = Len(g) BY <1>1, <1>13
<1>15. \A x \in 1..Len(f) : f[x] = g[x] BY <1>12, <1>13
<1>16. f = g BY <1>13, <1>14, <1>15, SameBytes
<1> QED BY <1>10, <1>11, <1>16, Zenon DEF Field

\* The reference, with the window it is asked of cut from t: a CSI u press is one
\* that Parse describes.
CsiPress(t, i, j) == \E k, a, m, e : Parse(t, i, k, a, m, e, j)

\* The reference's own description, of the whole of w.
Spells(w, k, a, m, e) ==
    /\ w[1] = ESC /\ w[2] = LBRACKET /\ w[Len(w)] = LOWER_U /\ w[a] = SEMI
    /\ Key(SubSeq(w, 3, k - 1)) /\ Alternates(SubSeq(w, k, a - 1))
    /\ CtrlModifier(SubSeq(w, a + 1, m - 1))
    /\ Event(SubSeq(w, m, e - 1)) /\ Text(SubSeq(w, e, Len(w) - 1))

\* The two descriptions agree.
LEMMA WindowParses ==
    ASSUME NEW t \in Seq(Byte), NEW i \in DOMAIN t, NEW j \in i..Len(t),
           NEW w, w = SubSeq(t, i, j),
           NEW k \in 3..j - i + 1, NEW a \in k..j - i, NEW m \in a + 1..j - i + 1,
           NEW e \in m..j - i + 1
    PROVE  Parse(t, i, k + (i - 1), a + (i - 1), m + (i - 1), e + (i - 1), j) <=>
             Spells(w, k, a, m, e)
<1>1. /\ Len(t) \in Nat /\ DOMAIN t = 1..Len(t) /\ i \in Nat /\ j \in Nat
      /\ 1 <= i /\ i <= j /\ j <= Len(t)
    OBVIOUS
<1>2. /\ k \in Nat /\ a \in Nat /\ m \in Nat /\ e \in Nat /\ j \in DOMAIN t
      /\ 3 <= k /\ k <= a /\ a <= j - i /\ a + 1 <= m /\ m <= e /\ e <= j - i + 1
    BY <1>1
<1>3. w \in Seq(Byte) /\ Len(w) = j - i + 1 /\ \A x \in 1..j - i + 1 : w[x] = t[x + (i - 1)]
    BY WindowIs
<1>4. PICK K \in Nat : K = k + (i - 1) BY <1>1, <1>2
<1>5. PICK A \in Nat : A = a + (i - 1) BY <1>1, <1>2
<1>6. PICK M \in Nat : M = m + (i - 1) BY <1>1, <1>2
<1>7. PICK E \in Nat : E = e + (i - 1) BY <1>1, <1>2
<1>8. K \in i + 2..j /\ A \in K..j - 1 /\ M \in A + 1..j /\ E \in M..j
    <2>2. i + 2 <= K /\ K <= A BY <1>1, <1>2, <1>4, <1>5, SMTT(30)
    <2>3. A <= j - 1 /\ A + 1 <= M BY <1>1, <1>2, <1>5, <1>6, SMTT(30)
    <2>4. M <= E /\ E <= j BY <1>1, <1>2, <1>6, <1>7, SMTT(30)
    <2> QED BY <1>1, <2>2, <2>3, <2>4
<1>9. w[1] = t[i] /\ w[2] = t[i + 1] /\ w[j - i + 1] = t[j] /\ w[a] = t[A]
    <2>1. 1 \in 1..j - i + 1 /\ 1 + (i - 1) = i BY <1>1, <1>2
    <2>2. 2 \in 1..j - i + 1 /\ 2 + (i - 1) = i + 1 BY <1>1, <1>2
    <2>3. j - i + 1 \in 1..j - i + 1 /\ (j - i + 1) + (i - 1) = j BY <1>1, <1>2
    <2>4. a \in 1..j - i + 1 BY <1>1, <1>2
    <2> QED BY <1>3, <1>5, <2>1, <2>2, <2>3, <2>4
<1>10. IsWindow(t, i, j, w) BY DEF IsWindow
<1>11. /\ Moved(i, 3, i + 2) /\ Moved(i, k, K) /\ Moved(i, a, A) /\ Moved(i, a + 1, A + 1)
       /\ Moved(i, m, M) /\ Moved(i, e, E) /\ Moved(i, j - i + 1, j)
    <2>1. Moved(i, 3, i + 2) /\ Moved(i, j - i + 1, j) BY <1>1 DEF Moved
    <2>2. Moved(i, a + 1, A + 1) BY <1>1, <1>2, <1>5, SMTT(30) DEF Moved
    <2> QED BY <1>4, <1>5, <1>6, <1>7, <2>1, <2>2 DEF Moved
<1>12. /\ InField(3, k, j - i + 1) /\ InField(k, a, j - i + 1) /\ InField(a + 1, m, j - i + 1)
       /\ InField(m, e, j - i + 1) /\ InField(e, j - i + 1, j - i + 1)
    BY <1>1, <1>2 DEF InField
<1>13. Field(w, 3, k) = Field(t, i + 2, K) BY <1>10, <1>11, <1>12, WindowField
<1>14. /\ Field(w, k, a) = Field(t, K, A) /\ Field(w, a + 1, m) = Field(t, A + 1, M)
       /\ Field(w, m, e) = Field(t, M, E) /\ Field(w, e, j - i + 1) = Field(t, E, j)
    BY <1>10, <1>11, <1>12, WindowField
<1>15. (j - i + 1) - 1 = j - i BY <1>1
<1>16. /\ SubSeq(w, 3, k - 1) = SubSeq(t, i + 2, K - 1)
       /\ SubSeq(w, k, a - 1) = SubSeq(t, K, A - 1)
       /\ SubSeq(w, a + 1, m - 1) = SubSeq(t, A + 1, M - 1)
       /\ SubSeq(w, m, e - 1) = SubSeq(t, M, E - 1)
       /\ SubSeq(w, e, j - i) = SubSeq(t, E, j - 1)
    BY <1>13, <1>14, <1>15, Zenon DEF Field
<1>17. Len(w) = j - i + 1 /\ Len(w) - 1 = j - i BY <1>3, <1>15
<1>18. Spells(w, k, a, m, e) <=>
             /\ w[1] = ESC /\ w[2] = LBRACKET /\ w[j - i + 1] = LOWER_U /\ w[a] = SEMI
             /\ Key(SubSeq(w, 3, k - 1)) /\ Alternates(SubSeq(w, k, a - 1))
             /\ CtrlModifier(SubSeq(w, a + 1, m - 1))
             /\ Event(SubSeq(w, m, e - 1)) /\ Text(SubSeq(w, e, j - i))
    BY <1>17, Zenon DEF Spells
<1>19. Parse(t, i, K, A, M, E, j) <=>
             /\ w[1] = ESC /\ w[2] = LBRACKET /\ w[j - i + 1] = LOWER_U /\ w[a] = SEMI
             /\ Key(SubSeq(w, 3, k - 1)) /\ Alternates(SubSeq(w, k, a - 1))
             /\ CtrlModifier(SubSeq(w, a + 1, m - 1))
             /\ Event(SubSeq(w, m, e - 1)) /\ Text(SubSeq(w, e, j - i))
    BY <1>2, <1>8, <1>9, <1>16, Zenon DEF Parse
<1> QED BY <1>4, <1>5, <1>6, <1>7, <1>18, <1>19, Zenon

\* A press is the raw control byte or a CSI u form that Parse describes.
LEMMA PressIs ==
    ASSUME NEW t \in Seq(Byte), NEW i \in DOMAIN t, NEW j \in i..Len(t)
    PROVE  Press(t, i, j) <=> (i = j /\ t[i] = FS) \/ CsiPress(t, i, j)
<1>1. /\ Len(t) \in Nat /\ DOMAIN t = 1..Len(t) /\ i \in Nat /\ j \in Nat
      /\ 1 <= i /\ i <= j /\ j <= Len(t)
    OBVIOUS
<1>2. PICK w : w = SubSeq(t, i, j) OBVIOUS
<1>3. w \in Seq(Byte) /\ Len(w) = j - i + 1 /\ \A x \in 1..j - i + 1 : w[x] = t[x + (i - 1)]
    BY <1>2, WindowIs
<1>4. w = <<FS>> <=> i = j /\ t[i] = FS
    <2>1. ASSUME i = j PROVE Len(w) = 1 /\ w[1] = t[i]
        <3>1. 1 \in 1..j - i + 1 /\ 1 + (i - 1) = i /\ j - i + 1 = 1 BY <1>1, <2>1
        <3> QED BY <1>3, <3>1
    <2>2. ASSUME w = <<FS>> PROVE i = j
        <3>1. Len(w) = 1 BY <2>2
        <3>2. j - i + 1 = 1 BY <1>3, <3>1
        <3> QED BY <1>1, <3>2
    <2>3. ASSUME Len(w) = 1, w[1] = FS PROVE w = <<FS>>
        <3>1. PICK v : v = <<FS>> OBVIOUS
        <3>2. v \in Seq(Byte) /\ Len(v) = 1 /\ v[1] = FS BY <3>1 DEF FS, Byte
        <3>3. \A x \in 1..1 : w[x] = v[x] BY <2>3, <3>2
        <3>4. w = v BY <1>3, <2>3, <3>2, <3>3
        <3> QED BY <3>1, <3>4
    <2>4. w = <<FS>> => w[1] = FS OBVIOUS
    <2> QED BY <2>1, <2>2, <2>3, <2>4
<1>5. ASSUME w # <<FS>>, IsKeypress(w) PROVE CsiPress(t, i, j)
    <2>1. Len(w) > 2 /\ w[1] = ESC /\ w[2] = LBRACKET /\ w[Len(w)] = LOWER_U
        BY <1>5, Zenon DEF IsKeypress
    <2>2. PICK k, a, m, e :
             /\ k \in 3..Len(w) /\ a \in k..Len(w) - 1 /\ m \in a + 1..Len(w) /\ e \in m..Len(w)
             /\ Key(SubSeq(w, 3, k - 1))
             /\ Alternates(SubSeq(w, k, a - 1)) /\ w[a] = SEMI
             /\ CtrlModifier(SubSeq(w, a + 1, m - 1))
             /\ Event(SubSeq(w, m, e - 1))
             /\ Text(SubSeq(w, e, Len(w) - 1))
        BY <1>5, Zenon DEF IsKeypress
    <2>3. Spells(w, k, a, m, e) BY <2>1, <2>2, Zenon DEF Spells
    <2>4. k \in 3..j - i + 1 /\ a \in k..j - i /\ m \in a + 1..j - i + 1 /\ e \in m..j - i + 1
        BY <1>1, <1>3, <2>2, SMTT(30)
    <2>5. Parse(t, i, k + (i - 1), a + (i - 1), m + (i - 1), e + (i - 1), j)
        BY <1>2, <2>3, <2>4, WindowParses
    <2> QED BY <2>5 DEF CsiPress
<1>6. ASSUME CsiPress(t, i, j) PROVE IsKeypress(w)
    <2>1. PICK K, A, M, E : Parse(t, i, K, A, M, E, j) BY <1>6 DEF CsiPress
    <2>2. K \in i + 2..j /\ A \in K..j - 1 /\ M \in A + 1..j /\ E \in M..j BY <2>1 DEF Parse
    <2>2a. /\ K \in Nat /\ A \in Nat /\ M \in Nat /\ E \in Nat
          /\ i + 2 <= K /\ K <= A /\ A <= j - 1 /\ A + 1 <= M /\ M <= E /\ E <= j
        BY <1>1, <2>2
    <2>3. PICK k \in Nat : k + (i - 1) = K
        <3>1. K - (i - 1) \in Nat /\ (K - (i - 1)) + (i - 1) = K BY <1>1, <2>2a
        <3> QED BY <3>1
    <2>4. PICK a \in Nat : a + (i - 1) = A
        <3>1. A - (i - 1) \in Nat /\ (A - (i - 1)) + (i - 1) = A BY <1>1, <2>2a
        <3> QED BY <3>1
    <2>5. PICK m \in Nat : m + (i - 1) = M
        <3>1. M - (i - 1) \in Nat /\ (M - (i - 1)) + (i - 1) = M BY <1>1, <2>2a
        <3> QED BY <3>1
    <2>6. PICK e \in Nat : e + (i - 1) = E
        <3>1. E - (i - 1) \in Nat /\ (E - (i - 1)) + (i - 1) = E BY <1>1, <2>2a
        <3> QED BY <3>1
    <2>7. /\ k \in 3..j - i + 1 /\ a \in k..j - i /\ m \in a + 1..j - i + 1 /\ e \in m..j - i + 1
          /\ k + (i - 1) = K /\ a + (i - 1) = A /\ m + (i - 1) = M /\ e + (i - 1) = E
        <3>1. 3 <= k /\ k <= a BY <1>1, <2>2a, <2>3, <2>4
        <3>2. a <= j - i /\ a + 1 <= m BY <1>1, <2>2a, <2>4, <2>5
        <3>3. m <= e /\ e <= j - i + 1 BY <1>1, <2>2a, <2>5, <2>6
        <3> QED BY <1>1, <2>3, <2>4, <2>5, <2>6, <3>1, <3>2, <3>3
    <2>8. Parse(t, i, k + (i - 1), a + (i - 1), m + (i - 1), e + (i - 1), j)
        BY <2>1, <2>7, Zenon
    <2>9. Spells(w, k, a, m, e) BY <1>2, <2>7, <2>8, WindowParses
    <2>10. /\ k \in 3..Len(w) /\ a \in k..Len(w) - 1 /\ m \in a + 1..Len(w) /\ e \in m..Len(w)
           /\ Len(w) > 2
        BY <1>1, <1>3, <2>7
    <2> QED BY <2>9, <2>10, Zenon DEF IsKeypress, Spells
<1>7. w = <<FS>> => IsKeypress(w) BY DEF IsKeypress
<1> QED BY <1>2, <1>4, <1>5, <1>6, <1>7 DEF Press

\* feed sees a press exactly when its buffer holds one.
LEMMA Detects ==
    ASSUME NEW t \in Seq(Byte)
    PROVE  isCtrlBackslash(t) <=> \E i \in DOMAIN t : \E j \in i..Len(t) : Press(t, i, j)
<1>1. Len(t) \in Nat /\ DOMAIN t = 1..Len(t) OBVIOUS
<1>2. ASSUME NEW i \in DOMAIN t, t[i] = FS PROVE \E j \in i..Len(t) : Press(t, i, j)
    <2>1. i \in i..Len(t) BY <1>1
    <2> QED BY <1>2, <2>1, PressIs
<1>3. ASSUME NEW i \in DOMAIN t, i + 2 \in DOMAIN t, t[i] = ESC, t[i + 1] = LBRACKET,
             keypressWithMod(t, i + 2)
      PROVE  \E j \in i..Len(t) : Press(t, i, j)
    <2>1. PICK k, a, m, e, j : Parse(t, i, k, a, m, e, j) BY <1>3, ScannerSound
    <2>2. j \in DOMAIN t /\ k \in i + 2..j BY <2>1 DEF Parse
    <2>3. j \in i..Len(t) BY <1>1, <2>2
    <2>4. CsiPress(t, i, j) BY <2>1 DEF CsiPress
    <2>5. Press(t, i, j) BY <2>3, <2>4, PressIs
    <2> QED BY <2>3, <2>5
<1>4. ASSUME NEW i \in DOMAIN t, NEW j \in i..Len(t), Press(t, i, j)
      PROVE  t[i] = FS \/ /\ i + 2 \in DOMAIN t /\ t[i] = ESC /\ t[i + 1] = LBRACKET
                          /\ keypressWithMod(t, i + 2)
    <2>1. CASE t[i] = FS BY <2>1
    <2>2. CASE t[i] # FS
        <3>1. PICK k, a, m, e : Parse(t, i, k, a, m, e, j)
            BY <1>4, <2>2, PressIs DEF CsiPress
        <3>2. i + 2 \in DOMAIN t /\ keypressWithMod(t, i + 2) BY <3>1, ScannerAccepts
        <3>3. t[i] = ESC /\ t[i + 1] = LBRACKET BY <3>1 DEF Parse
        <3> QED BY <3>2, <3>3
    <2> QED BY <2>1, <2>2
<1> QED BY <1>2, <1>3, <1>4 DEF isCtrlBackslash

\* A press has no ESC but its first byte.
LEMMA NoEscInside ==
    ASSUME NEW t \in Seq(Byte), NEW i \in DOMAIN t, NEW j \in i..Len(t), Press(t, i, j),
           NEW x \in i + 1..j
    PROVE  t[x] # ESC
<1>1. Len(t) \in Nat /\ DOMAIN t = 1..Len(t) /\ i \in Nat /\ j \in Nat /\ x \in Nat OBVIOUS
<1>2. i # j BY <1>1
<1>3. PICK k, a, m, e : Parse(t, i, k, a, m, e, j) BY <1>2, PressIs DEF CsiPress
<1>4. /\ i \in DOMAIN t /\ j \in DOMAIN t
      /\ k \in i + 2..j /\ a \in k..j - 1 /\ m \in a + 1..j /\ e \in m..j
    BY <1>3 DEF Parse
<1>5. k \in Nat /\ a \in Nat /\ m \in Nat /\ e \in Nat BY <1>1, <1>4
<1>6. /\ t[i + 1] = LBRACKET /\ t[a] = SEMI /\ t[j] = LOWER_U
      /\ Runs(t, i + 2, k, Digit)
      /\ k = a \/ Runs(t, k, a, DigitOrColon)
      /\ Runs(t, a + 1, m, Digit)
      /\ m = e \/ (t[m] = COLON /\ Runs(t, m + 1, e, Digit))
      /\ e = j \/ (t[e] = SEMI /\ Runs(t, e + 1, j, DigitOrColon))
    <2>1. /\ t[i] = ESC /\ t[i + 1] = LBRACKET /\ t[a] = SEMI /\ t[j] = LOWER_U
          /\ i + 2 < k /\ Runs(t, i + 2, k, Digit) /\ Decimal(t, i + 2, k) = 92
          /\ k = a \/ (t[k] = COLON /\ Runs(t, k, a, DigitOrColon))
          /\ a + 1 < m /\ Runs(t, a + 1, m, Digit)
          /\ Decimal(t, a + 1, m) >= 1 /\ (Decimal(t, a + 1, m) - 1) % 64 = 4
          /\ m = e \/ /\ m + 1 < e /\ t[m] = COLON
                      /\ Runs(t, m + 1, e, Digit) /\ Decimal(t, m + 1, e) # 3
          /\ e = j \/ (t[e] = SEMI /\ Runs(t, e + 1, j, DigitOrColon))
        BY <1>3, <1>4, ParseBytes, ZenonT(20)
    <2> QED BY <2>1, ZenonT(20)
<1>7. ESC \notin Digit /\ ESC \notin DigitOrColon BY NoDigit
<1>8. CASE x < a
    <2>1. CASE x = i + 1 BY <1>6, <2>1, NoDigit
    <2>2. CASE x \in i + 2..k - 1 BY <1>6, <1>7, <2>2 DEF Runs
    <2>3. CASE x \in k..a - 1
        <3>1. k # a BY <1>5, <2>3
        <3> QED BY <1>6, <1>7, <2>3, <3>1 DEF Runs
    <2> QED BY <1>1, <1>5, <1>8, <2>1, <2>2, <2>3
<1>9. CASE x = a BY <1>6, <1>9, NoDigit
<1>10. CASE x > a
    <2>1. CASE x \in a + 1..m - 1 BY <1>6, <1>7, <2>1 DEF Runs
    <2>2. CASE x \in m..e - 1
        <3>1. m # e BY <1>5, <2>2
        <3>2. CASE x = m BY <1>6, <3>1, <3>2 DEF ESC, COLON
        <3>3. CASE x # m
            <4>1. x \in m + 1..e - 1 BY <1>1, <1>5, <2>2, <3>3
            <4> QED BY <1>6, <1>7, <3>1, <4>1 DEF Runs
        <3> QED BY <3>2, <3>3
    <2>3. CASE x \in e..j - 1
        <3>1. e # j BY <1>1, <1>5, <2>3
        <3>2. CASE x = e BY <1>6, <3>1, <3>2, NoDigit
        <3>3. CASE x # e
            <4>1. x \in e + 1..j - 1 BY <1>1, <1>5, <2>3, <3>3
            <4> QED BY <1>6, <1>7, <3>1, <4>1 DEF Runs
        <3> QED BY <3>2, <3>3
    <2>4. CASE x = j BY <1>6, <2>4, NoDigit
    <2> QED BY <1>1, <1>5, <1>10, <2>1, <2>2, <2>3, <2>4
<1> QED BY <1>1, <1>5, <1>8, <1>9, <1>10

\* A press of more than a byte has at least six, and begins ESC [.
LEMMA PressLength ==
    ASSUME NEW t \in Seq(Byte), NEW i \in DOMAIN t, NEW j \in i..Len(t), Press(t, i, j), i < j
    PROVE  i + 5 <= j /\ t[i] = ESC /\ t[i + 1] = LBRACKET
<1>1. Len(t) \in Nat /\ DOMAIN t = 1..Len(t) /\ i \in Nat /\ j \in Nat OBVIOUS
<1>2. i # j BY <1>1
<1>3. PICK k, a, m, e : Parse(t, i, k, a, m, e, j) BY <1>2, PressIs DEF CsiPress
<1>4. /\ i \in DOMAIN t /\ j \in DOMAIN t
      /\ k \in i + 2..j /\ a \in k..j - 1 /\ m \in a + 1..j /\ e \in m..j
    BY <1>3 DEF Parse
<1>5. i + 2 < k /\ a + 1 < m /\ t[i] = ESC /\ t[i + 1] = LBRACKET BY <1>3, <1>4, ParseBytes
<1>6. k \in Nat /\ a \in Nat /\ m \in Nat /\ i + 3 <= k /\ k <= a /\ a + 2 <= m /\ m <= j
    BY <1>1, <1>4, <1>5
<1> QED BY <1>1, <1>5, <1>6

\* The bytes of a sequence that agrees with the start of another.
LEMMA PrefixIs ==
    ASSUME NEW f \in Seq(Byte), NEW g \in Seq(Byte), Len(f) <= Len(g),
           \A x \in 1..Len(f) : f[x] = g[x]
    PROVE  IsPrefix(f, g)
<1>1. Len(f) \in Nat /\ Len(g) \in Nat OBVIOUS
<1>2. PICK u : u = SubSeq(f, 1, Len(f)) OBVIOUS
<1>3. PICK v : v = SubSeq(g, 1, Len(f)) OBVIOUS
<1>4. u \in Seq(Byte) /\ Len(u) = Len(f) /\ \A x \in 1..Len(f) : u[x] = f[x] BY <1>1, <1>2
<1>5. v \in Seq(Byte) /\ Len(v) = Len(f) /\ \A x \in 1..Len(f) : v[x] = g[x] BY <1>1, <1>3
<1>6. \A x \in 1..Len(u) : u[x] = v[x] BY <1>4, <1>5
<1>7. Len(u) = Len(v) BY <1>4, <1>5
<1>8. u = v BY <1>4, <1>5, <1>6, <1>7, SameBytes
<1> QED BY <1>2, <1>3, <1>8 DEF IsPrefix

\* And it says no less.
LEMMA PrefixSays ==
    ASSUME NEW f \in Seq(Byte), NEW g \in Seq(Byte), IsPrefix(f, g)
    PROVE  Len(f) <= Len(g) /\ \A x \in 1..Len(f) : f[x] = g[x]
<1>1. Len(f) \in Nat /\ Len(g) \in Nat OBVIOUS
<1>2. Len(f) <= Len(g) /\ SubSeq(f, 1, Len(f)) = SubSeq(g, 1, Len(f)) BY DEF IsPrefix
<1>3. PICK u : u = SubSeq(f, 1, Len(f)) OBVIOUS
<1>4. PICK v : v = SubSeq(g, 1, Len(f)) OBVIOUS
<1>5. \A x \in 1..Len(f) : u[x] = f[x] BY <1>1, <1>3
<1>6. \A x \in 1..Len(f) : v[x] = g[x] BY <1>1, <1>2, <1>4
<1> QED BY <1>2, <1>3, <1>4, <1>5, <1>6

\* ctrlBackslashPrefix of a sequence that begins ESC [ 9 2 and : or ;, or of the
\* first bytes of one.
Begins(s, c) ==
    /\ \A x \in 1..Len(s) : x = 2 => s[x] = LBRACKET
    /\ \A x \in 1..Len(s) : x = 3 => s[x] = 57
    /\ \A x \in 1..Len(s) : x = 4 => s[x] = 50
    /\ \A x \in 1..Len(s) : x = 5 => s[x] = c

\* Such a sequence is held back.
LEMMA BeginsIsHeld ==
    ASSUME NEW s \in Seq(Byte), Len(s) >= 1, NEW c \in {COLON, SEMI}, Begins(s, c)
    PROVE  ctrlBackslashPrefix(s)
<1>1. Len(s) \in Nat /\ DOMAIN s = 1..Len(s) OBVIOUS
<1>2. CASE Len(s) = 1 BY <1>2 DEF ctrlBackslashPrefix
<1>3. CASE Len(s) >= 2
    <2>1. s[2] = LBRACKET
        <3>1. 2 \in 1..Len(s) BY <1>1, <1>3
        <3> QED BY <3>1 DEF Begins
    <2>2. PICK v : v = <<57, 50>> OBVIOUS
    <2>3. v \in Seq(Byte) /\ Len(v) = 2 /\ v[1] = 57 /\ v[2] = 50 BY <2>2 DEF Byte
    <2>4. PICK i : i = Span(s, 3, Digit) OBVIOUS
    <2>5. PICK f : f = SubSeq(s, 3, i - 1) OBVIOUS
    <2>6. 3 \in 1..Len(s) + 1 BY <1>1, <1>3
    <2>7. 57 \in Digit /\ 50 \in Digit BY DEF Digit
    <2>8. ASSUME NEW q \in 3..Len(s) + 1, q <= 5 PROVE Runs(s, 3, q, Digit)
        <3>1. ASSUME NEW x \in 3..q - 1 PROVE s[x] \in Digit
            <4>1. x \in 1..Len(s) /\ (x = 3 \/ x = 4) BY <1>1, <2>8, <3>1
            <4> QED BY <2>7, <4>1 DEF Begins
        <3> QED BY <3>1 DEF Runs
    <2>9. ASSUME i \in 3..Len(s) + 1, i <= 5
          PROVE  /\ f \in Seq(Byte) /\ Len(f) = i - 3 /\ Len(f) <= Len(v)
                 /\ \A x \in 1..Len(f) : f[x] = v[x]
        <3>1. i \in Nat /\ i <= Len(s) + 1 /\ 3 <= i BY <1>1, <2>9
        <3>2. f \in Seq(Byte) /\ Len(f) = i - 3 /\ \A x \in 1..i - 3 : f[x] = s[3 + x - 1]
            BY <2>5, <2>6, <2>9, FieldIs
        <3>3. ASSUME NEW x \in 1..i - 3 PROVE f[x] = v[x]
            <4>1. x = 1 \/ x = 2 BY <2>9, <3>1, <3>3
            <4>2. CASE x = 1
                <5>1. 3 \in 1..Len(s) /\ 3 + 1 - 1 = 3 BY <1>1, <3>1, <3>3
                <5> QED BY <2>3, <3>2, <4>2, <5>1 DEF Begins
            <4>3. CASE x = 2
                <5>1. 4 \in 1..Len(s) /\ 3 + 2 - 1 = 4 BY <1>1, <3>1, <3>3, <4>3
                <5> QED BY <2>3, <3>2, <4>3, <5>1 DEF Begins
            <4> QED BY <4>1, <4>2, <4>3
        <3>4. Len(f) <= Len(v) BY <2>3, <2>9, <3>1, <3>2
        <3> QED BY <3>2, <3>3, <3>4
    <2>10. CASE Len(s) <= 4
        <3>1. Len(s) + 1 \in 3..Len(s) + 1 /\ Len(s) + 1 <= 5 /\ Len(s) + 1 \notin DOMAIN s
            BY <1>1, <1>3, <2>10
        <3>2. At(s, Len(s) + 1) \notin Digit BY <3>1, NoDigit DEF At
        <3>3. IsSpan(s, 3, Digit, Len(s) + 1) BY <2>8, <3>1, <3>2 DEF IsSpan
        <3>4. i = Len(s) + 1 BY <2>4, <2>6, <3>3, SpanEquals, NoDigit
        <3>5. IsPrefix(f, v) BY <2>3, <2>9, <3>1, <3>4, PrefixIs
        <3>6. i > Len(s) BY <1>1, <3>4
        <3> QED BY <2>1, <2>2, <2>4, <2>5, <3>5, <3>6, Zenon DEF ctrlBackslashPrefix
    <2>11. CASE Len(s) >= 5
        <3>1. 5 \in 3..Len(s) + 1 /\ 5 \in 1..Len(s) BY <1>1, <2>11
        <3>2. s[5] = c BY <3>1 DEF Begins
        <3>3. At(s, 5) \notin Digit BY <1>1, <3>1, <3>2, NoDigit DEF At
        <3>4. IsSpan(s, 3, Digit, 5) BY <2>8, <3>1, <3>3 DEF IsSpan
        <3>5. i = 5 BY <2>4, <2>6, <3>4, SpanEquals, NoDigit
        <3>6. f \in Seq(Byte) /\ Len(f) = Len(v) /\ \A x \in 1..Len(f) : f[x] = v[x]
            BY <2>3, <2>9, <3>1, <3>5
        <3>7. f = v BY <2>3, <3>6, SameBytes
        <3>8. i <= Len(s) /\ s[i] \in {COLON, SEMI} BY <2>11, <3>2, <3>5
        <3> QED BY <2>1, <2>2, <2>4, <2>5, <3>7, <3>8, Zenon DEF ctrlBackslashPrefix
    <2> QED BY <1>1, <2>10, <2>11
<1> QED BY <1>1, <1>2, <1>3

\* The first bytes of a press whose rest has not arrived are held back.
LEMMA PressIsHeld ==
    ASSUME PlainKeypresses, NEW t \in Inputs, t \in Seq(Byte), NEW i \in DOMAIN t,
           NEW j \in i..Len(t), Press(t, i, j), NEW g \in i..j - 1
    PROVE  t[i] = ESC /\ ctrlBackslashPrefix(SubSeq(t, i, g))
<1>1. /\ Len(t) \in Nat /\ DOMAIN t = 1..Len(t) /\ i \in Nat /\ j \in Nat /\ g \in Nat
      /\ i <= g /\ g < j /\ j <= Len(t) /\ 1 <= i
    OBVIOUS
<1>2. i < j /\ i \in DOMAIN t /\ j \in DOMAIN t BY <1>1
<1>3. PICK c \in {COLON, SEMI} : SubSeq(t, i, i + 4) = <<ESC, LBRACKET, 57, 50, c>>
    BY <1>2 DEF PlainKeypresses, Press
<1>4. i + 5 <= j /\ t[i] = ESC /\ t[i + 1] = LBRACKET BY <1>2, PressLength
<1>5. PICK b : b = SubSeq(t, i, i + 4) OBVIOUS
<1>6. i + 4 \in i..Len(t) /\ (i + 4) - i + 1 = 5 BY <1>1, <1>4
<1>7. \A x \in 1..5 : b[x] = t[x + (i - 1)] BY <1>5, <1>6, WindowIs
<1>8. b[3] = 57 /\ b[4] = 50 /\ b[5] = c
    <2>1. b = <<ESC, LBRACKET, 57, 50, c>> BY <1>3, <1>5, Zenon
    <2>2. <<ESC, LBRACKET, 57, 50, c>>[3] = 57 OBVIOUS
    <2>3. <<ESC, LBRACKET, 57, 50, c>>[4] = 50 OBVIOUS
    <2>4. <<ESC, LBRACKET, 57, 50, c>>[5] = c OBVIOUS
    <2> QED BY <2>1, <2>2, <2>3, <2>4, Zenon
<1>9. PICK s : s = SubSeq(t, i, g) OBVIOUS
<1>10. g \in i..Len(t) BY <1>1
<1>11. s \in Seq(Byte) /\ Len(s) = g - i + 1 /\ \A x \in 1..g - i + 1 : s[x] = t[x + (i - 1)]
    BY <1>9, <1>10, WindowIs
<1>12. Len(s) \in Nat /\ Len(s) >= 1 BY <1>1, <1>11
<1>13. Begins(s, c)
    <2>1. \A x \in 1..Len(s) : s[x] = t[x + (i - 1)] BY <1>11
    <2>2. 2 + (i - 1) = i + 1 BY <1>1
    <2>3. 3 \in 1..5 /\ 4 \in 1..5 /\ 5 \in 1..5 OBVIOUS
    <2>4. t[3 + (i - 1)] = 57 /\ t[4 + (i - 1)] = 50 /\ t[5 + (i - 1)] = c BY <1>7, <1>8, <2>3
    <2>5. ASSUME NEW x \in 1..Len(s), x = 2 PROVE s[x] = LBRACKET BY <1>4, <2>1, <2>2, <2>5
    <2>6. ASSUME NEW x \in 1..Len(s), x = 3 PROVE s[x] = 57 BY <2>1, <2>4, <2>6
    <2>7. ASSUME NEW x \in 1..Len(s), x = 4 PROVE s[x] = 50 BY <2>1, <2>4, <2>7
    <2>8. ASSUME NEW x \in 1..Len(s), x = 5 PROVE s[x] = c BY <2>1, <2>4, <2>8
    <2> QED BY <2>5, <2>6, <2>7, <2>8 DEF Begins
<1>14. ctrlBackslashPrefix(s) BY <1>11, <1>12, <1>13, BeginsIsHeld
<1> QED BY <1>4, <1>9, <1>14

\* What ctrlBackslashSuffixLen returns: nothing, or from an ESC on; and from the
\* last ESC on if that starts a fragment.
LEMMA SuffixLenIs ==
    ASSUME NEW t \in Seq(Byte)
    PROVE  /\ ctrlBackslashSuffixLen(t) \in 0..Len(t)
           /\ \A i \in DOMAIN t :
                 /\ t[i] = ESC /\ ctrlBackslashPrefix(SubSeq(t, i, Len(t)))
                 /\ \A x \in i + 1..Len(t) : t[x] # ESC
                 => ctrlBackslashSuffixLen(t) = Len(t) - i + 1
           /\ \/ ctrlBackslashSuffixLen(t) = 0
              \/ \E i \in DOMAIN t :
                    /\ t[i] = ESC /\ ctrlBackslashPrefix(SubSeq(t, i, Len(t)))
                    /\ ctrlBackslashSuffixLen(t) = Len(t) - i + 1
<1>1. Len(t) \in Nat /\ DOMAIN t = 1..Len(t) OBVIOUS
<1> DEFINE I == {i \in 1..Len(t) : t[i] = ESC}
           esc == IF I # {} THEN Max(I) ELSE 0
<1>2. ctrlBackslashSuffixLen(t) =
        IF esc > 0 /\ ctrlBackslashPrefix(SubSeq(t, esc, Len(t))) THEN Len(t) - esc + 1 ELSE 0
    BY Zenon DEF ctrlBackslashSuffixLen, SelectLastInSeq
<1>3. I \in SUBSET (0..Len(t)) BY <1>1
<1>4. I # {} => Max(I) \in I /\ \A n \in I : n <= Max(I)
    <2> HIDE DEF I
    <2> QED BY <1>1, <1>3, MaxIs
<1>5. esc \in 0..Len(t) BY <1>1, <1>4
<1>6. ASSUME NEW i \in DOMAIN t, t[i] = ESC, \A x \in i + 1..Len(t) : t[x] # ESC PROVE esc = i
    <2>1. i \in I BY <1>1, <1>6
    <2>2. esc = Max(I) /\ esc \in I /\ i <= esc BY <1>4, <2>1
    <2>3. esc \in 1..Len(t) /\ t[esc] = ESC BY <2>2
    <2>4. esc \notin i + 1..Len(t) BY <1>6, <2>3
    <2> HIDE DEF esc, I
    <2> QED BY <1>1, <2>2, <2>3, <2>4
<1>9. esc > 0 => esc \in DOMAIN t /\ t[esc] = ESC
    <2>1. esc > 0 => esc \in I BY <1>4
    <2> HIDE DEF esc
    <2> QED BY <1>1, <2>1
<1> HIDE DEF esc
<1>7. ctrlBackslashSuffixLen(t) \in 0..Len(t) BY <1>1, <1>2, <1>5
<1>10. \/ ctrlBackslashSuffixLen(t) = 0
       \/ \E i \in DOMAIN t :
             /\ t[i] = ESC /\ ctrlBackslashPrefix(SubSeq(t, i, Len(t)))
             /\ ctrlBackslashSuffixLen(t) = Len(t) - i + 1
    <2>1. CASE esc > 0 /\ ctrlBackslashPrefix(SubSeq(t, esc, Len(t)))
        BY <1>2, <1>9, <2>1
    <2>2. CASE ~(esc > 0 /\ ctrlBackslashPrefix(SubSeq(t, esc, Len(t))))
        BY <1>2, <2>2
    <2> QED BY <2>1, <2>2
<1>8. ASSUME NEW i \in DOMAIN t, t[i] = ESC, ctrlBackslashPrefix(SubSeq(t, i, Len(t))),
             \A x \in i + 1..Len(t) : t[x] # ESC
      PROVE  ctrlBackslashSuffixLen(t) = Len(t) - i + 1
    <2>1. esc = i /\ i > 0 BY <1>1, <1>6, <1>8
    <2> QED BY <1>2, <1>8, <2>1
<1> QED BY <1>7, <1>8, <1>10

\* What is held back begins as the key does.
LEMMA HeldBegins ==
    ASSUME NEW s \in Seq(Byte), Len(s) >= 1, s[1] = ESC, ctrlBackslashPrefix(s)
    PROVE  Fragment(s)
<1>1. Len(s) \in Nat /\ DOMAIN s = 1..Len(s) OBVIOUS
<1>2. PICK v : v = <<57, 50>> OBVIOUS
<1>3. v \in Seq(Byte) /\ Len(v) = 2 /\ v[1] = 57 /\ v[2] = 50 BY <1>2 DEF Byte
<1>4. PICK w : w = <<ESC, LBRACKET, 57, 50>> OBVIOUS
<1>5. /\ w \in Seq(Byte) /\ Len(w) = 4
      /\ w[1] = ESC /\ w[2] = LBRACKET /\ w[3] = 57 /\ w[4] = 50
    BY <1>4 DEF Byte, ESC, LBRACKET
<1>6. CASE Len(s) = 1
    <2>1. \A x \in 1..Len(s) : s[x] = w[x] BY <1>5, <1>6
    <2>2. IsPrefix(s, w) BY <1>5, <1>6, <2>1, PrefixIs
    <2> QED BY <1>4, <2>2 DEF Fragment
<1>7. CASE Len(s) # 1
    <2>1. PICK i : i = Span(s, 3, Digit) OBVIOUS
    <2>2. PICK f : f = SubSeq(s, 3, i - 1) OBVIOUS
    <2>3. /\ s[2] = LBRACKET
          /\ \/ i > Len(s) /\ IsPrefix(f, v)
             \/ i <= Len(s) /\ f = v /\ s[i] \in {COLON, SEMI}
        BY <1>2, <1>7, <2>1, <2>2, Zenon DEF ctrlBackslashPrefix
    <2>4. 3 \in 1..Len(s) + 1 BY <1>1, <1>7
    <2>5. i \in 3..Len(s) + 1 BY <2>1, <2>4, SpanIs, NoDigit DEF IsSpan
    <2>6. f \in Seq(Byte) /\ Len(f) = i - 3 /\ \A x \in 1..i - 3 : f[x] = s[3 + x - 1]
        BY <2>2, <2>4, <2>5, FieldBytes
    <2>7. i \in Nat /\ 3 <= i /\ i <= Len(s) + 1 BY <1>1, <2>5
    <2>8. ASSUME Len(f) <= Len(v), \A x \in 1..Len(f) : f[x] = v[x]
          PROVE  i <= 5 /\ \A x \in 1..i - 1 : s[x] = w[x]
        <3>1. i <= 5 BY <1>3, <2>6, <2>7, <2>8
        <3>2. ASSUME NEW x \in 1..i - 1 PROVE s[x] = w[x]
            <4>1. x = 1 \/ x = 2 \/ x = 3 \/ x = 4 BY <2>7, <3>1
            <4>2. CASE x = 1 BY <1>5, <4>2
            <4>3. CASE x = 2 BY <1>5, <2>3, <4>3
            <4>4. CASE x = 3
                <5>1. 1 \in 1..i - 3 /\ 3 + 1 - 1 = 3 BY <2>7, <3>2, <4>4
                <5> QED BY <1>3, <1>5, <2>6, <2>8, <4>4, <5>1
            <4>5. CASE x = 4
                <5>1. 2 \in 1..i - 3 /\ 3 + 2 - 1 = 4 BY <2>7, <3>2, <4>5
                <5> QED BY <1>3, <1>5, <2>6, <2>8, <4>5, <5>1
            <4> QED BY <4>1, <4>2, <4>3, <4>4, <4>5
        <3> QED BY <3>1, <3>2
    <2>9. CASE i > Len(s)
        <3>1. IsPrefix(f, v) BY <1>1, <2>3, <2>7, <2>9
        <3>6. f \in Seq(Byte) /\ v \in Seq(Byte) BY <1>3, <2>6
        <3>2. Len(f) <= Len(v) /\ \A x \in 1..Len(f) : f[x] = v[x] BY <3>1, <3>6, PrefixSays
        <3>3. i = Len(s) + 1 BY <1>1, <2>7, <2>9
        <3>4. Len(s) <= Len(w) /\ \A x \in 1..Len(s) : s[x] = w[x] BY <1>1, <1>5, <2>8, <3>2, <3>3
        <3>5. IsPrefix(s, w) BY <1>5, <3>4, PrefixIs
        <3> QED BY <1>4, <3>5 DEF Fragment
    <2>10. CASE i <= Len(s)
        <3>1. f = v /\ s[i] \in {COLON, SEMI} BY <1>1, <2>3, <2>7, <2>10
        <3>10. Len(f) = 2 BY <1>3, <3>1
        <3>11. i - 3 = 2 BY <2>6, <3>10, Zenon
        <3>2. i = 5 BY <2>7, <3>11
        <3>3. \A x \in 1..4 : s[x] = w[x] BY <2>8, <3>1, <3>2
        <3>4. PICK c \in {COLON, SEMI} : c = s[5] BY <3>1, <3>2
        <3>5. PICK u : u = <<ESC, LBRACKET, 57, 50, c>> OBVIOUS
        <3>6. /\ u \in Seq(Byte) /\ Len(u) = 5 /\ u[5] = c
              /\ u[1] = ESC /\ u[2] = LBRACKET /\ u[3] = 57 /\ u[4] = 50
            BY <3>5 DEF Byte, ESC, LBRACKET, COLON, SEMI
        <3>7. ASSUME NEW x \in 1..Len(u) PROVE u[x] = s[x]
            <4>1. x = 1 \/ x = 2 \/ x = 3 \/ x = 4 \/ x = 5 BY <3>6
            <4>2. s[1] = w[1] /\ s[2] = w[2] /\ s[3] = w[3] /\ s[4] = w[4] BY <3>3
            <4> QED BY <1>5, <3>4, <3>6, <4>1, <4>2
        <3>8. Len(u) <= Len(s) BY <2>10, <3>2, <3>6
        <3>9. IsPrefix(u, s) BY <3>6, <3>7, <3>8, PrefixIs
        <3> QED BY <3>5, <3>9 DEF Fragment
    <2> QED BY <1>1, <2>7, <2>9, <2>10
<1> QED BY <1>6, <1>7

\* Nothing is the beginning of anything.
LEMMA EmptyFragment == Fragment(<<>>)
<1>1. PICK z : z = <<>> OBVIOUS
<1>2. PICK w : w = <<ESC, LBRACKET, 57, 50>> OBVIOUS
<1>3. z \in Seq(Byte) /\ Len(z) = 0 /\ w \in Seq(Byte) /\ Len(w) = 4
    BY <1>1, <1>2 DEF Byte, ESC, LBRACKET
<1>4. Len(z) <= Len(w) /\ \A x \in 1..Len(z) : z[x] = w[x] BY <1>3
<1>5. IsPrefix(z, w) BY <1>3, <1>4, PrefixIs
<1> QED BY <1>1, <1>2, <1>5 DEF Fragment

\* What feed holds back of a buffer begins as the key does.
LEMMA SuffixIsFragment ==
    ASSUME NEW b \in Seq(Byte), NEW c, c = Len(b) - ctrlBackslashSuffixLen(b)
    PROVE  Fragment(SubSeq(b, c + 1, Len(b)))
<1>1. Len(b) \in Nat /\ DOMAIN b = 1..Len(b) OBVIOUS
<1>2. ctrlBackslashSuffixLen(b) \in 0..Len(b) BY SuffixLenIs
<1>3. CASE ctrlBackslashSuffixLen(b) = 0
    <2>1. c = Len(b) BY <1>1, <1>3
    <2>2. SubSeq(b, c + 1, Len(b)) = <<>> BY <1>1, <2>1
    <2> QED BY <2>2, EmptyFragment
<1>4. CASE ctrlBackslashSuffixLen(b) # 0
    <2>1. PICK i \in DOMAIN b :
            /\ b[i] = ESC /\ ctrlBackslashPrefix(SubSeq(b, i, Len(b)))
            /\ ctrlBackslashSuffixLen(b) = Len(b) - i + 1
        BY <1>4, SuffixLenIs
    <2>2. c + 1 = i BY <1>1, <2>1
    <2>3. PICK s : s = SubSeq(b, i, Len(b)) OBVIOUS
    <2>4. Len(b) \in i..Len(b) BY <1>1
    <2>5. /\ s \in Seq(Byte) /\ Len(s) = Len(b) - i + 1
          /\ \A x \in 1..Len(b) - i + 1 : s[x] = b[x + (i - 1)]
        BY <1>1, <2>3, <2>4, WindowIs
    <2>6. Len(s) >= 1 /\ 1 \in 1..Len(b) - i + 1 /\ 1 + (i - 1) = i BY <1>1, <2>5
    <2>7. s[1] = ESC BY <2>1, <2>5, <2>6
    <2>8. Fragment(s) BY <2>1, <2>3, <2>5, <2>6, <2>7, HeldBegins
    <2> QED BY <2>2, <2>3, <2>8
<1> QED BY <1>3, <1>4

-----------------------------------------------------------------------------
(* What was sent and what is held back.                                    *)

\* Two sequences one after the other, byte by byte.
LEMMA CatIs ==
    ASSUME NEW f \in Seq(Byte), NEW g \in Seq(Byte)
    PROVE  /\ f \o g \in Seq(Byte) /\ Len(f \o g) = Len(f) + Len(g)
           /\ \A x \in 1..Len(f) : (f \o g)[x] = f[x]
           /\ \A x \in 1..Len(g) : (f \o g)[x + Len(f)] = g[x]
<1>1. Len(f) \in Nat /\ Len(g) \in Nat OBVIOUS
<1>2. f \o g \in Seq(Byte) /\ Len(f \o g) = Len(f) + Len(g) OBVIOUS
<1>3. \A x \in 1..Len(f) : (f \o g)[x] = f[x] BY <1>1
<1>4. ASSUME NEW x \in 1..Len(g) PROVE (f \o g)[x + Len(f)] = g[x]
    <2>1. x + Len(f) \in 1..Len(f) + Len(g) /\ x + Len(f) > Len(f) /\ (x + Len(f)) - Len(f) = x
        BY <1>1
    <2> QED BY <1>1, <2>1
<1> QED BY <1>2, <1>3, <1>4

\* s, then p, are the first n bytes of t.
Joins(s, p, t, n) ==
    /\ s \in Seq(Byte) /\ p \in Seq(Byte) /\ t \in Seq(Byte)
    /\ n \in 0..Len(t) /\ Len(s) + Len(p) = n
    /\ \A x \in 1..Len(s) : s[x] = t[x]
    /\ \A x \in 1..Len(p) : p[x] = t[x + Len(s)]

\* Joins says of the bytes what the invariant says of the sequences.
LEMMA JoinsIs ==
    ASSUME NEW s \in Seq(Byte), NEW p \in Seq(Byte), NEW t \in Seq(Byte), NEW n \in 0..Len(t)
    PROVE  Joins(s, p, t, n) <=> s \o p = SubSeq(t, 1, n)
<1>1. Len(s) \in Nat /\ Len(p) \in Nat /\ Len(t) \in Nat /\ n \in Nat /\ n <= Len(t) OBVIOUS
<1>2. PICK u : u = SubSeq(t, 1, n) OBVIOUS
<1>3. u \in Seq(Byte) /\ Len(u) = n /\ \A x \in 1..n : u[x] = t[x] BY <1>1, <1>2
<1>4. PICK v : v = s \o p OBVIOUS
<1>5. /\ v \in Seq(Byte) /\ Len(v) = Len(s) + Len(p)
      /\ \A x \in 1..Len(s) : v[x] = s[x]
      /\ \A x \in 1..Len(p) : v[x + Len(s)] = p[x]
    BY <1>4, CatIs
<1>6. ASSUME Joins(s, p, t, n) PROVE v = u
    <2>1. Len(v) = Len(u) BY <1>3, <1>5, <1>6 DEF Joins
    <2>2. ASSUME NEW x \in 1..Len(v) PROVE v[x] = u[x]
        <3>1. x \in 1..n BY <1>3, <2>1
        <3>2. CASE x \in 1..Len(s) BY <1>3, <1>5, <1>6, <3>1, <3>2 DEF Joins
        <3>3. CASE x \notin 1..Len(s)
            <4>1. x - Len(s) \in 1..Len(p) /\ (x - Len(s)) + Len(s) = x BY <1>1, <1>5, <2>2, <3>3
            <4>2. v[x] = p[x - Len(s)] BY <1>5, <4>1
            <4>3. p[x - Len(s)] = t[x] BY <1>6, <4>1 DEF Joins
            <4> QED BY <1>3, <3>1, <4>2, <4>3
        <3> QED BY <3>2, <3>3
    <2> QED BY <1>3, <1>5, <2>1, <2>2, SameBytes
<1>7. ASSUME v = u PROVE Joins(s, p, t, n)
    <2>1. Len(s) + Len(p) = n BY <1>3, <1>5, <1>7
    <2>2. ASSUME NEW x \in 1..Len(s) PROVE s[x] = t[x]
        <3>1. x \in 1..n BY <1>1, <2>1
        <3> QED BY <1>3, <1>5, <1>7, <3>1
    <2>3. ASSUME NEW x \in 1..Len(p) PROVE p[x] = t[x + Len(s)]
        <3>1. x + Len(s) \in 1..n BY <1>1, <2>1
        <3> QED BY <1>3, <1>5, <1>7, <3>1
    <2> QED BY <2>1, <2>2, <2>3 DEF Joins
<1> QED BY <1>2, <1>4, <1>6, <1>7

\* b is what t holds after its first d bytes.
Shifted(b, t, d) ==
    d + Len(b) <= Len(t) /\ \A x \in 1..Len(b) : b[x] = t[x + d]

\* Joins as two shifts: s from the start of t, p from the end of s.
LEMMA JoinsShifts ==
    ASSUME NEW s \in Seq(Byte), NEW p \in Seq(Byte), NEW t \in Seq(Byte), NEW n \in Nat
    PROVE  Joins(s, p, t, n) <=>
             Shifted(s, t, 0) /\ Shifted(p, t, Len(s)) /\ n = Len(s) + Len(p)
<1>1. Len(s) \in Nat /\ Len(p) \in Nat /\ Len(t) \in Nat OBVIOUS
<1>2. \A x \in 1..Len(s) : x + 0 = x BY <1>1
<1>3. ASSUME Joins(s, p, t, n)
      PROVE  Shifted(s, t, 0) /\ Shifted(p, t, Len(s)) /\ n = Len(s) + Len(p)
    <2>1. n = Len(s) + Len(p) /\ n <= Len(t) BY <1>3 DEF Joins
    <2>2. 0 + Len(s) <= Len(t) /\ Len(s) + Len(p) <= Len(t) BY <1>1, <2>1
    <2> QED BY <1>2, <1>3, <2>1, <2>2 DEF Joins, Shifted
<1>4. ASSUME Shifted(s, t, 0), Shifted(p, t, Len(s)), n = Len(s) + Len(p) PROVE Joins(s, p, t, n)
    <2>1. n \in 0..Len(t) BY <1>1, <1>4 DEF Shifted
    <2> QED BY <1>1, <1>2, <1>4, <2>1 DEF Joins, Shifted
<1> QED BY <1>3, <1>4

\* Bytes of t after bytes of t.
LEMMA ShiftedCat ==
    ASSUME NEW b \in Seq(Byte), NEW c \in Seq(Byte), NEW t \in Seq(Byte), NEW d \in Nat,
           Shifted(b, t, d), Shifted(c, t, d + Len(b))
    PROVE  b \o c \in Seq(Byte) /\ Shifted(b \o c, t, d) /\ Len(b \o c) = Len(b) + Len(c)
<1>1. Len(b) \in Nat /\ Len(c) \in Nat /\ Len(t) \in Nat OBVIOUS
<1>2. PICK v : v = b \o c OBVIOUS
<1>3. /\ v \in Seq(Byte) /\ Len(v) = Len(b) + Len(c)
      /\ \A x \in 1..Len(b) : v[x] = b[x]
      /\ \A x \in 1..Len(c) : v[x + Len(b)] = c[x]
    BY <1>2, CatIs
<1>4. ASSUME NEW x \in 1..Len(v) PROVE v[x] = t[x + d]
    <2>1. CASE x \in 1..Len(b) BY <1>3, <2>1 DEF Shifted
    <2>2. CASE x \notin 1..Len(b)
        <3>1. x \in 1..Len(b) + Len(c) BY <1>3
        <3>2. x - Len(b) \in 1..Len(c) /\ (x - Len(b)) + Len(b) = x BY <1>1, <2>2, <3>1
        <3>3. (x - Len(b)) + (d + Len(b)) = x + d BY <1>1, <3>1
        <3>4. v[x] = c[x - Len(b)] BY <1>3, <3>2
        <3>5. c[x - Len(b)] = t[(x - Len(b)) + (d + Len(b))] BY <3>2 DEF Shifted
        <3> QED BY <3>3, <3>4, <3>5
    <2> QED BY <2>1, <2>2
<1>5. d + Len(v) <= Len(t)
    <2>1. (d + Len(b)) + Len(c) <= Len(t) BY DEF Shifted
    <2>2. (d + Len(b)) + Len(c) = d + (Len(b) + Len(c)) BY <1>1
    <2> QED BY <1>3, <2>1, <2>2
<1>6. Shifted(v, t, d) BY <1>4, <1>5 DEF Shifted
<1> QED BY <1>2, <1>3, <1>6

\* A field of bytes of t.
LEMMA ShiftedField ==
    ASSUME NEW b \in Seq(Byte), NEW t \in Seq(Byte), NEW d \in Nat, Shifted(b, t, d),
           NEW p \in 1..Len(b) + 1, NEW q \in p..Len(b) + 1
    PROVE  /\ Field(b, p, q) \in Seq(Byte) /\ Len(Field(b, p, q)) = q - p
           /\ Shifted(Field(b, p, q), t, d + (p - 1))
<1>1. Len(b) \in Nat /\ Len(t) \in Nat /\ p \in Nat /\ q \in Nat /\ 1 <= p /\ p <= q /\ q <= Len(b) + 1
    OBVIOUS
<1>2. PICK f : f = Field(b, p, q) OBVIOUS
<1>3. f \in Seq(Byte) /\ Len(f) = q - p /\ \A x \in 1..q - p : f[x] = b[p + x - 1]
    BY <1>2, FieldIs DEF Field
<1>4. ASSUME NEW x \in 1..q - p PROVE f[x] = t[x + (d + (p - 1))]
    <2>1. p + x - 1 \in 1..Len(b) /\ (p + x - 1) + d = x + (d + (p - 1)) BY <1>1, <1>4
    <2>2. b[p + x - 1] = t[(p + x - 1) + d] BY <2>1 DEF Shifted
    <2> QED BY <1>3, <2>1, <2>2
<1>5. (d + (p - 1)) + (q - p) <= Len(t)
    <2>1. d + Len(b) <= Len(t) BY DEF Shifted
    <2> QED BY <1>1, <2>1
<1>6. Shifted(f, t, d + (p - 1)) BY <1>3, <1>4, <1>5 DEF Shifted
<1> QED BY <1>2, <1>3, <1>6

\* From i to j, b holds what t holds from k to l.
SameWindow(b, i, j, t, k, l) == SubSeq(b, i, j) = SubSeq(t, k, l)

\* A press in the buffer is a press in the input.
LEMMA ShiftedPress ==
    ASSUME NEW b \in Seq(Byte), NEW t \in Seq(Byte), NEW d \in Nat, Shifted(b, t, d),
           NEW i \in DOMAIN b, NEW j \in i..Len(b)
    PROVE  /\ i + d \in DOMAIN t /\ j + d \in i + d..Len(t)
           /\ SameWindow(b, i, j, t, i + d, j + d)
           /\ Press(b, i, j) <=> Press(t, i + d, j + d)
<1>1. /\ Len(b) \in Nat /\ Len(t) \in Nat /\ DOMAIN t = 1..Len(t)
      /\ i \in Nat /\ j \in Nat /\ 1 <= i /\ i <= j /\ j <= Len(b)
    OBVIOUS
<1>2. d + Len(b) <= Len(t) BY DEF Shifted
<1>3. i + d \in DOMAIN t /\ j + d \in i + d..Len(t) /\ (j + d) - (i + d) + 1 = j - i + 1
    BY <1>1, <1>2
<1>4. PICK u : u = SubSeq(b, i, j) OBVIOUS
<1>5. u \in Seq(Byte) /\ Len(u) = j - i + 1 /\ \A x \in 1..j - i + 1 : u[x] = b[x + (i - 1)]
    BY <1>4, WindowIs
<1>6. PICK v : v = SubSeq(t, i + d, j + d) OBVIOUS
<1>7. /\ v \in Seq(Byte) /\ Len(v) = (j + d) - (i + d) + 1
      /\ \A x \in 1..(j + d) - (i + d) + 1 : v[x] = t[x + ((i + d) - 1)]
    BY <1>3, <1>6, WindowIs
<1>8. ASSUME NEW x \in 1..j - i + 1 PROVE u[x] = v[x]
    <2>1. x + (i - 1) \in 1..Len(b) /\ (x + (i - 1)) + d = x + ((i + d) - 1) BY <1>1, <1>8, SMTT(30)
    <2>2. b[x + (i - 1)] = t[x + ((i + d) - 1)] BY <2>1 DEF Shifted
    <2> QED BY <1>3, <1>5, <1>7, <2>2
<1>9. Len(u) = Len(v) /\ \A x \in 1..Len(u) : u[x] = v[x] BY <1>3, <1>5, <1>7, <1>8
<1>10. u = v BY <1>5, <1>7, <1>9, SameBytes
<1> QED BY <1>3, <1>4, <1>6, <1>10 DEF Press, SameWindow

\* A read puts the next bytes behind what is held back.
LEMMA JoinsRead ==
    ASSUME NEW s \in Seq(Byte), NEW p \in Seq(Byte), NEW t \in Seq(Byte), NEW g \in Nat,
           Joins(s, p, t, g), NEW n \in 1..Len(t) - g
    PROVE  /\ p \o SubSeq(t, g + 1, g + n) \in Seq(Byte)
           /\ Joins(s, p \o SubSeq(t, g + 1, g + n), t, g + n)
<1>1. Len(s) \in Nat /\ Len(p) \in Nat /\ Len(t) \in Nat /\ n \in Nat /\ 1 <= n OBVIOUS
<1>2. Shifted(s, t, 0) /\ Shifted(p, t, Len(s)) /\ g = Len(s) + Len(p) BY JoinsShifts
<1>3. g + n <= Len(t) BY <1>1
<1>4. PICK u : u = SubSeq(t, g + 1, g + n) OBVIOUS
<1>5. u \in Seq(Byte) /\ Len(u) = n /\ Shifted(u, t, Len(s) + Len(p))
    <2>1. Shifted(t, t, 0)
        <3>1. 0 + Len(t) <= Len(t) /\ \A x \in 1..Len(t) : x + 0 = x BY <1>1
        <3> QED BY <3>1 DEF Shifted
    <2>2. PICK q : q = g + n + 1 OBVIOUS
    <2>3. g + 1 \in 1..Len(t) + 1 /\ q \in g + 1..Len(t) + 1 /\ q - 1 = g + n /\ q - (g + 1) = n
          /\ 0 + ((g + 1) - 1) = g /\ 0 \in Nat
        BY <1>1, <1>3, <2>2
    <2>4. u = Field(t, g + 1, q) BY <1>4, <2>3 DEF Field
    <2>5. u \in Seq(Byte) /\ Len(u) = q - (g + 1) /\ Shifted(u, t, 0 + ((g + 1) - 1))
        BY <2>1, <2>3, <2>4, ShiftedField
    <2> QED BY <1>2, <2>3, <2>5
<1>6. PICK b : b = p \o u OBVIOUS
<1>7. b \in Seq(Byte) /\ Shifted(b, t, Len(s)) /\ Len(b) = Len(p) + Len(u)
    BY <1>1, <1>2, <1>5, <1>6, ShiftedCat
<1>8. g + n = Len(s) + Len(b) /\ g + n \in Nat
    <2>1. g + n = (Len(s) + Len(p)) + n BY <1>2
    <2>2. Len(b) = Len(p) + n BY <1>5, <1>7
    <2>3. (Len(s) + Len(p)) + n = Len(s) + (Len(p) + n) BY <1>1
    <2> QED BY <1>1, <2>1, <2>2, <2>3
<1>9. Joins(s, b, t, g + n) BY <1>2, <1>7, <1>8, JoinsShifts
<1> QED BY <1>4, <1>6, <1>7, <1>9

\* What is forwarded and what is held back are cut from the buffer.
LEMMA JoinsCut ==
    ASSUME NEW s \in Seq(Byte), NEW b \in Seq(Byte), NEW t \in Seq(Byte), NEW g \in Nat,
           Joins(s, b, t, g), NEW c \in 0..Len(b)
    PROVE  /\ s \o SubSeq(b, 1, c) \in Seq(Byte) /\ SubSeq(b, c + 1, Len(b)) \in Seq(Byte)
           /\ Joins(s \o SubSeq(b, 1, c), SubSeq(b, c + 1, Len(b)), t, g)
           /\ Len(s \o SubSeq(b, 1, c)) = Len(s) + c
<1>1. Len(s) \in Nat /\ Len(b) \in Nat /\ Len(t) \in Nat /\ c \in Nat /\ c <= Len(b) OBVIOUS
<1>2. Shifted(s, t, 0) /\ Shifted(b, t, Len(s)) /\ g = Len(s) + Len(b) BY JoinsShifts
<1>3. PICK f : f = SubSeq(b, 1, c) OBVIOUS
<1>4. f \in Seq(Byte) /\ Len(f) = c /\ Shifted(f, t, 0 + Len(s))
    <2>1. PICK q : q = c + 1 OBVIOUS
    <2>2. /\ 1 \in 1..Len(b) + 1 /\ q \in 1..Len(b) + 1 /\ q - 1 = c
          /\ Len(s) + (1 - 1) = 0 + Len(s)
        BY <1>1, <2>1
    <2>3. f = Field(b, 1, q) BY <1>3, <2>2 DEF Field
    <2>4. f \in Seq(Byte) /\ Len(f) = q - 1 /\ Shifted(f, t, Len(s) + (1 - 1))
        BY <1>1, <1>2, <2>2, <2>3, ShiftedField, ZenonT(20)
    <2> QED BY <2>2, <2>4
<1>5. PICK h : h = SubSeq(b, c + 1, Len(b)) OBVIOUS
<1>6. h \in Seq(Byte) /\ Len(h) = Len(b) - c /\ Shifted(h, t, Len(s) + c)
    <2>1. PICK q : q = Len(b) + 1 OBVIOUS
    <2>2. PICK p : p = c + 1 OBVIOUS
    <2>3. /\ p \in 1..Len(b) + 1 /\ q \in p..Len(b) + 1 /\ q - 1 = Len(b)
          /\ q - p = Len(b) - c /\ Len(s) + (p - 1) = Len(s) + c
        BY <1>1, <2>1, <2>2
    <2>4. h = Field(b, p, q) BY <1>5, <2>2, <2>3 DEF Field
    <2>5. /\ Field(b, p, q) \in Seq(Byte) /\ Len(Field(b, p, q)) = q - p
          /\ Shifted(Field(b, p, q), t, Len(s) + (p - 1))
        BY <1>1, <1>2, <2>3, ShiftedField, ZenonT(20)
    <2> QED BY <2>3, <2>4, <2>5, ZenonT(20)
<1>7. PICK v : v = s \o f OBVIOUS
<1>8. v \in Seq(Byte) /\ Shifted(v, t, 0) /\ Len(v) = Len(s) + Len(f)
    BY <1>2, <1>4, <1>7, ShiftedCat
<1>9. Len(v) = Len(s) + c BY <1>4, <1>8
<1>10. g = Len(v) + Len(h)
    <2>1. (Len(s) + c) + (Len(b) - c) = Len(s) + Len(b) BY <1>1
    <2> QED BY <1>2, <1>6, <1>9, <2>1
<1>11. Shifted(h, t, Len(v)) BY <1>6, <1>9
<1>12. Joins(v, h, t, g) BY <1>6, <1>8, <1>10, <1>11, JoinsShifts
<1> QED BY <1>3, <1>5, <1>6, <1>7, <1>8, <1>9, <1>12

\* flush sends all that is held back.
LEMMA JoinsFlush ==
    ASSUME NEW s \in Seq(Byte), NEW p \in Seq(Byte), NEW t \in Seq(Byte), NEW g \in Nat,
           Joins(s, p, t, g)
    PROVE  s \o p \in Seq(Byte) /\ Joins(s \o p, <<>>, t, g) /\ Len(s \o p) = g
<1>1. Len(s) \in Nat /\ Len(p) \in Nat /\ Len(t) \in Nat OBVIOUS
<1>2. Shifted(s, t, 0) /\ Shifted(p, t, Len(s)) /\ g = Len(s) + Len(p) BY JoinsShifts
<1>3. 0 + Len(s) = Len(s) /\ 0 \in Nat BY <1>1
<1>4. PICK v : v = s \o p OBVIOUS
<1>5. v \in Seq(Byte) /\ Shifted(v, t, 0) /\ Len(v) = g
    BY <1>1, <1>2, <1>3, <1>4, ShiftedCat
<1>6. PICK z : z = <<>> OBVIOUS
<1>7. z \in Seq(Byte) /\ Len(z) = 0 BY <1>6
<1>8. Len(v) \in Nat /\ 0 + Len(v) <= Len(t) BY <1>5 DEF Shifted
<1>9. Len(v) + Len(z) <= Len(t) /\ g = Len(v) + Len(z) /\ 1..Len(z) = {} BY <1>1, <1>5, <1>7, <1>8
<1>10. Shifted(z, t, Len(v)) BY <1>9 DEF Shifted
<1>11. Joins(v, z, t, g) BY <1>5, <1>7, <1>9, <1>10, JoinsShifts
<1> QED BY <1>4, <1>5, <1>6, <1>11

-----------------------------------------------------------------------------
(* One feed of the scanner: b is its buffer, s was sent, t is the input and *)
(* h of its bytes have been read.                                          *)

\* What was sent, and what was held back of it, as parts of the input.
LEMMA JoinsParts ==
    ASSUME NEW s \in Seq(Byte), NEW b \in Seq(Byte), NEW t \in Seq(Byte), NEW h \in Nat,
           Joins(s, b, t, h)
    PROVE  IsPrefix(s, SubSeq(t, 1, h)) /\ SubSeq(t, Len(s) + 1, h) = b
<1>1. Len(s) \in Nat /\ Len(b) \in Nat /\ Len(t) \in Nat OBVIOUS
<1>2. Shifted(b, t, Len(s)) /\ h = Len(s) + Len(b) BY JoinsShifts
<1>3. h \in 0..Len(t) BY DEF Joins
<1>4. IsPrefix(s, SubSeq(t, 1, h))
    <2>1. PICK u : u = s \o b OBVIOUS
    <2>2. u = SubSeq(t, 1, h) BY <1>3, <2>1, JoinsIs
    <2>3. u \in Seq(Byte) /\ Len(u) = Len(s) + Len(b) /\ \A x \in 1..Len(s) : u[x] = s[x]
        BY <2>1, CatIs
    <2>4. Len(s) <= Len(u) BY <1>1, <2>3
    <2>5. IsPrefix(s, u) BY <2>3, <2>4, PrefixIs
    <2> QED BY <2>2, <2>5
<1>5. SubSeq(t, Len(s) + 1, h) = b
    <2>1. PICK p : p = Len(s) + 1 OBVIOUS
    <2>2. PICK q : q = h + 1 OBVIOUS
    <2>3. /\ p \in 1..Len(t) + 1 /\ q \in p..Len(t) + 1 /\ q - 1 = h /\ q - p = Len(b)
        BY <1>1, <1>2, <1>3, <2>1, <2>2
    <2>4. PICK v : v = SubSeq(t, p, q - 1) OBVIOUS
    <2>5. v \in Seq(Byte) /\ Len(v) = q - p /\ \A x \in 1..q - p : v[x] = t[p + x - 1]
        BY <2>3, <2>4, FieldBytes
    <2>6. ASSUME NEW x \in 1..Len(v) PROVE v[x] = b[x]
        <3>1. x \in 1..Len(b) /\ p + x - 1 = x + Len(s) BY <1>1, <2>1, <2>3, <2>5
        <3> QED BY <1>2, <2>3, <2>5, <3>1 DEF Shifted
    <2>7. Len(v) = Len(b) BY <2>3, <2>5
    <2>8. v = b BY <2>5, <2>6, <2>7, SameBytes
    <2> QED BY <2>1, <2>3, <2>4, <2>8
<1> QED BY <1>4, <1>5

\* A detach is for a press that was read and not sent.
LEMMA ScanDetaches ==
    ASSUME NEW s \in Seq(Byte), NEW b \in Seq(Byte), NEW t \in Seq(Byte), NEW h \in Nat,
           Joins(s, b, t, h), isCtrlBackslash(b)
    PROVE  \E j \in 1..h : \E i \in Len(s) + 1..j : Press(t, i, j)
<1>1. Len(s) \in Nat /\ Len(b) \in Nat /\ Len(t) \in Nat /\ DOMAIN b = 1..Len(b) OBVIOUS
<1>2. Shifted(b, t, Len(s)) /\ h = Len(s) + Len(b) BY JoinsShifts
<1>3. PICK x \in DOMAIN b : \E y \in x..Len(b) : Press(b, x, y) BY Detects
<1>4. PICK y \in x..Len(b) : Press(b, x, y) BY <1>3
<1>5. x \in Nat /\ y \in Nat /\ 1 <= x /\ x <= y /\ y <= Len(b) BY <1>1
<1>6. Press(t, x + Len(s), y + Len(s)) BY <1>1, <1>2, <1>4, ShiftedPress
<1>7. y + Len(s) \in 1..h /\ x + Len(s) \in Len(s) + 1..y + Len(s) BY <1>1, <1>2, <1>5
<1> QED BY <1>6, <1>7

\* What feed forwards and holds back of a buffer without a press.
Forwards(b, c) == ~isCtrlBackslash(b) /\ c = Len(b) - ctrlBackslashSuffixLen(b)

\* The cut is in the buffer.
LEMMA CutInBuffer ==
    ASSUME NEW b \in Seq(Byte), NEW c, Forwards(b, c)
    PROVE  c \in 0..Len(b)
<1>1. Len(b) \in Nat OBVIOUS
<1>2. ctrlBackslashSuffixLen(b) \in 0..Len(b) BY SuffixLenIs
<1>3. Len(b) - ctrlBackslashSuffixLen(b) \in 0..Len(b) BY <1>1, <1>2
<1> QED BY <1>3 DEF Forwards

\* There is no press in what has been read and not sent.
LEMMA ScanForwards ==
    ASSUME NEW s \in Seq(Byte), NEW b \in Seq(Byte), NEW t \in Seq(Byte), NEW h \in Nat,
           Joins(s, b, t, h), NEW c \in 0..Len(b), Forwards(b, c),
           NEW i \in Len(s) + 1..h, NEW j \in i..h
    PROVE  ~Press(t, i, j)
<1>1. Len(s) \in Nat /\ Len(b) \in Nat /\ Len(t) \in Nat /\ DOMAIN b = 1..Len(b) OBVIOUS
<1>2. Shifted(b, t, Len(s)) /\ h = Len(s) + Len(b) BY JoinsShifts
<1>3. i \in Nat /\ j \in Nat /\ Len(s) + 1 <= i /\ i <= j /\ j <= Len(s) + Len(b) BY <1>1, <1>2
<1>4. PICK x \in Nat : x + Len(s) = i
    <2>1. i - Len(s) \in Nat /\ (i - Len(s)) + Len(s) = i BY <1>1, <1>3
    <2> QED BY <2>1
<1>5. PICK y \in Nat : y + Len(s) = j
    <2>1. j - Len(s) \in Nat /\ (j - Len(s)) + Len(s) = j BY <1>1, <1>3
    <2> QED BY <2>1
<1>6. x \in DOMAIN b /\ y \in x..Len(b)
    <2>1. 1 <= x /\ x <= y BY <1>1, <1>3, <1>4, <1>5
    <2>2. y <= Len(b) BY <1>1, <1>3, <1>5
    <2> QED BY <1>1, <2>1, <2>2
<1>7. ~Press(b, x, y) BY <1>6, Detects DEF Forwards
<1>8. Press(b, x, y) <=> Press(t, x + Len(s), y + Len(s)) BY <1>1, <1>2, <1>6, ShiftedPress
<1> QED BY <1>4, <1>5, <1>7, <1>8

\* No byte that is sent starts a press, however the input goes on.
LEMMA ScanLosesNone ==
    ASSUME PlainKeypresses, NEW s \in Seq(Byte), NEW b \in Seq(Byte),
           NEW t \in Seq(Byte), t \in Inputs, NEW h \in Nat,
           Joins(s, b, t, h), NEW c \in 0..Len(b), Forwards(b, c),
           NEW i \in Len(s) + 1..Len(s) + c, NEW j \in i..Len(t)
    PROVE  ~Press(t, i, j)
<1>1. /\ Len(s) \in Nat /\ Len(b) \in Nat /\ Len(t) \in Nat /\ c \in Nat /\ c <= Len(b)
      /\ DOMAIN b = 1..Len(b) /\ DOMAIN t = 1..Len(t)
    OBVIOUS
<1>2. Shifted(b, t, Len(s)) /\ h = Len(s) + Len(b) BY JoinsShifts
<1>3. /\ i \in Nat /\ j \in Nat /\ Len(s) + 1 <= i /\ i <= Len(s) + c /\ i <= j /\ j <= Len(t)
    BY <1>1
<1>4. i <= h BY <1>1, <1>2, <1>3
<1>5. CASE j <= h
    <2>1. i \in Len(s) + 1..h /\ j \in i..h BY <1>1, <1>3, <1>4, <1>5
    <2> QED BY <2>1, ScanForwards
<1>6. CASE j > h
    <2> SUFFICES ASSUME Press(t, i, j) PROVE FALSE OBVIOUS
    <2>1. PICK k \in Nat : k + Len(s) = i
        <3>1. i - Len(s) \in Nat /\ (i - Len(s)) + Len(s) = i BY <1>1, <1>3
        <3> QED BY <3>1
    <2>2. 1 <= k /\ k <= c BY <1>1, <1>3, <2>1
    <2>3. k \in DOMAIN b /\ Len(b) \in k..Len(b) BY <1>1, <2>2
    <2>4. i \in DOMAIN t /\ h \in i..j - 1 BY <1>1, <1>3, <1>4, <1>6
    <2>5. t[i] = ESC /\ ctrlBackslashPrefix(SubSeq(t, i, h)) BY <2>4, PressIsHeld
    <2>6. Len(b) + Len(s) = h BY <1>1, <1>2
    <2>7. SameWindow(b, k, Len(b), t, k + Len(s), Len(b) + Len(s))
        BY <1>1, <1>2, <2>3, ShiftedPress
    <2>8. ctrlBackslashPrefix(SubSeq(b, k, Len(b)))
        BY <2>1, <2>5, <2>6, <2>7, Zenon DEF SameWindow
    <2>9. \A x \in 1..Len(b) : b[x] = t[x + Len(s)] BY <1>2 DEF Shifted
    <2>10. b[k] = ESC BY <1>1, <2>1, <2>3, <2>5, <2>9
    <2>11. ASSUME NEW x \in k + 1..Len(b) PROVE b[x] # ESC
        <3>1. x \in Nat /\ k + 1 <= x /\ x <= Len(b) /\ x \in 1..Len(b) BY <1>1, <2>2, <2>11
        <3>2. i + 1 <= x + Len(s) BY <1>1, <2>1, <3>1
        <3>3. x + Len(s) <= h BY <1>1, <2>6, <3>1
        <3>4. x + Len(s) \in i + 1..j BY <1>1, <1>3, <1>6, <3>1, <3>2, <3>3
        <3>5. t[x + Len(s)] # ESC BY <2>4, <3>4, NoEscInside
        <3> QED BY <2>9, <3>1, <3>5
    <2>12. ctrlBackslashSuffixLen(b) = Len(b) - k + 1
        BY <2>3, <2>8, <2>10, <2>11, SuffixLenIs
    <2>13. c = Len(b) - (Len(b) - k + 1) BY <2>12 DEF Forwards
    <2> QED BY <1>1, <2>2, <2>13
<1> QED BY <1>3, <1>5, <1>6

-----------------------------------------------------------------------------
(* The inductive invariants.                                               *)

\* The timer runs only for a lone Escape, and what it released was sent.
TimerInv ==
    /\ timer => pc = "reading" /\ pending = <<ESC>>
    /\ pc = "reading" => released \subseteq 1..Len(sent)

\* No press is complete in what is held back.
NoneHeld ==
    pc = "reading" => \A i \in Len(sent) + 1..got : \A j \in i..got : ~Press(typed, i, j)

KeyTypes ==
    /\ typed \in Inputs /\ got \in 0..Len(typed) /\ before \in 0..got
    /\ sent \in Seq(Byte) /\ pending \in Seq(Byte)
    /\ pc \in {"reading", "detached", "eof", "failed"}

KeyInv == KeyTypes /\ TimerInv /\ NoneHeld /\ InputForwarded

\* No byte that was sent starts a press, whatever is still to be read: a key
\* whose ESC has left the scanner can no longer be seen.
NoneLost ==
    pc = "reading" =>
        \A i \in 1..Len(sent) : \A j \in i..Len(typed) : i \in released \/ ~Press(typed, i, j)

-----------------------------------------------------------------------------
(* The steps of runAttachInput.                                            *)

\* While reading, what was sent and what is held back are what was read.
LEMMA Reading ==
    ASSUME KeyInv, pc = "reading"
    PROVE  /\ typed \in Seq(Byte) /\ sent \in Seq(Byte) /\ pending \in Seq(Byte)
           /\ got \in Nat /\ got \in 0..Len(typed) /\ Joins(sent, pending, typed, got)
<1>1. typed \in Seq(Byte) /\ sent \in Seq(Byte) /\ pending \in Seq(Byte)
    BY InputsAssumption DEF KeyInv, KeyTypes, Byte
<1>2. got \in 0..Len(typed) /\ sent \o pending = SubSeq(typed, 1, got)
    BY DEF KeyInv, KeyTypes, InputForwarded, received
<1>3. Len(typed) \in Nat /\ got \in Nat BY <1>1, <1>2
<1>4. Joins(sent, pending, typed, got) BY <1>1, <1>2, JoinsIs
<1> QED BY <1>1, <1>2, <1>3, <1>4

\* What a read changes, in terms of the buffer the scanner is fed.
LEMMA ReadIs ==
    ASSUME NEW n, Read(n), NEW b, b = pending \o SubSeq(typed, got + 1, got + n)
    PROVE  /\ pc = "reading" /\ got' = got + n /\ typed' = typed /\ released' = released
           /\ isCtrlBackslash(b) =>
                /\ pending' = <<>> /\ timer' = FALSE /\ before' = got
                /\ (sent' = sent \o <<>> /\ pc' = "detached") \/ (sent' = sent /\ pc' = "failed")
           /\ \A c : Forwards(b, c) =>
                /\ pending' = SubSeq(b, c + 1, Len(b)) /\ before' = before
                /\ \/ sent' = sent \o SubSeq(b, 1, c) /\ pc' = "reading" /\ timer' = Armed(pending')
                   \/ sent' = sent /\ pc' = "failed" /\ timer' = FALSE
<1>1. /\ pc = "reading" /\ got' = got + n /\ typed' = typed /\ released' = released
      /\ pending' = feed(b).pending
      /\ before' = IF feed(b).detach THEN got ELSE before
      /\ \/ /\ sent' = sent \o feed(b).forward
            /\ pc' = IF feed(b).detach THEN "detached" ELSE "reading"
            /\ timer' = (~feed(b).detach /\ Armed(feed(b).pending))
         \/ sent' = sent /\ pc' = "failed" /\ timer' = FALSE
    <2>1. pc = "reading" /\ got' = got + n /\ typed' = typed /\ released' = released BY DEF Read
    <2>2. pending' = feed(b).pending BY Zenon DEF Read
    <2>4. before' = IF feed(b).detach THEN got ELSE before BY Zenon DEF Read
    <2>3. \/ /\ sent' = sent \o feed(b).forward
             /\ pc' = IF feed(b).detach THEN "detached" ELSE "reading"
             /\ timer' = (~feed(b).detach /\ Armed(feed(b).pending))
          \/ sent' = sent /\ pc' = "failed" /\ timer' = FALSE
        BY Zenon DEF Read
    <2> QED BY <2>1, <2>2, <2>3, <2>4, Zenon
<1>2. ASSUME isCtrlBackslash(b)
      PROVE  feed(b).forward = <<>> /\ feed(b).pending = <<>> /\ feed(b).detach = TRUE
    BY <1>2 DEF feed
<1>3. ASSUME NEW c, Forwards(b, c)
      PROVE  /\ feed(b).forward = SubSeq(b, 1, c) /\ feed(b).pending = SubSeq(b, c + 1, Len(b))
             /\ feed(b).detach = FALSE
    BY <1>3 DEF feed, Forwards
<1>4. ASSUME isCtrlBackslash(b)
      PROVE  /\ pending' = <<>> /\ timer' = FALSE /\ before' = got
             /\ (sent' = sent \o <<>> /\ pc' = "detached") \/ (sent' = sent /\ pc' = "failed")
    BY <1>1, <1>2, <1>4, Zenon
<1>5. ASSUME NEW c, Forwards(b, c)
      PROVE  /\ pending' = SubSeq(b, c + 1, Len(b)) /\ before' = before
             /\ \/ sent' = sent \o SubSeq(b, 1, c) /\ pc' = "reading" /\ timer' = Armed(pending')
                \/ sent' = sent /\ pc' = "failed" /\ timer' = FALSE
    <2>1. ~feed(b).detach /\ feed(b).detach = FALSE BY <1>3, <1>5, Zenon
    <2>2. (~feed(b).detach /\ Armed(feed(b).pending)) = Armed(feed(b).pending)
        BY <2>1, Zenon DEF Armed
    <2>3. (IF feed(b).detach THEN "detached" ELSE "reading") = "reading" BY <2>1, Zenon
    <2>4. (IF feed(b).detach THEN got ELSE before) = before BY <2>1, Zenon
    <2> QED BY <1>1, <1>3, <1>5, <2>2, <2>3, <2>4, Zenon
<1> QED BY <1>1, <1>4, <1>5, Zenon

\* A loop that failed has nothing to keep.
LEMMA FailedKeeps ==
    ASSUME KeyTypes', pc' = "failed", timer' = FALSE
    PROVE  KeyInv' /\ NoneLost'
<1>1. pc' # "reading" /\ pc' # "eof" /\ pc' # "detached" OBVIOUS
<1> QED BY <1>1 DEF KeyInv, TimerInv, NoneHeld, InputForwarded, NoneLost

\* A read that detaches.
LEMMA ReadDetaches ==
    ASSUME KeyInv, NEW n \in 1..Len(typed) - got, Read(n),
           isCtrlBackslash(pending \o SubSeq(typed, got + 1, got + n))
    PROVE  KeyInv' /\ NoneLost'
<1>1. PICK b : b = pending \o SubSeq(typed, got + 1, got + n) OBVIOUS
<1>2. pc = "reading" /\ got' = got + n /\ typed' = typed /\ released' = released BY <1>1, ReadIs
<1>3. /\ pending' = <<>> /\ timer' = FALSE /\ before' = got
      /\ (sent' = sent \o <<>> /\ pc' = "detached") \/ (sent' = sent /\ pc' = "failed")
    BY <1>1, ReadIs
<1>4. /\ typed \in Seq(Byte) /\ sent \in Seq(Byte) /\ pending \in Seq(Byte)
      /\ got \in Nat /\ got \in 0..Len(typed) /\ Joins(sent, pending, typed, got)
    BY <1>2, Reading
<1>5. b \in Seq(Byte) /\ Joins(sent, b, typed, got + n) BY <1>1, <1>4, JoinsRead
<1>6. sent' = sent
    <2>1. sent \o <<>> = sent BY <1>4
    <2> QED BY <1>3, <2>1
<1>7. got + n \in 0..Len(typed) /\ got + n \in Nat /\ got \in 0..got + n BY <1>4
<1>8. KeyTypes'
    <2>1. <<>> \in Seq(Byte) OBVIOUS
    <2>2. typed \in Inputs BY DEF KeyInv, KeyTypes
    <2>3. pc' \in {"reading", "detached", "eof", "failed"} BY <1>3
    <2> QED BY <1>2, <1>3, <1>4, <1>6, <1>7, <2>1, <2>2, <2>3 DEF KeyTypes
<1>9. CASE pc' = "failed" BY <1>3, <1>8, <1>9, FailedKeeps
<1>10. CASE pc' = "detached"
    <2>1. IsPrefix(sent, SubSeq(typed, 1, got)) /\ SubSeq(typed, Len(sent) + 1, got) = pending
        BY <1>4, JoinsParts
    <2>12. Fragment(pending) BY <1>2 DEF KeyInv, InputForwarded
    <2>2. PICK j \in 1..got + n : \E i \in Len(sent) + 1..j : Press(typed, i, j)
        BY <1>1, <1>4, <1>5, <1>7, ScanDetaches
    <2>3. PICK i \in Len(sent) + 1..j : Press(typed, i, j) BY <2>2
    <2>4. i \notin released
        <3>1. released \subseteq 1..Len(sent) BY <1>2 DEF KeyInv, TimerInv
        <3>2. Len(sent) \in Nat BY <1>4
        <3>3. i \notin 1..Len(sent) BY <3>2
        <3> QED BY <3>1, <3>3
    <2>5. PressAt(i, j)' BY <1>2, <2>3, <2>4 DEF PressAt, Press
    <2>6. /\ IsPrefix(sent', SubSeq(typed', 1, before'))
          /\ Fragment(SubSeq(typed', Len(sent') + 1, before'))
        BY <1>2, <1>3, <1>6, <2>1, <2>12
    <2>7. j \in before' + 1..got' /\ i \in Len(sent') + 1..j
        <3>1. Len(sent) \in Nat /\ i \in Nat /\ j \in Nat /\ i <= j BY <1>4, <1>7
        <3>2. ~(j <= got)
            <4> SUFFICES ASSUME j <= got PROVE FALSE OBVIOUS
            <4>1. i \in Len(sent) + 1..got /\ j \in i..got BY <1>4, <3>1
            <4> QED BY <1>2, <2>3, <4>1 DEF KeyInv, NoneHeld
        <3>3. j \in got + 1..got + n BY <1>4, <1>7, <3>1, <3>2
        <3> QED BY <1>2, <1>3, <1>6, <3>3
    <2>8. pc' # "reading" /\ pc' # "eof" BY <1>10
    <2>9. \E y \in before' + 1..got' : \E x \in Len(sent') + 1..y : PressAt(x, y)' BY <2>5, <2>7
    <2>10. InputForwarded' BY <2>6, <2>8, <2>9 DEF InputForwarded
    <2>11. TimerInv' /\ NoneHeld' /\ NoneLost' BY <1>3, <2>8 DEF TimerInv, NoneHeld, NoneLost
    <2> QED BY <1>8, <2>10, <2>11 DEF KeyInv
<1> QED BY <1>3, <1>9, <1>10

\* A read that does not.
LEMMA ReadContinues ==
    ASSUME KeyInv, NEW n \in 1..Len(typed) - got, Read(n),
           ~isCtrlBackslash(pending \o SubSeq(typed, got + 1, got + n))
    PROVE  KeyInv' /\ (PlainKeypresses /\ NoneLost => NoneLost')
<1>1. PICK b : b = pending \o SubSeq(typed, got + 1, got + n) OBVIOUS
<1>2. PICK c : c = Len(b) - ctrlBackslashSuffixLen(b) OBVIOUS
<1>3. Forwards(b, c) BY <1>1, <1>2, Zenon DEF Forwards
<1>4. pc = "reading" /\ got' = got + n /\ typed' = typed /\ released' = released BY <1>1, ReadIs
<1>5. /\ pending' = SubSeq(b, c + 1, Len(b)) /\ before' = before
      /\ \/ sent' = sent \o SubSeq(b, 1, c) /\ pc' = "reading" /\ timer' = Armed(pending')
         \/ sent' = sent /\ pc' = "failed" /\ timer' = FALSE
    BY <1>1, <1>3, ReadIs, Zenon
<1>6. /\ typed \in Seq(Byte) /\ sent \in Seq(Byte) /\ pending \in Seq(Byte)
      /\ got \in Nat /\ got \in 0..Len(typed) /\ Joins(sent, pending, typed, got)
    BY <1>4, Reading
<1>7. b \in Seq(Byte) /\ Joins(sent, b, typed, got + n) BY <1>1, <1>6, JoinsRead
<1>8. c \in 0..Len(b) BY <1>3, <1>7, CutInBuffer
<1>9. got + n \in 0..Len(typed) /\ got + n \in Nat BY <1>6
<1>10. PICK s : s = sent \o SubSeq(b, 1, c) OBVIOUS
<1>11. PICK p : p = SubSeq(b, c + 1, Len(b)) OBVIOUS
<1>12. s \in Seq(Byte) /\ p \in Seq(Byte) /\ Joins(s, p, typed, got + n) /\ Len(s) = Len(sent) + c
    BY <1>6, <1>7, <1>8, <1>9, <1>10, <1>11, JoinsCut, Zenon
<1>13. pending' = p BY <1>5, <1>11
<1>14. (sent' = s /\ pc' = "reading" /\ timer' = Armed(p)) \/ (sent' = sent /\ pc' = "failed" /\ timer' = FALSE)
    BY <1>5, <1>10, <1>13, Zenon
<1>15. KeyTypes'
    <2>1. typed \in Inputs BY DEF KeyInv, KeyTypes
    <2>2. pc' \in {"reading", "detached", "eof", "failed"} BY <1>14
    <2>3. sent' \in Seq(Byte) /\ pending' \in Seq(Byte) BY <1>6, <1>12, <1>13, <1>14
    <2>4. before' \in 0..got'
        <3>1. before \in 0..got BY DEF KeyInv, KeyTypes
        <3>2. got \in Nat /\ got + n \in Nat /\ got <= got + n BY <1>6, <1>9
        <3> QED BY <1>4, <1>5, <3>1, <3>2
    <2> QED BY <1>4, <1>9, <2>1, <2>2, <2>3, <2>4 DEF KeyTypes
<1>16. CASE pc' = "failed"
    <2>1. timer' = FALSE BY <1>14, <1>16
    <2> QED BY <1>15, <1>16, <2>1, FailedKeeps
<1>17. CASE pc' = "reading"
    <2>1. sent' = s /\ timer' = Armed(p) BY <1>14, <1>17
    <2>2. s \o p = SubSeq(typed, 1, got + n) BY <1>6, <1>9, <1>12, JoinsIs
    <2>3. InputForwarded'
        <3>1. sent' \o pending' = received' BY <1>4, <1>13, <2>1, <2>2 DEF received
        <3>2. pc' # "eof" /\ pc' # "detached" BY <1>17
        <3>3. Fragment(p) BY <1>2, <1>7, <1>11, SuffixIsFragment
        <3>4. Fragment(pending') BY <1>13, <3>3
        <3> QED BY <3>1, <3>2, <3>4 DEF InputForwarded
    <2>4. Len(sent) \in Nat /\ Len(b) \in Nat /\ c \in Nat BY <1>6, <1>7, <1>8
    <2>5. TimerInv'
        <3>1. timer' => pending' = <<ESC>> BY <1>13, <2>1 DEF Armed
        <3>2. released \subseteq 1..Len(sent) BY <1>4 DEF KeyInv, TimerInv
        <3>3. 1..Len(sent) \subseteq 1..Len(sent) + c BY <2>4
        <3>4. released' \subseteq 1..Len(sent') BY <1>4, <1>12, <2>1, <3>2, <3>3
        <3> QED BY <1>17, <3>1, <3>4 DEF TimerInv
    <2>6. ASSUME NEW i \in Len(sent) + 1..got + n, NEW j \in i..got + n PROVE ~Press(typed, i, j)
        BY <1>3, <1>6, <1>7, <1>8, <1>9, ScanForwards
    <2>7. NoneHeld'
        <3>1. ASSUME NEW i \in Len(sent') + 1..got', NEW j \in i..got' PROVE ~Press(typed', i, j)
            <4>1. i \in Len(sent) + 1..got + n /\ j \in i..got + n
                <5>1. i \in Len(sent) + c + 1..got + n BY <1>4, <1>12, <2>1
                <5> QED BY <1>4, <1>9, <2>4, <5>1
            <4> QED BY <1>4, <2>6, <4>1
        <3> QED BY <3>1 DEF NoneHeld
    <2>8. ASSUME PlainKeypresses, NoneLost PROVE NoneLost'
        <3>1. ASSUME NEW i \in 1..Len(sent) + c, NEW j \in i..Len(typed), i \notin released
              PROVE  ~Press(typed, i, j)
            <4>1. CASE i \in 1..Len(sent) BY <1>4, <2>8, <3>1, <4>1 DEF NoneLost
            <4>2. CASE i \notin 1..Len(sent)
                <5>1. i \in Len(sent) + 1..Len(sent) + c BY <2>4, <4>2
                <5>2. typed \in Inputs BY DEF KeyInv, KeyTypes
                <5> QED BY <1>3, <1>6, <1>7, <1>8, <1>9, <2>8, <5>1, <5>2, ScanLosesNone
            <4> QED BY <4>1, <4>2
        <3>2. Len(sent') = Len(sent) + c BY <1>12, <2>1
        <3> QED BY <1>4, <3>1, <3>2 DEF NoneLost
    <2> QED BY <1>15, <2>3, <2>5, <2>7, <2>8 DEF KeyInv
<1> QED BY <1>14, <1>16, <1>17

\* What flush changes.
LEMMA FlushIs ==
    ASSUME KeyInv, pc = "reading", NEW reached, Flush(reached), UNCHANGED <<typed, got, before>>
    PROVE  /\ typed' = typed /\ got' = got /\ pending' = <<>> /\ timer' = FALSE
           /\ \/ sent' = sent \o pending /\ pc' = reached
              \/ sent' = sent /\ pc' = "failed"
           /\ sent \o pending \in Seq(Byte) /\ sent \o pending = received
           /\ Len(sent \o pending) = got /\ got = Len(sent) + Len(pending)
           /\ Len(sent) \in Nat /\ got \in Nat
<1>1. /\ typed \in Seq(Byte) /\ sent \in Seq(Byte) /\ pending \in Seq(Byte)
      /\ got \in Nat /\ got \in 0..Len(typed) /\ Joins(sent, pending, typed, got)
    BY Reading
<1>2. sent \o pending \in Seq(Byte) /\ Len(sent \o pending) = got BY <1>1, JoinsFlush
<1>3. got = Len(sent) + Len(pending) BY <1>1, JoinsShifts
<1>4. sent \o pending = received BY DEF KeyInv, InputForwarded
<1>5. Len(sent) \in Nat BY <1>1
<1>6. typed' = typed /\ got' = got OBVIOUS
<1>7. /\ pending' = <<>> /\ timer' = FALSE
      /\ \/ sent' = sent \o pending /\ pc' = reached
         \/ sent' = sent /\ pc' = "failed"
    BY Zenon DEF Flush
<1> QED BY <1>1, <1>2, <1>3, <1>4, <1>5, <1>6, <1>7, Zenon

\* The types after a flush.
LEMMA FlushTypes ==
    ASSUME KeyInv, pc = "reading", NEW reached \in {"reading", "eof"}, Flush(reached),
           UNCHANGED <<typed, got, before>>
    PROVE  KeyTypes'
<1>1. /\ typed' = typed /\ got' = got /\ pending' = <<>>
      /\ \/ sent' = sent \o pending /\ pc' = reached
         \/ sent' = sent /\ pc' = "failed"
      /\ sent \o pending \in Seq(Byte)
    BY FlushIs, Zenon
<1>2. typed \in Inputs /\ got \in 0..Len(typed) /\ before \in 0..got /\ sent \in Seq(Byte)
    BY DEF KeyInv, KeyTypes
<1>3. <<>> \in Seq(Byte) OBVIOUS
<1>4. sent' \in Seq(Byte) BY <1>1, <1>2, Zenon
<1>5. pc' \in {"reading", "detached", "eof", "failed"} BY <1>1
<1> QED BY <1>1, <1>2, <1>3, <1>4, <1>5 DEF KeyTypes

\* The timer releases a lone Escape, and remembers where.
LEMMA EscapeKeeps ==
    ASSUME KeyInv, EscapeTimeout
    PROVE  KeyInv' /\ (NoneLost => NoneLost')
<1>1. /\ pc = "reading" /\ timer /\ released' = released \cup {got} /\ Flush("reading")
      /\ UNCHANGED <<typed, got, before>>
    BY DEF EscapeTimeout
<1>2. /\ typed' = typed /\ got' = got /\ pending' = <<>> /\ timer' = FALSE
      /\ \/ sent' = sent \o pending /\ pc' = "reading"
         \/ sent' = sent /\ pc' = "failed"
      /\ sent \o pending \in Seq(Byte) /\ sent \o pending = received
      /\ Len(sent \o pending) = got /\ got = Len(sent) + Len(pending)
      /\ Len(sent) \in Nat /\ got \in Nat
    BY <1>1, FlushIs, Zenon
<1>3. KeyTypes' BY <1>1, FlushTypes
<1>4. CASE pc' = "failed" BY <1>2, <1>3, <1>4, FailedKeeps
<1>5. CASE pc' = "reading"
    <2>1. sent' = sent \o pending BY <1>2, <1>5
    <2>2. Len(pending) = 1
        <3>1. pending = <<ESC>> BY <1>1 DEF KeyInv, TimerInv
        <3> QED BY <3>1
    <2>3. got = Len(sent) + 1 /\ Len(sent') = got BY <1>2, <2>1, <2>2
    <2>4. InputForwarded'
        <3>1. PICK v : v = sent \o pending OBVIOUS
        <3>2. v \in Seq(Byte) BY <1>2, <3>1, Zenon
        <3>3. v \o <<>> = v BY <3>2
        <3>4. received' = received BY <1>2 DEF received
        <3>5. sent' \o pending' = received' BY <1>2, <2>1, <3>1, <3>3, <3>4, Zenon
        <3>6. pc' # "eof" /\ pc' # "detached" BY <1>5
        <3>7. Fragment(pending') BY <1>2, EmptyFragment
        <3> QED BY <3>5, <3>6, <3>7 DEF InputForwarded
    <2>5. TimerInv'
        <3>1. released \subseteq 1..Len(sent) BY <1>1 DEF KeyInv, TimerInv
        <3>2. released \cup {got} \subseteq 1..got
            <4>1. 1..Len(sent) \subseteq 1..got /\ got \in 1..got BY <1>2, <2>3
            <4> QED BY <3>1, <4>1
        <3> QED BY <1>1, <1>2, <2>3, <3>2 DEF TimerInv
    <2>6. NoneHeld'
        <3>1. Len(sent') + 1..got' = {} BY <1>2, <2>3
        <3> QED BY <3>1 DEF NoneHeld
    <2>7. ASSUME NoneLost PROVE NoneLost'
        <3>1. ASSUME NEW i \in 1..Len(sent'), NEW j \in i..Len(typed'), i \notin released'
              PROVE  ~Press(typed', i, j)
            <4>1. i \in 1..got /\ i # got /\ i \notin released BY <1>1, <2>3, <3>1
            <4>2. i \in 1..Len(sent) BY <1>2, <2>3, <4>1
            <4> QED BY <1>1, <1>2, <2>7, <3>1, <4>1, <4>2 DEF NoneLost
        <3> QED BY <3>1 DEF NoneLost
    <2> QED BY <1>3, <2>4, <2>5, <2>6, <2>7 DEF KeyInv
<1> QED BY <1>2, <1>4, <1>5

\* At the end of the input everything is sent.
LEMMA EOFKeeps ==
    ASSUME KeyInv, ReadEOF
    PROVE  KeyInv' /\ NoneLost'
<1>1. pc = "reading" /\ Flush("eof") /\ UNCHANGED <<typed, got, before>> BY DEF ReadEOF
<1>2. /\ typed' = typed /\ got' = got /\ pending' = <<>> /\ timer' = FALSE
      /\ \/ sent' = sent \o pending /\ pc' = "eof"
         \/ sent' = sent /\ pc' = "failed"
      /\ sent \o pending = received
    BY <1>1, FlushIs, Zenon
<1>3. KeyTypes' BY <1>1, FlushTypes
<1>4. CASE pc' = "failed" BY <1>2, <1>3, <1>4, FailedKeeps
<1>5. CASE pc' = "eof"
    <2>1. sent' = sent \o pending /\ pc' # "reading" /\ pc' # "detached" BY <1>2, <1>5
    <2>2. received' = received BY <1>2 DEF received
    <2>3. sent' = received' BY <1>2, <2>1, <2>2, Zenon
    <2> QED BY <1>2, <1>3, <2>1, <2>3 DEF KeyInv, TimerInv, NoneHeld, InputForwarded, NoneLost
<1> QED BY <1>2, <1>4, <1>5

\* A failing read sends nothing.
LEMMA FailKeeps ==
    ASSUME KeyInv, ReadFails
    PROVE  KeyInv' /\ NoneLost'
<1>1. KeyTypes' BY DEF ReadFails, KeyInv, KeyTypes
<1>2. pc' = "failed" /\ timer' = FALSE BY DEF ReadFails
<1> QED BY <1>1, <1>2, FailedKeeps

\* Nothing was read, sent or held back at first.
LEMMA KeyInit == Init => KeyInv /\ NoneLost
<1> SUFFICES ASSUME Init PROVE KeyInv /\ NoneLost OBVIOUS
<1>1. /\ typed \in Inputs /\ typed \in Seq(Byte) /\ got = 0 /\ before = 0 /\ sent = <<>> /\ pending = <<>>
      /\ timer = FALSE /\ released = {} /\ pc = "reading"
    BY InputsAssumption DEF Init, Byte
<1>2. Len(typed) \in Nat /\ 0 \in 0..Len(typed) /\ Len(<<>>) = 0 /\ <<>> \in Seq(Byte) BY <1>1
<1>3. KeyTypes BY <1>1, <1>2 DEF KeyTypes
<1>4. 1..Len(sent) = {} /\ Len(sent) + 1..got = {} BY <1>1, <1>2
<1>5. TimerInv /\ NoneHeld /\ NoneLost BY <1>1, <1>4 DEF TimerInv, NoneHeld, NoneLost
<1>6. InputForwarded
    <2>1. received = <<>> BY <1>1 DEF received
    <2>2. sent \o pending = received /\ Fragment(pending) BY <1>1, <2>1, EmptyFragment
    <2>3. pc # "eof" /\ pc # "detached" BY <1>1
    <2> QED BY <2>2, <2>3 DEF InputForwarded
<1> QED BY <1>3, <1>5, <1>6 DEF KeyInv

\* A step that changes nothing keeps everything.
LEMMA StutterKeeps ==
    ASSUME UNCHANGED vars
    PROVE  KeyInv' = KeyInv /\ NoneLost' = NoneLost
    BY DEF vars, KeyInv, KeyTypes, TimerInv, NoneHeld, InputForwarded, PressAt, received, NoneLost

\* Every step keeps what is known of the bytes sent and held back; and, where the
\* key is written 92, loses no press.
LEMMA KeyStep ==
    ASSUME KeyInv, [Next]_vars
    PROVE  KeyInv' /\ (PlainKeypresses /\ NoneLost => NoneLost')
<1>1. ASSUME NEW n \in 1..Len(typed) - got, Read(n)
      PROVE  KeyInv' /\ (PlainKeypresses /\ NoneLost => NoneLost')
    BY <1>1, ReadDetaches, ReadContinues, Zenon
<1>2. CASE EscapeTimeout BY <1>2, EscapeKeeps
<1>3. CASE ReadEOF BY <1>3, EOFKeeps
<1>4. CASE ReadFails BY <1>4, FailKeeps
<1>5. CASE UNCHANGED vars BY <1>5, StutterKeeps
<1> QED BY <1>1, <1>2, <1>3, <1>4, <1>5 DEF Next

-----------------------------------------------------------------------------
\* Whatever the input and however it is split into reads (detachScanner.feed and
\* flush, runAttachInput): while the loop reads, all of it was sent but for what
\* is held back, which begins as the detach key does; at the end of the input,
\* all of it; on a detach, all that was read before the read that completed the
\* key, but for such a beginning, and nothing of that read.
THEOREM InputReachesSession == Spec => []InputForwarded
<1>1. Init => KeyInv BY KeyInit
<1>2. KeyInv /\ [Next]_vars => KeyInv' BY KeyStep
<1>3. KeyInv => InputForwarded BY DEF KeyInv
<1> QED BY <1>1, <1>2, <1>3, PTL DEF Spec

\* Where every press writes its key as 92, runAttachInput detaches exactly when
\* the input read so far holds a press whose ESC the timer did not release, in
\* whatever reads it arrived (isCtrlBackslash, ctrlBackslashSuffixLen): a press
\* is neither split out of the scanner's sight nor seen where there is none.
THEOREM DetachesOnTheKey == ASSUME PlainKeypresses PROVE Spec => []DetachIsExact
<1>1. Init => KeyInv /\ NoneLost BY KeyInit
<1>2. KeyInv /\ NoneLost /\ [Next]_vars => (KeyInv /\ NoneLost)' BY KeyStep
<1>3. KeyInv /\ NoneLost => DetachIsExact
    <2> SUFFICES ASSUME KeyInv, NoneLost PROVE DetachIsExact OBVIOUS
    <2>1. typed \in Seq(Byte) /\ sent \in Seq(Byte) /\ got \in 0..Len(typed)
        BY InputsAssumption DEF KeyInv, KeyTypes, Byte
    <2>2. Len(typed) \in Nat /\ Len(sent) \in Nat /\ got \in Nat /\ got <= Len(typed) BY <2>1
    <2>3. ASSUME pc = "reading", NEW j \in 1..got, NEW i \in 1..j PROVE ~PressAt(i, j)
        <3>1. CASE i \in 1..Len(sent)
            <4>1. j \in i..Len(typed) BY <2>2
            <4> QED BY <2>3, <3>1, <4>1 DEF NoneLost, PressAt, Press
        <3>2. CASE i \notin 1..Len(sent)
            <4>1. i \in Len(sent) + 1..got /\ j \in i..got BY <2>2, <3>2
            <4> QED BY <2>3, <4>1 DEF KeyInv, NoneHeld, PressAt, Press
        <3> QED BY <3>1, <3>2
    <2>4. ASSUME pc = "detached" PROVE \E j \in 1..got : \E i \in 1..j : PressAt(i, j)
        <3>1. PICK j \in before + 1..got : \E i \in Len(sent) + 1..j : PressAt(i, j)
            BY <2>4 DEF KeyInv, InputForwarded
        <3>2. PICK i \in Len(sent) + 1..j : PressAt(i, j) BY <3>1
        <3>4. before \in Nat BY <2>2 DEF KeyInv, KeyTypes
        <3>3. j \in 1..got /\ i \in 1..j BY <2>2, <3>4
        <3> QED BY <3>2, <3>3
    <2> QED BY <2>3, <2>4 DEF DetachIsExact
<1> QED BY <1>1, <1>2, <1>3, PTL DEF Spec
=============================================================================
