---------------------------- MODULE VTScanProof ----------------------------
(***************************************************************************)
(* Proofs about the boundary scanner, for streams of any length read in    *)
(* pieces of any size: the parser state says exactly what the reference    *)
(* says of the bytes before a position, output is rendered to exactly the  *)
(* last boundary, and the scrollback cuts and trims at boundaries.         *)
(***************************************************************************)
EXTENDS VTScan, WellFoundedInduction, TLAPS

-----------------------------------------------------------------------------
(* Natural numbers.                                                        *)

\* The order of the naturals is well-founded.
LEMMA Below ==
    \E R : IsWellFoundedOn(R, Nat) /\ \A x, y \in Nat : x < y => <<x, y>> \in R
<1> DEFINE R == OpToRel(<, Nat)
<1>1. IsWellFoundedOn(R, Nat) BY NatLessThanWellFounded
<1>2. \A x, y \in Nat : x < y => <<x, y>> \in R BY DEF OpToRel
<1> HIDE DEF R
<1> QED BY <1>1, <1>2

\* A set of naturals has a least element.
LEMMA Least ==
    ASSUME NEW T \in SUBSET Nat, T # {}
    PROVE  \E m \in T : \A n \in T : m <= n
<1>1. PICK R : IsWellFoundedOn(R, Nat) /\ \A x, y \in Nat : x < y => <<x, y>> \in R
    BY Below
<1>2. IsWellFoundedOn(R, Nat) /\ T \subseteq Nat BY <1>1
<1>3. \E m \in T : \A y \in T : ~(<<y, m>> \in R) BY <1>2, WFMin, Zenon
<1>4. PICK m \in T : \A y \in T : ~(<<y, m>> \in R) BY <1>3
<1>5. ASSUME NEW n \in T PROVE m <= n
    <2>1. m \in Nat /\ n \in Nat OBVIOUS
    <2>2. ~(n < m) BY <1>1, <1>4, <2>1, Zenon
    <2> QED BY <2>1, <2>2
<1> QED BY <1>5

\* Induction, as a fact about sets of naturals.
LEMMA Induct ==
    ASSUME NEW S \in SUBSET Nat, 0 \in S, \A n \in S : n + 1 \in S
    PROVE  \A n \in Nat : n \in S
<1> SUFFICES ASSUME NEW n \in Nat, n \notin S PROVE FALSE OBVIOUS
<1> DEFINE T == Nat \ S
<1>1. T \in SUBSET Nat /\ T # {} OBVIOUS
<1>2. PICK m \in T : \A k \in T : m <= k
    <2> HIDE DEF T
    <2> QED BY <1>1, Least
<1>3. m \in Nat /\ m # 0 BY <1>2
<1>4. m - 1 \in Nat /\ ~(m <= m - 1) BY <1>3
<1>5. m - 1 \in S BY <1>2, <1>4
<1>6. (m - 1) + 1 \in S BY <1>5
<1> QED BY <1>2, <1>3, <1>6

\* Bounded sets of naturals have the extremes that Min and Max choose.
LEMMA MinIs ==
    ASSUME NEW T \in SUBSET Nat, T # {}
    PROVE  Min(T) \in T /\ \A n \in T : Min(T) <= n
<1>1. \E m \in T : \A n \in T : m <= n BY Least
<1> QED BY <1>1 DEF Min

\* The greatest element of a bounded set, from the least of its mirror image.
LEMMA MaxIs ==
    ASSUME NEW b \in Nat, NEW T \in SUBSET (0..b), T # {}
    PROVE  Max(T) \in T /\ \A n \in T : n <= Max(T)
<1> DEFINE U == {k \in 0..b : b - k \in T}
<1>1. U \in SUBSET Nat OBVIOUS
<1>2. U # {}
    <2>1. PICK n \in T : TRUE OBVIOUS
    <2>2. n \in 0..b /\ b - n \in 0..b /\ b - (b - n) = n BY <2>1
    <2> QED BY <2>1, <2>2
<1>3. PICK m \in U : \A k \in U : m <= k
    <2> HIDE DEF U
    <2> QED BY <1>1, <1>2, Least
<1>4. b - m \in T BY <1>3
<1>5. ASSUME NEW n \in T PROVE n <= b - m
    <2>1. n \in 0..b /\ b - n \in 0..b /\ b - (b - n) = n OBVIOUS
    <2>2. b - n \in U BY <2>1
    <2>3. m <= b - n /\ m \in 0..b BY <1>3, <2>2
    <2> QED BY <2>1, <2>3
<1>6. \E x \in T : \A y \in T : x >= y
    <2>1. \A n \in T : b - m >= n BY <1>3, <1>5
    <2> QED BY <1>4, <2>1
<1>7. Max(T) \in T /\ \A y \in T : Max(T) >= y BY <1>6 DEF Max
<1> QED BY <1>7

\* A value computed one index after another: h says how, from x on.
Rungs(X, n, h) == h \in [X \X (1..n) -> X]
Climbs(X, n, h, x, g) ==
    g \in [0..n -> X] /\ g[0] = x /\ \A i \in 1..n : g[i] = h[<<g[i - 1], i>>]

\* Such a sequence exists: by induction on its length, as a set of lengths.
LEMMA Ladder ==
    ASSUME NEW X, NEW x \in X, NEW n \in Nat, NEW h, Rungs(X, n, h)
    PROVE  \E g : Climbs(X, n, h, x, g)
<1> USE DEF Rungs
<1> DEFINE Up(k) == \E g \in [0..k -> X] : g[0] = x /\ \A i \in 1..k : g[i] = h[<<g[i - 1], i>>]
           S == {k \in Nat : k <= n => Up(k)}
<1>1. 0 \in S
    <2> DEFINE g == [i \in 0..0 |-> x]
    <2>1. g \in [0..0 -> X] /\ g[0] = x /\ \A i \in 1..0 : g[i] = h[<<g[i - 1], i>>] OBVIOUS
    <2> HIDE DEF g
    <2> QED BY <2>1
<1>2. ASSUME NEW k \in S PROVE k + 1 \in S
    <2> SUFFICES ASSUME k + 1 <= n PROVE Up(k + 1) OBVIOUS
    <2>1. PICK g \in [0..k -> X] : g[0] = x /\ \A i \in 1..k : g[i] = h[<<g[i - 1], i>>]
        OBVIOUS
    <2>2. k \in Nat /\ g[k] \in X /\ k + 1 \in 1..n OBVIOUS
    <2>3. h[<<g[k], k + 1>>] \in X BY <2>2
    <2> DEFINE f == [i \in 0..k + 1 |-> IF i = k + 1 THEN h[<<g[k], k + 1>>] ELSE g[i]]
    <2>4. f \in [0..k + 1 -> X] BY <2>2, <2>3
    <2>5. \A i \in 0..k : f[i] = g[i] BY <2>2
    <2>6. f[k + 1] = h[<<g[k], k + 1>>] BY <2>2
    <2> HIDE DEF f
    <2>7. ASSUME NEW i \in 1..k + 1 PROVE f[i] = h[<<f[i - 1], i>>]
        <3>1. CASE i \in 1..k
            <4>1. i \in 0..k /\ i - 1 \in 0..k BY <2>2, <3>1
            <4>2. f[i] = g[i] /\ f[i - 1] = g[i - 1] BY <2>5, <4>1
            <4> QED BY <2>1, <3>1, <4>2
        <3>2. CASE i = k + 1
            <4>1. i - 1 = k /\ k \in 0..k BY <2>2, <3>2
            <4> QED BY <2>5, <2>6, <3>2, <4>1
        <3> QED BY <2>2, <3>1, <3>2
    <2> QED BY <2>1, <2>2, <2>4, <2>5, <2>7
<1>3. S \in SUBSET Nat OBVIOUS
<1> HIDE DEF S
<1>4. n \in S BY <1>1, <1>2, <1>3, Induct
<1> QED BY <1>4 DEF S, Climbs

-----------------------------------------------------------------------------
(* The scanner's states.                                                   *)

ScanState == [st : States, utf8Pending : 0..3]

\* A byte takes a state to a state, and a rune is pending only at ground.
LEMMA StepType ==
    ASSUME NEW s \in ScanState, NEW b \in ByteClasses
    PROVE  step(s, b) \in ScanState
<1>1. s.st \in States /\ s.utf8Pending \in 0..3 BY DEF ScanState
<1>2. stepGround(s, b) \in ScanState
    <2>1. b \in DOMAIN RuneLength => RuneLength[b] \in 1..3 BY DEF RuneLength
    <2>2. s.utf8Pending > 0 => s.utf8Pending - 1 \in 0..3 BY <1>1
    <2>3. \A n \in 0..3 : [s EXCEPT !.utf8Pending = n] \in ScanState BY DEF ScanState
    <2>4. [st |-> "escape", utf8Pending |-> 0] \in ScanState BY DEF ScanState, States
    <2> QED BY <1>1, <2>1, <2>2, <2>3, <2>4 DEF stepGround
<1>3. stepSequence(s.st, b) \in States
    <2>1. stepEscape(b) \in States BY DEF stepEscape, States
    <2>2. stepCSI(s.st, b) \in States BY <1>1 DEF stepCSI, States
    <2>3. stepCSIIntermediate(b) \in States BY DEF stepCSIIntermediate, States
    <2>4. stepDCS(s.st, b) \in States BY <1>1 DEF stepDCS, States
    <2> QED BY <1>1, <2>1, <2>2, <2>3, <2>4 DEF stepSequence, States
<1>4. \A t \in States : [s EXCEPT !.st = t] \in ScanState BY DEF ScanState
<1>5. "ground" \in States /\ "escape" \in States BY DEF States
<1> QED BY <1>2, <1>3, <1>4, <1>5 DEF step

\* Scanned is the function its definition says: one step for every byte.
LEMMA ScannedIs ==
    ASSUME NEW s \in ScanState, NEW bytes \in Seq(ByteClasses)
    PROVE  /\ Scanned(s, bytes) \in [0..Len(bytes) -> ScanState]
           /\ Scanned(s, bytes)[0] = s
           /\ \A i \in 1..Len(bytes) : Scanned(s, bytes)[i] = step(Scanned(s, bytes)[i - 1], bytes[i])
<1> DEFINE n == Len(bytes)
           h == [p \in ScanState \X (1..n) |-> step(p[1], bytes[p[2]])]
           Runs(g) == g = [i \in 0..n |-> IF i = 0 THEN s ELSE step(g[i - 1], bytes[i])]
<1>1. n \in Nat OBVIOUS
<1>2. h \in [ScanState \X (1..n) -> ScanState]
    <2>1. ASSUME NEW p \in ScanState \X (1..n) PROVE step(p[1], bytes[p[2]]) \in ScanState
        <3>1. p[1] \in ScanState /\ p[2] \in 1..n OBVIOUS
        <3>2. bytes[p[2]] \in ByteClasses BY <3>1
        <3> QED BY <3>1, <3>2, StepType
    <2> QED BY <2>1
<1>3. \A x \in ScanState, i \in 1..n : h[<<x, i>>] = step(x, bytes[i]) OBVIOUS
<1> HIDE DEF h, n
<1>4. PICK g \in [0..n -> ScanState] : g[0] = s /\ \A i \in 1..n : g[i] = h[<<g[i - 1], i>>]
    <2>1. Rungs(ScanState, n, h) BY <1>2 DEF Rungs
    <2>2. \E g : Climbs(ScanState, n, h, s, g) BY <1>1, <2>1, Ladder
    <2> QED BY <2>2 DEF Climbs
<1>5. \A i \in 1..n : g[i] = step(g[i - 1], bytes[i])
    <2> SUFFICES ASSUME NEW i \in 1..n PROVE g[i] = step(g[i - 1], bytes[i]) OBVIOUS
    <2>1. i - 1 \in 0..n BY <1>1
    <2> QED BY <1>3, <1>4, <2>1
<1>6. Runs(g)
    <2>1. g = [i \in 0..n |-> g[i]] BY <1>4
    <2>2. \A i \in 0..n : g[i] = IF i = 0 THEN s ELSE step(g[i - 1], bytes[i])
        BY <1>1, <1>4, <1>5
    <2> QED BY <2>1, <2>2
<1> DEFINE r == Scanned(s, bytes)
<1>7. r = CHOOSE a : Runs(a) BY DEF Scanned, n
<1>8. Runs(r)
    <2> HIDE DEF Runs, r
    <2> QED BY <1>6, <1>7
<1>9. r[0] = s /\ \A i \in 1..n : r[i] = step(r[i - 1], bytes[i])
    <2> HIDE DEF r
    <2>1. r = [i \in 0..n |-> IF i = 0 THEN s ELSE step(r[i - 1], bytes[i])] BY <1>8
    <2>2. \A i \in 0..n : r[i] = IF i = 0 THEN s ELSE step(r[i - 1], bytes[i]) BY <2>1
    <2> QED BY <1>1, <2>2
<1>10. DOMAIN r = 0..n /\ r = [i \in 0..n |-> r[i]]
    <2> HIDE DEF r
    <2>1. r = [i \in 0..n |-> IF i = 0 THEN s ELSE step(r[i - 1], bytes[i])] BY <1>8
    <2> QED BY <2>1
<1> HIDE DEF r, Runs
<1>11. \A i \in 0..n : r[i] = g[i]
    <2> DEFINE S == {i \in Nat : i <= n => r[i] = g[i]}
    <2>1. 0 \in S BY <1>4, <1>9
    <2>2. ASSUME NEW i \in S PROVE i + 1 \in S
        <3> SUFFICES ASSUME i + 1 <= n PROVE r[i + 1] = g[i + 1] OBVIOUS
        <3>1. i \in Nat /\ i + 1 \in 1..n /\ (i + 1) - 1 = i /\ r[i] = g[i] BY <1>1
        <3>2. r[i + 1] = step(r[i], bytes[i + 1]) BY <1>9, <3>1
        <3>3. g[i + 1] = step(g[i], bytes[i + 1]) BY <1>5, <3>1
        <3> QED BY <3>1, <3>2, <3>3
    <2>3. S \in SUBSET Nat OBVIOUS
    <2> HIDE DEF S
    <2>4. \A i \in Nat : i \in S BY <2>1, <2>2, <2>3, Induct
    <2> QED BY <1>1, <2>4 DEF S
<1>12. r \in [0..n -> ScanState] BY <1>4, <1>10, <1>11
<1> QED BY <1>9, <1>12 DEF r, n

-----------------------------------------------------------------------------
(* How the reference changes with one more byte.                           *)

\* The last ESC.
LEMMA LastEscNext ==
    ASSUME NEW s \in Seq(ByteClasses), NEW p \in Nat
    PROVE  /\ LastEsc(s, 0) = 0
           /\ LastEsc(s, p + 1) = IF s[p + 1] = "esc" THEN p + 1 ELSE LastEsc(s, p)
           /\ LastEsc(s, p) \in 0..p
<1> DEFINE es(q) == {i \in 1..q : s[i] = "esc"}
<1>1. LastEsc(s, 0) = 0
    <2>1. es(0) = {} OBVIOUS
    <2> QED BY <2>1 DEF LastEsc
<1>2. ASSUME s[p + 1] = "esc" PROVE LastEsc(s, p + 1) = p + 1
    <2>1. p + 1 \in es(p + 1) /\ \A i \in es(p + 1) : p + 1 >= i BY <1>2
    <2>2. es(p + 1) # {} BY <2>1
    <2>3. Max(es(p + 1)) = p + 1
        <3>1. es(p + 1) \subseteq Nat OBVIOUS
        <3> HIDE DEF es
        <3>2. Max(es(p + 1)) \in es(p + 1) /\ \A i \in es(p + 1) : Max(es(p + 1)) >= i
            BY <2>1 DEF Max
        <3> QED BY <2>1, <3>1, <3>2
    <2> QED BY <1>2, <2>2, <2>3 DEF LastEsc
<1>3. ASSUME s[p + 1] # "esc" PROVE LastEsc(s, p + 1) = LastEsc(s, p)
    <2>1. es(p + 1) = es(p) BY <1>3
    <2> QED BY <1>3, <2>1 DEF LastEsc
<1>4. LastEsc(s, p) \in 0..p
    <2>1. es(p) \in SUBSET (0..p) OBVIOUS
    <2>2. es(p) # {} => Max(es(p)) \in es(p)
        <3> HIDE DEF es
        <3> QED BY <2>1, MaxIs
    <2> QED BY <2>1, <2>2 DEF LastEsc
<1> QED BY <1>1, <1>2, <1>3, <1>4

\* The least element of a set that grows by one element above it.
Grows(T, U, n) == (\A i \in T : i < n) /\ T \subseteq U /\ U \subseteq T \cup {n}

\* What the new element changes: nothing, unless the set was empty.
LEMMA FirstStays ==
    ASSUME NEW T \in SUBSET Nat, NEW U \in SUBSET Nat, NEW n \in Nat, Grows(T, U, n)
    PROVE  /\ T # {} => U # {} /\ Min(U) = Min(T)
           /\ T = {} /\ n \in U => U # {} /\ Min(U) = n
<1> USE DEF Grows
<1>1. ASSUME T # {} PROVE Min(U) = Min(T)
    <2>1. PICK a : a = Min(T) OBVIOUS
    <2>2. PICK b : b = Min(U) OBVIOUS
    <2>3. a \in T /\ \A i \in T : a <= i BY <1>1, <2>1, MinIs
    <2>4. b \in U /\ \A i \in U : b <= i BY <1>1, <2>2, MinIs
    <2>5. a \in U /\ a \in Nat /\ b \in Nat /\ a < n /\ b <= a BY <2>3, <2>4
    <2>6. b \in T BY <2>4, <2>5
    <2>7. a = b BY <2>3, <2>5, <2>6
    <2> QED BY <2>1, <2>2, <2>7
<1>2. ASSUME T = {}, n \in U PROVE Min(U) = n
    <2>1. Min(U) \in U BY <1>2, MinIs
    <2> QED BY <1>2, <2>1
<1> QED BY <1>1, <1>2

\* The introducer of a sequence.
LEMMA IntroducerNext ==
    ASSUME NEW s \in Seq(ByteClasses), NEW p \in Nat, NEW e \in Nat, e <= p
    PROVE  /\ Introducer(s, e, e) = 0
           /\ Introducer(s, e, p) \in {0} \cup (e + 1..p)
           /\ Introducer(s, e, p + 1) =
                 IF Introducer(s, e, p) # 0 THEN Introducer(s, e, p)
                 ELSE IF s[p + 1] \notin Idle THEN p + 1 ELSE 0
<1> DEFINE is(q) == {i \in e + 1..q : s[i] \notin Idle}
           in(q) == Introducer(s, e, q)
<1>1. in(e) = 0
    <2>1. is(e) = {} OBVIOUS
    <2> QED BY <2>1 DEF Introducer
<1>2. is(p) \in SUBSET Nat /\ is(p + 1) \in SUBSET Nat OBVIOUS
<1>3. Grows(is(p), is(p + 1), p + 1) /\ (p + 1 \in is(p + 1) <=> s[p + 1] \notin Idle)
    BY DEF Grows
<1>4. in(p) = IF is(p) = {} THEN 0 ELSE Min(is(p)) BY DEF Introducer
<1>5. in(p + 1) = IF is(p + 1) = {} THEN 0 ELSE Min(is(p + 1)) BY DEF Introducer
<1>6. is(p) # {} => Min(is(p)) \in e + 1..p /\ Min(is(p)) # 0
    <2>1. is(p) \subseteq e + 1..p /\ \A i \in is(p) : i # 0 OBVIOUS
    <2> HIDE DEF is
    <2>2. is(p) # {} => Min(is(p)) \in is(p) BY <1>2, MinIs
    <2> QED BY <2>1, <2>2
<1> HIDE DEF is
<1>7. /\ is(p) # {} => is(p + 1) # {} /\ Min(is(p + 1)) = Min(is(p))
      /\ is(p) = {} /\ p + 1 \in is(p + 1) => is(p + 1) # {} /\ Min(is(p + 1)) = p + 1
    <2>1. p + 1 \in Nat OBVIOUS
    <2> QED BY <1>2, <1>3, <2>1, FirstStays
<1> HIDE DEF in
<1>8. in(p) \in {0} \cup (e + 1..p) BY <1>4, <1>6
<1>9. in(p + 1) = IF in(p) # 0 THEN in(p) ELSE IF s[p + 1] \notin Idle THEN p + 1 ELSE 0
    <2>1. CASE is(p) # {} BY <1>4, <1>5, <1>6, <1>7, <2>1
    <2>2. CASE is(p) = {} /\ p + 1 \in is(p + 1) BY <1>3, <1>4, <1>5, <1>7, <2>2
    <2>3. CASE is(p) = {} /\ p + 1 \notin is(p + 1)
        <3>1. is(p + 1) = {} BY <1>3, <2>3 DEF Grows
        <3> QED BY <1>3, <1>4, <1>5, <2>3, <3>1
    <2> QED BY <2>1, <2>2, <2>3
<1> QED BY <1>1, <1>8, <1>9 DEF in

\* Bytes that are a whole sequence after ESC.
Short == Params \cup {"final", "can"}

\* The end of a sequence.
EndStep(s, e, p) ==
    LET k == Introducer(s, e, p)
        f == SequenceEnd(s, e, p)
    IN  /\ SequenceEnd(s, e, e) = 0
        /\ f \in 0..p /\ (f # 0 => k # 0)
        /\ k # 0 /\ s[k] \in Short => f = k
        /\ SequenceEnd(s, e, p + 1) =
              IF f # 0 THEN f
              ELSE IF k # 0 /\ s[p + 1] \in EndsKind(s[k]) THEN p + 1
              ELSE IF k = 0 /\ s[p + 1] \in Short THEN p + 1
              ELSE 0

\* One more byte ends the sequence exactly as EndStep says.
LEMMA SequenceEndNext ==
    ASSUME NEW s \in Seq(ByteClasses), NEW p \in Nat, NEW e \in Nat, e <= p
    PROVE  EndStep(s, e, p)
<1> DEFINE k == Introducer(s, e, p)
           l == Introducer(s, e, p + 1)
           ends(i, q) == {j \in i + 1..q : s[j] \in EndsKind(s[i])}
           f == SequenceEnd(s, e, p)
           g == SequenceEnd(s, e, p + 1)
<1>1. /\ f = IF k = 0 THEN 0 ELSE IF s[k] \in Short THEN k
             ELSE IF ends(k, p) = {} THEN 0 ELSE Min(ends(k, p))
      /\ g = IF l = 0 THEN 0 ELSE IF s[l] \in Short THEN l
             ELSE IF ends(l, p + 1) = {} THEN 0 ELSE Min(ends(l, p + 1))
    BY DEF SequenceEnd, Short
<1>2. SequenceEnd(s, e, e) = 0 BY IntroducerNext DEF SequenceEnd
<1>3. /\ k \in {0} \cup (e + 1..p)
      /\ l = IF k # 0 THEN k ELSE IF s[p + 1] \notin Idle THEN p + 1 ELSE 0
    BY IntroducerNext
<1>4. s[p + 1] \in Short => s[p + 1] \notin Idle BY DEF Short, Idle, Params
<1> HIDE DEF k, l, f, g
<1>5. CASE k = 0
    <2>1. f = 0 BY <1>1, <1>5
    <2>2. ends(p + 1, p + 1) = {} OBVIOUS
    <2> HIDE DEF ends
    <2>3. g = IF s[p + 1] \in Short THEN p + 1 ELSE 0 BY <1>1, <1>3, <1>4, <1>5, <2>2
    <2> QED BY <1>2, <1>5, <2>1, <2>3 DEF k, f, g, EndStep
<1>6. CASE k # 0 /\ s[k] \in Short
    <2>1. f = k /\ g = k /\ k \in 0..p BY <1>1, <1>3, <1>6
    <2> QED BY <1>2, <1>6, <2>1 DEF k, f, g, EndStep
<1>7. CASE k # 0 /\ s[k] \notin Short
    <2>1. k \in Nat /\ k <= p /\ l = k BY <1>3, <1>7
    <2>2. ends(k, p) \in SUBSET Nat /\ ends(k, p + 1) \in SUBSET Nat BY <2>1
    <2>3. /\ Grows(ends(k, p), ends(k, p + 1), p + 1)
          /\ \A i \in ends(k, p) : i \in 0..p /\ i # 0
          /\ p + 1 \in ends(k, p + 1) <=> s[p + 1] \in EndsKind(s[k])
        BY <2>1 DEF Grows
    <2>4. PICK T : T = ends(k, p) OBVIOUS
    <2>5. PICK U : U = ends(k, p + 1) OBVIOUS
    <2>6. /\ T \in SUBSET Nat /\ U \in SUBSET Nat /\ Grows(T, U, p + 1)
          /\ \A i \in T : i \in 0..p /\ i # 0
          /\ p + 1 \in U <=> s[p + 1] \in EndsKind(s[k])
          /\ f = (IF T = {} THEN 0 ELSE Min(T)) /\ g = (IF U = {} THEN 0 ELSE Min(U))
        <3> HIDE DEF ends
        <3> QED BY <1>1, <1>7, <2>1, <2>2, <2>3, <2>4, <2>5
    <2>7. T # {} => Min(T) \in T BY <2>6, MinIs
    <2>8. /\ T # {} => U # {} /\ Min(U) = Min(T)
          /\ T = {} /\ p + 1 \in U => U # {} /\ Min(U) = p + 1
        <3>1. p + 1 \in Nat OBVIOUS
        <3> QED BY ONLY <2>6, <3>1, FirstStays
    <2>9. f \in 0..p BY <2>6, <2>7
    <2>10. g = IF f # 0 THEN f ELSE IF s[p + 1] \in EndsKind(s[k]) THEN p + 1 ELSE 0
        <3>1. CASE T # {} BY <2>6, <2>7, <2>8, <3>1
        <3>2. CASE T = {} /\ p + 1 \in U BY <2>6, <2>8, <3>2
        <3>3. CASE T = {} /\ p + 1 \notin U
            <4>1. U = {} BY <2>6, <3>3 DEF Grows
            <4> QED BY <2>6, <3>3, <4>1
        <3> QED BY <3>1, <3>2, <3>3
    <2> QED BY <1>2, <1>7, <2>9, <2>10 DEF k, f, g, EndStep
<1> QED BY <1>5, <1>6, <1>7

-----------------------------------------------------------------------------
(* The scanner's state says what the reference says of the bytes before.   *)

\* The lead byte j positions before p has a rune that is not complete at p.
RuneAt(s, from, p, j) ==
    /\ p - j > from
    /\ \A i \in p - j + 1..p : s[i] = "cont"
    /\ s[p - j] \in DOMAIN RuneLength /\ RuneLength[s[p - j]] > j

\* u bytes of a rune that began after from are missing at p.
Missing(s, from, p, u) ==
    /\ u = 0 => \A j \in 0..2 : ~RuneAt(s, from, p, j)
    /\ u # 0 => \E j \in 0..2 : RuneAt(s, from, p, j) /\ u = RuneLength[s[p - j]] - j

\* The sequence states by the byte that introduced the sequence.
KindStates(b) ==
    CASE b = "[" -> {"csiEntry", "csiParam", "csiIntermediate", "csiIgnore"}
      [] b = "]" -> {"oscString"}
      [] b = "inter" -> {"escapeIntermediate"}
      [] b = "P" -> {"dcsEntry", "dcsParam", "dcsIntermediate", "dcsPassthrough", "dcsIgnore"}
      [] OTHER -> {"stringIgnore"}

Start(s, p) == IF LastEsc(s, p) = 0 THEN 0 ELSE SequenceEnd(s, LastEsc(s, p), p)

\* q is the state after p bytes of s.
Tracks(s, p, q) ==
    LET e == LastEsc(s, p)
        k == Introducer(s, e, p)
    IN  IF e = 0 \/ Start(s, p) # 0
        THEN q.st = "ground" /\ Missing(s, Start(s, p), p, q.utf8Pending)
        ELSE /\ q.utf8Pending = 0
             /\ IF k = 0 THEN q.st = "escape" ELSE q.st \in KindStates(s[k])

\* The reference's InsideRune, by the number of continuation bytes seen.
LEMMA InsideRuneIs ==
    ASSUME NEW s, NEW from \in Nat, NEW p \in Nat
    PROVE  InsideRune(s, from, p) <=> \E j \in 0..2 : RuneAt(s, from, p, j)
<1> DEFINE leads == <<{"lead2", "lead3", "lead4"}, {"lead3", "lead4"}, {"lead4"}>>
<1>1. ASSUME NEW j \in 0..2, NEW b
      PROVE  b \in leads[j + 1] <=> b \in DOMAIN RuneLength /\ RuneLength[b] > j
    <2>1. /\ DOMAIN RuneLength = {"lead2", "lead3", "lead4"}
          /\ RuneLength["lead2"] = 1 /\ RuneLength["lead3"] = 2 /\ RuneLength["lead4"] = 3
        BY DEF RuneLength
    <2>2. j = 0 \/ j = 1 \/ j = 2 OBVIOUS
    <2>3. leads[1] = {"lead2", "lead3", "lead4"} /\ leads[2] = {"lead3", "lead4"} /\ leads[3] = {"lead4"}
        OBVIOUS
    <2> HIDE DEF leads
    <2>4. CASE j = 0 BY <2>1, <2>3, <2>4
    <2>5. CASE j = 1 BY <2>1, <2>3, <2>5
    <2>6. CASE j = 2 BY <2>1, <2>3, <2>6
    <2> QED BY <2>2, <2>4, <2>5, <2>6
<1>2. InsideRune(s, from, p) <=>
         \E j \in 0..2 : /\ p - j > from
                         /\ \A i \in p - j + 1..p : s[i] = "cont"
                         /\ s[p - j] \in leads[j + 1]
    BY DEF InsideRune
<1> HIDE DEF leads
<1> QED BY <1>1, <1>2 DEF RuneAt

\* Two incomplete runes at one position are one.
LEMMA OneRune ==
    ASSUME NEW s, NEW from \in Nat, NEW p \in Nat, NEW i \in 0..2, NEW j \in 0..2,
           RuneAt(s, from, p, i), RuneAt(s, from, p, j)
    PROVE  i = j
<1>1. ASSUME NEW x \in 0..2, NEW y \in 0..2, x < y, RuneAt(s, from, p, x), RuneAt(s, from, p, y)
      PROVE  FALSE
    <2>1. p - x \in p - y + 1..p BY <1>1
    <2>2. s[p - x] = "cont" BY <1>1, <2>1 DEF RuneAt
    <2>3. s[p - x] \in {"lead2", "lead3", "lead4"} BY <1>1 DEF RuneAt, RuneLength
    <2> QED BY <2>2, <2>3
<1>2. i < j \/ j < i \/ i = j OBVIOUS
<1> QED BY <1>1, <1>2

\* What one more continuation byte makes of an incomplete rune.
LEMMA RuneNext ==
    ASSUME NEW s, NEW from \in Nat, NEW p \in Nat, from <= p, NEW j \in 0..2
    PROVE  RuneAt(s, from, p + 1, j) <=>
              IF j = 0 THEN s[p + 1] \in DOMAIN RuneLength
              ELSE /\ s[p + 1] = "cont" /\ RuneAt(s, from, p, j - 1)
                   /\ RuneLength[s[p - (j - 1)]] > j
<1>0. \A b \in DOMAIN RuneLength : RuneLength[b] \in 1..3 BY DEF RuneLength
<1>1. CASE j = 0
    <2>1. p + 1 - j = p + 1 /\ p + 1 > from /\ (p + 1 - j) + 1..p + 1 = {} BY <1>1
    <2> QED BY <1>0, <1>1, <2>1 DEF RuneAt
<1>2. CASE j # 0
    <2>1. p + 1 - j = p - (j - 1) OBVIOUS
    <2>2. (p + 1 - j) + 1..p + 1 = (p - (j - 1) + 1..p) \cup {p + 1} BY <1>2
    <2>3. (\A i \in (p + 1 - j) + 1..p + 1 : s[i] = "cont") <=>
             s[p + 1] = "cont" /\ \A i \in p - (j - 1) + 1..p : s[i] = "cont"
        BY <2>2
    <2>4. \A b \in DOMAIN RuneLength : RuneLength[b] > j => RuneLength[b] > j - 1 BY <1>0
    <2> QED BY <1>2, <2>1, <2>3, <2>4 DEF RuneAt
<1> QED BY <1>1, <1>2

\* A byte at ground.
LEMMA MissingNext ==
    ASSUME NEW s \in Seq(ByteClasses), NEW from \in Nat, NEW p \in Nat, from <= p,
           NEW q \in ScanState, q.st = "ground", Missing(s, from, p, q.utf8Pending),
           NEW b, b = s[p + 1], b # "esc", NEW r, r = stepGround(q, b)
    PROVE  r.st = "ground" /\ Missing(s, from, p + 1, r.utf8Pending)
<1> DEFINE u == q.utf8Pending
<1>0. u \in 0..3 BY DEF ScanState
<1>1. \A x \in DOMAIN RuneLength : RuneLength[x] \in 1..3 /\ x # "cont" BY DEF RuneLength
<1>2. \A n : [q EXCEPT !.utf8Pending = n].st = "ground" /\ [q EXCEPT !.utf8Pending = n].utf8Pending = n
    BY DEF ScanState
<1>3. CASE u > 0 /\ b = "cont"
    <2>1. r = [q EXCEPT !.utf8Pending = u - 1] BY <1>3 DEF stepGround
    <2>2. r.st = "ground" /\ r.utf8Pending = u - 1 BY <1>2, <2>1
    <2>3. PICK j \in 0..2 : RuneAt(s, from, p, j) /\ u = RuneLength[s[p - j]] - j
        BY <1>0, <1>3 DEF Missing
    <2>4. RuneLength[s[p - j]] \in 1..3 BY <1>1, <2>3 DEF RuneAt
    <2>5. CASE u - 1 = 0
        <3>1. ASSUME NEW i \in 0..2, RuneAt(s, from, p + 1, i) PROVE FALSE
            <4>1. i # 0 /\ RuneAt(s, from, p, i - 1) /\ RuneLength[s[p - (i - 1)]] > i
                BY <1>1, <1>3, <3>1, RuneNext
            <4>2. i - 1 \in 0..2 BY <4>1
            <4>3. i - 1 = j BY <2>3, <4>1, <4>2, OneRune
            <4>4. RuneLength[s[p - j]] > i BY <4>1, <4>3
            <4> QED BY <2>3, <2>4, <2>5, <4>3, <4>4
        <3> QED BY <2>2, <2>5, <3>1 DEF Missing
    <2>6. CASE u - 1 # 0
        <3>1. RuneLength[s[p - j]] > j + 1 /\ j + 1 \in 0..2 /\ (j + 1) - 1 = j /\ (p + 1) - (j + 1) = p - j
            BY <1>0, <1>3, <2>3, <2>4, <2>6
        <3>2. RuneAt(s, from, p + 1, j + 1)
            <4>1. PICK i \in 0..2 : i = j + 1 BY <3>1
            <4>2. i # 0 /\ i - 1 = j BY <4>1
            <4>3. RuneAt(s, from, p + 1, i) BY <1>3, <2>3, <3>1, <4>1, <4>2, RuneNext
            <4> QED BY <4>1, <4>3
        <3>3. u - 1 = RuneLength[s[(p + 1) - (j + 1)]] - (j + 1) BY <2>3, <2>4, <3>1
        <3> QED BY <2>2, <2>6, <3>1, <3>2, <3>3 DEF Missing
    <2> QED BY <2>5, <2>6
<1>4. CASE b \in DOMAIN RuneLength
    <2>1. r = [q EXCEPT !.utf8Pending = RuneLength[b]] BY <1>1, <1>4 DEF stepGround
    <2>2. r.st = "ground" /\ r.utf8Pending = RuneLength[b] /\ RuneLength[b] \in 1..3 BY <1>1, <1>2, <1>4, <2>1
    <2>3. 0 \in 0..2 /\ RuneAt(s, from, p + 1, 0) BY <1>4, RuneNext
    <2>4. RuneLength[b] = RuneLength[s[(p + 1) - 0]] - 0 BY <2>2
    <2> QED BY <2>2, <2>3, <2>4 DEF Missing
<1>5. CASE ~(u > 0 /\ b = "cont") /\ b \notin DOMAIN RuneLength
    <2>1. r = [q EXCEPT !.utf8Pending = 0] BY <1>5 DEF stepGround
    <2>2. r.st = "ground" /\ r.utf8Pending = 0 BY <1>2, <2>1
    <2>3. ASSUME NEW i \in 0..2, RuneAt(s, from, p + 1, i) PROVE FALSE
        <3>1. i # 0 /\ b = "cont" /\ RuneAt(s, from, p, i - 1) BY <1>5, <2>3, RuneNext
        <3>2. i - 1 \in 0..2 /\ u = 0 BY <1>0, <1>5, <3>1
        <3> QED BY <3>1, <3>2 DEF Missing
    <2> QED BY <2>2, <2>3 DEF Missing
<1> QED BY <1>3, <1>4, <1>5

\* What the introducer and the bytes since the last ESC are.
LEMMA IntroducerByte ==
    ASSUME NEW s, NEW p \in Nat, NEW e \in Nat, Introducer(s, e, p) # 0
    PROVE  s[Introducer(s, e, p)] \notin Idle
<1> DEFINE is == {i \in e + 1..p : s[i] \notin Idle}
<1>1. is \in SUBSET Nat /\ is # {} /\ Introducer(s, e, p) = Min(is) BY DEF Introducer
<1>2. Min(is) \in is
    <2> HIDE DEF is
    <2> QED BY <1>1, MinIs
<1> QED BY <1>1, <1>2

\* No ESC comes after the last one.
LEMMA SinceEsc ==
    ASSUME NEW s, NEW p \in Nat, NEW i \in LastEsc(s, p) + 1..p, LastEsc(s, p) \in Nat
    PROVE  s[i] # "esc"
<1> SUFFICES ASSUME s[i] = "esc" PROVE FALSE OBVIOUS
<1> DEFINE es == {j \in 1..p : s[j] = "esc"}
<1>1. es \in SUBSET (0..p) /\ i \in es OBVIOUS
<1>2. LastEsc(s, p) = Max(es) BY <1>1 DEF LastEsc
<1>3. i <= Max(es)
    <2> HIDE DEF es
    <2> QED BY <1>1, MaxIs
<1> QED BY <1>2, <1>3

\* A byte that starts, continues or ends a sequence: what stepSequence does is
\* what the introducer and the ends of its kind say.
LEMMA EscapeNext ==
    ASSUME NEW b \in ByteClasses, b # "esc", b # "can"
    PROVE  /\ b \in Idle => stepEscape(b) = "escape"
           /\ b \in Short => stepEscape(b) = "ground"
           /\ b \notin Idle /\ b \notin Short => stepEscape(b) \in KindStates(b)
BY DEF stepEscape, KindStates, Idle, Short, Params, ByteClasses

\* A sequence state is left for ground on exactly the bytes that end its kind.
LEMMA KindNext ==
    ASSUME NEW k \in ByteClasses, k \notin Idle, k \notin Short, k # "esc",
           NEW t \in KindStates(k), NEW b \in ByteClasses, b # "esc", b # "can"
    PROVE  /\ b \in EndsKind(k) => stepSequence(t, b) = "ground"
           /\ b \notin EndsKind(k) => stepSequence(t, b) \in KindStates(k)
<1>0. k \in {"[", "]", "inter", "P", "X"} BY DEF ByteClasses, Idle, Short, Params
<1>1. CASE k = "["
    <2>1. t \in {"csiEntry", "csiParam", "csiIntermediate", "csiIgnore"} BY <1>1 DEF KindStates
    <2>2. b \in EndsKind(k) <=> b \in Finals BY <1>1 DEF EndsKind, Finals
    <2>3. KindStates(k) = {"csiEntry", "csiParam", "csiIntermediate", "csiIgnore"} BY <1>1 DEF KindStates
    <2> QED BY <2>1, <2>2, <2>3 DEF stepSequence, stepCSI, stepCSIIntermediate, Finals, Params, ByteClasses
<1>2. CASE k = "]"
    <2>1. t = "oscString" BY <1>2 DEF KindStates
    <2>2. b \in EndsKind(k) <=> b = "bel" BY <1>2 DEF EndsKind
    <2> QED BY <2>1, <2>2 DEF stepSequence
<1>3. CASE k = "inter"
    <2>1. t = "escapeIntermediate" BY <1>3 DEF KindStates
    <2>2. b \in EndsKind(k) <=> b \in Finals \cup Params BY <1>3 DEF EndsKind
    <2> QED BY <2>1, <2>2 DEF stepSequence
<1>4. CASE k = "P"
    <2>1. KindStates(k) = {"dcsEntry", "dcsParam", "dcsIntermediate", "dcsPassthrough", "dcsIgnore"}
        BY <1>4 DEF KindStates
    <2>2. b \notin EndsKind(k) BY <1>4 DEF EndsKind
    <2> QED BY <2>1, <2>2 DEF stepSequence, stepDCS, Finals
<1>5. CASE k = "X"
    <2>1. t = "stringIgnore" BY <1>5 DEF KindStates
    <2>2. b \notin EndsKind(k) BY <1>5 DEF EndsKind
    <2> QED BY <2>1, <2>2 DEF stepSequence
<1> QED BY <1>0, <1>1, <1>2, <1>3, <1>4, <1>5

\* Every byte keeps state and reference together.
LEMMA TracksNext ==
    ASSUME NEW s \in Seq(ByteClasses), NEW p \in 0..Len(s) - 1, NEW q \in ScanState, Tracks(s, p, q)
    PROVE  Tracks(s, p + 1, step(q, s[p + 1]))
<1> DEFINE b == s[p + 1]
           r == step(q, b)
           e == LastEsc(s, p)
           k == Introducer(s, e, p)
           f == SequenceEnd(s, e, p)
           from == Start(s, p)
<1>0. p \in Nat /\ p + 1 \in 1..Len(s) /\ b \in ByteClasses /\ s \in Seq(ByteClasses) OBVIOUS
<1>1. LastEsc(s, p + 1) = (IF b = "esc" THEN p + 1 ELSE e) /\ e \in 0..p /\ e \in Nat /\ e <= p
    BY <1>0, LastEscNext
<1>2. /\ f \in 0..p /\ (f # 0 => k # 0)
      /\ k # 0 /\ s[k] \in Short => f = k
      /\ SequenceEnd(s, e, p + 1) =
            IF f # 0 THEN f
            ELSE IF k # 0 /\ b \in EndsKind(s[k]) THEN p + 1
            ELSE IF k = 0 /\ b \in Short THEN p + 1
            ELSE 0
    <2>1. EndStep(s, e, p) BY <1>0, <1>1, SequenceEndNext
    <2> QED BY <2>1 DEF EndStep
<1>3. /\ k \in {0} \cup (e + 1..p)
      /\ Introducer(s, e, p + 1) = IF k # 0 THEN k ELSE IF b \notin Idle THEN p + 1 ELSE 0
    BY <1>0, <1>1, IntroducerNext
<1>4. from = (IF e = 0 THEN 0 ELSE f) /\ from \in 0..p BY <1>1, <1>2 DEF Start
<1>5. /\ q.st \in States /\ q.utf8Pending \in 0..3
      /\ \A t : [q EXCEPT !.st = t].st = t /\ [q EXCEPT !.st = t].utf8Pending = q.utf8Pending
    BY DEF ScanState
<1>6. Missing(s, p + 1, p + 1, 0)
    <2>1. ASSUME NEW j \in 0..2, RuneAt(s, p + 1, p + 1, j) PROVE FALSE
        <3>1. (p + 1) - j > p + 1 BY <2>1 DEF RuneAt
        <3> QED BY <1>0, <3>1
    <2> QED BY <2>1 DEF Missing
<1>7. IF e = 0 \/ from # 0 THEN q.st = "ground" /\ Missing(s, from, p, q.utf8Pending)
      ELSE q.utf8Pending = 0 /\ IF k = 0 THEN q.st = "escape" ELSE q.st \in KindStates(s[k])
    BY DEF Tracks
<1>8. /\ Start(s, p + 1) =
            IF LastEsc(s, p + 1) = 0 THEN 0 ELSE SequenceEnd(s, LastEsc(s, p + 1), p + 1)
      /\ Tracks(s, p + 1, r) <=>
            IF LastEsc(s, p + 1) = 0 \/ Start(s, p + 1) # 0
            THEN r.st = "ground" /\ Missing(s, Start(s, p + 1), p + 1, r.utf8Pending)
            ELSE /\ r.utf8Pending = 0
                 /\ LET l == Introducer(s, LastEsc(s, p + 1), p + 1)
                    IN  IF l = 0 THEN r.st = "escape" ELSE r.st \in KindStates(s[l])
    BY DEF Tracks, Start
<1> SUFFICES Tracks(s, p + 1, r) OBVIOUS
<1>9. r = IF q.st = "ground" THEN stepGround(q, b)
          ELSE IF b = "can" THEN [q EXCEPT !.st = "ground"]
          ELSE IF b = "esc" THEN [q EXCEPT !.st = "escape"]
          ELSE [q EXCEPT !.st = stepSequence(q.st, b)]
    BY DEF step
<1>10. "esc" \notin EndsKind("[") /\ "can" \in Short /\ "can" \notin Idle /\ \A x : "can" \in EndsKind(x)
    BY DEF EndsKind, Finals, Short, Idle
<1> HIDE DEF b, r, e, k, f, from
<1>11. CASE b = "esc"
    <2>1. LastEsc(s, p + 1) = p + 1 /\ p + 1 # 0 /\ p + 1 \in Nat BY <1>0, <1>1, <1>11
    <2>2. SequenceEnd(s, p + 1, p + 1) = 0 /\ Introducer(s, p + 1, p + 1) = 0
        BY <2>1, SequenceEndNext, IntroducerNext DEF EndStep
    <2>3. r.st = "escape" /\ r.utf8Pending = 0
        <3>1. CASE q.st = "ground"
            <4>1. r = [st |-> "escape", utf8Pending |-> 0] BY <1>9, <1>11, <3>1 DEF stepGround
            <4> QED BY <4>1
        <3>2. CASE q.st # "ground" BY <1>5, <1>7, <1>9, <1>11, <3>2
        <3> QED BY <3>1, <3>2
    <2> QED BY <1>8, <2>1, <2>2, <2>3
<1>12. CASE b # "esc" /\ (e = 0 \/ from # 0)
    <2>1. q.st = "ground" /\ Missing(s, from, p, q.utf8Pending) /\ r = stepGround(q, b) BY <1>7, <1>9, <1>12
    <2>2. LastEsc(s, p + 1) = e BY <1>1, <1>12
    <2>3. Start(s, p + 1) = from BY <1>2, <1>4, <1>8, <1>12, <2>2
    <2>4. r.st = "ground" /\ Missing(s, from, p + 1, r.utf8Pending)
        <3>1. from \in Nat /\ from <= p /\ b = s[p + 1] BY <1>0, <1>4 DEF b
        <3> QED BY <1>0, <1>12, <2>1, <3>1, MissingNext
    <2> QED BY <1>8, <1>12, <2>2, <2>3, <2>4
<1>13. CASE b # "esc" /\ e # 0 /\ f = 0 /\ k = 0
    <2>1. q.st = "escape" /\ q.utf8Pending = 0 /\ LastEsc(s, p + 1) = e BY <1>1, <1>4, <1>7, <1>13
    <2>2. Start(s, p + 1) = (IF b \in Short THEN p + 1 ELSE 0) BY <1>2, <1>8, <1>13, <2>1
    <2>3. Introducer(s, e, p + 1) = (IF b \notin Idle THEN p + 1 ELSE 0) BY <1>3, <1>13
    <2>4. b # "can" => r = [q EXCEPT !.st = stepEscape(b)] BY <1>9, <1>13, <2>1 DEF stepSequence
    <2>5. CASE b \in Short
        <3>1. r.st = "ground" /\ r.utf8Pending = 0
            BY <1>0, <1>5, <1>9, <1>13, <2>1, <2>4, <2>5, EscapeNext
        <3> QED BY <1>0, <1>6, <1>8, <2>2, <2>5, <3>1
    <2>6. CASE b \notin Short
        <3>1. b # "can" BY <1>10, <2>6
        <3>2. r.utf8Pending = 0 /\ r.st = stepEscape(b) BY <1>5, <2>1, <2>4, <3>1
        <3>3. CASE b \in Idle BY <1>0, <1>8, <1>13, <2>1, <2>2, <2>3, <2>6, <3>1, <3>2, <3>3, EscapeNext
        <3>4. CASE b \notin Idle
            <4>1. r.st \in KindStates(b) BY <1>0, <1>13, <2>6, <3>1, <3>2, <3>4, EscapeNext
            <4>2. s[p + 1] = b BY DEF b
            <4> QED BY <1>0, <1>8, <1>13, <2>1, <2>2, <2>3, <2>6, <3>2, <3>4, <4>1, <4>2
        <3> QED BY <3>3, <3>4
    <2> QED BY <2>5, <2>6
<1>14. CASE b # "esc" /\ e # 0 /\ f = 0 /\ k # 0
    <2>1. q.st \in KindStates(s[k]) /\ q.utf8Pending = 0 /\ LastEsc(s, p + 1) = e BY <1>1, <1>4, <1>7, <1>14
    <2>2. k \in 1..Len(s) /\ s[k] \in ByteClasses BY <1>0, <1>1, <1>3, <1>14
    <2>3. s[k] \notin Short BY <1>2, <1>14
    <2>4. s[k] \notin Idle /\ s[k] # "esc"
        <3>1. k \in e + 1..p BY <1>3, <1>14
        <3>2. s[k] \notin Idle BY <1>0, <1>1, <1>14, IntroducerByte DEF k
        <3>3. s[k] # "esc" BY <1>0, <1>1, <3>1, SinceEsc DEF e
        <3> QED BY <3>2, <3>3
    <2>5. /\ q.st # "ground"
          /\ b # "can" /\ b \in EndsKind(s[k]) => stepSequence(q.st, b) = "ground"
          /\ b # "can" /\ b \notin EndsKind(s[k]) => stepSequence(q.st, b) \in KindStates(s[k])
        <3>1. q.st # "ground" BY <2>1 DEF KindStates
        <3>2. ASSUME b # "can"
              PROVE  /\ b \in EndsKind(s[k]) => stepSequence(q.st, b) = "ground"
                     /\ b \notin EndsKind(s[k]) => stepSequence(q.st, b) \in KindStates(s[k])
            BY <1>0, <1>14, <2>1, <2>2, <2>3, <2>4, <3>2, KindNext
        <3> QED BY <3>1, <3>2
    <2>6. Start(s, p + 1) = IF b \in EndsKind(s[k]) THEN p + 1 ELSE 0 BY <1>2, <1>8, <1>14, <2>1
    <2>7. Introducer(s, e, p + 1) = k BY <1>3, <1>14
    <2>8. CASE b \in EndsKind(s[k])
        <3>1. r.st = "ground" /\ r.utf8Pending = 0 BY <1>5, <1>9, <1>14, <2>1, <2>5, <2>8
        <3> QED BY <1>0, <1>6, <1>8, <2>6, <2>8, <3>1
    <2>9. CASE b \notin EndsKind(s[k])
        <3>1. b # "can" BY <1>10, <2>9
        <3>2. r.st \in KindStates(s[k]) /\ r.utf8Pending = 0 BY <1>5, <1>9, <1>14, <2>1, <2>5, <2>9, <3>1
        <3> QED BY <1>8, <1>14, <2>1, <2>6, <2>7, <2>9, <3>2
    <2> QED BY <2>8, <2>9
<1> QED BY <1>4, <1>11, <1>12, <1>13, <1>14

\* However long the stream: the states of a scanner that started with it.
LEMMA ScannerTracks ==
    ASSUME NEW s \in Seq(ByteClasses), NEW p \in 0..Len(s)
    PROVE  Tracks(s, p, Scanned(Reset, s)[p])
<1> DEFINE r == Scanned(Reset, s)
           S == {i \in Nat : i <= Len(s) => Tracks(s, i, r[i])}
<1>1. Reset \in ScanState BY DEF Reset, ScanState, States
<1>2. /\ r \in [0..Len(s) -> ScanState] /\ r[0] = Reset
      /\ \A i \in 1..Len(s) : r[i] = step(r[i - 1], s[i])
    BY <1>1, ScannedIs
<1> HIDE DEF r
<1>3. 0 \in S
    <2>1. LastEsc(s, 0) = 0 /\ Start(s, 0) = 0 BY LastEscNext DEF Start
    <2>2. Missing(s, 0, 0, 0)
        <3>1. \A j \in 0..2 : ~(0 - j > 0) OBVIOUS
        <3> QED BY <3>1 DEF Missing, RuneAt
    <2> QED BY <1>2, <2>1, <2>2 DEF Tracks, Reset
<1>4. ASSUME NEW i \in S PROVE i + 1 \in S
    <2> SUFFICES ASSUME i + 1 <= Len(s) PROVE Tracks(s, i + 1, r[i + 1]) OBVIOUS
    <2>1. i \in 0..Len(s) - 1 /\ i + 1 \in 1..Len(s) /\ (i + 1) - 1 = i /\ Tracks(s, i, r[i]) OBVIOUS
    <2>2. r[i] \in ScanState BY <1>2, <2>1
    <2>3. Tracks(s, i + 1, step(r[i], s[i + 1])) BY <2>1, <2>2, TracksNext
    <2>4. r[i + 1] = step(r[i], s[i + 1]) BY <1>2, <2>1
    <2> QED BY <2>3, <2>4
<1>5. S \in SUBSET Nat OBVIOUS
<1> HIDE DEF S
<1>6. p \in Nat /\ p <= Len(s) OBVIOUS
<1>7. p \in S BY <1>3, <1>4, <1>5, <1>6, Induct
<1> QED BY <1>6, <1>7 DEF S, r

\* A position is a boundary exactly when the scanner is at ground there.
THEOREM ScannerIsExact ==
    ASSUME NEW s \in Seq(ByteClasses), NEW p \in 0..Len(s)
    PROVE  AtGround(Scanned(Reset, s)[p]) <=> IsBoundary(s, p)
<1> DEFINE q == Scanned(Reset, s)[p]
           e == LastEsc(s, p)
<1>1. Tracks(s, p, q) BY ScannerTracks
<1>2. Reset \in ScanState BY DEF Reset, ScanState, States
<1>3. q \in ScanState BY <1>2, ScannedIs
<1>4. p \in Nat /\ e \in Nat /\ e <= p BY LastEscNext
<1>5. Start(s, p) \in Nat BY <1>4, SequenceEndNext DEF Start, EndStep
<1>6. IsBoundary(s, p) <=> (e = 0 \/ Start(s, p) # 0) /\ ~InsideRune(s, Start(s, p), p)
    BY DEF IsBoundary, Start
<1> HIDE DEF q
<1>7. CASE e = 0 \/ Start(s, p) # 0
    <2>1. q.st = "ground" /\ Missing(s, Start(s, p), p, q.utf8Pending) BY <1>1, <1>7 DEF Tracks
    <2>2. InsideRune(s, Start(s, p), p) <=> \E j \in 0..2 : RuneAt(s, Start(s, p), p, j)
        BY <1>4, <1>5, InsideRuneIs
    <2>3. q.utf8Pending = 0 <=> ~InsideRune(s, Start(s, p), p) BY <2>1, <2>2 DEF Missing
    <2> QED BY <1>6, <1>7, <2>1, <2>3 DEF AtGround, q
<1>8. CASE ~(e = 0 \/ Start(s, p) # 0)
    <2>1. q.st # "ground" BY <1>1, <1>8 DEF Tracks, KindStates
    <2> QED BY <1>6, <1>8, <2>1 DEF AtGround, q
<1> QED BY <1>7, <1>8

-----------------------------------------------------------------------------
(* A scanner that is kept, or started again, in the middle of a stream.    *)

IsFront(a, b) == Len(a) <= Len(b) /\ \A i \in 1..Len(a) : a[i] = b[i]
IsBack(a, b, n) == Len(a) = Len(b) - n /\ \A i \in 1..Len(a) : a[i] = b[n + i]

\* The states over a front of the bytes are the first states over all of them.
LEMMA ScannedFront ==
    ASSUME NEW s \in ScanState, NEW b \in Seq(ByteClasses), NEW a \in Seq(ByteClasses),
           IsFront(a, b), NEW i \in 0..Len(a)
    PROVE  Scanned(s, a)[i] = Scanned(s, b)[i]
<1> USE DEF IsFront
<1> DEFINE f == Scanned(s, a)
           g == Scanned(s, b)
           S == {j \in Nat : j <= Len(a) => f[j] = g[j]}
<1>1. f[0] = s /\ \A j \in 1..Len(a) : f[j] = step(f[j - 1], a[j]) BY ScannedIs
<1>2. g[0] = s /\ \A j \in 1..Len(b) : g[j] = step(g[j - 1], b[j]) BY ScannedIs
<1> HIDE DEF f, g
<1>3. 0 \in S BY <1>1, <1>2
<1>4. ASSUME NEW j \in S PROVE j + 1 \in S
    <2> SUFFICES ASSUME j + 1 <= Len(a) PROVE f[j + 1] = g[j + 1] OBVIOUS
    <2>1. j + 1 \in 1..Len(a) /\ j + 1 \in 1..Len(b) /\ (j + 1) - 1 = j /\ f[j] = g[j] OBVIOUS
    <2> QED BY <1>1, <1>2, <2>1
<1>5. S \in SUBSET Nat OBVIOUS
<1> HIDE DEF S
<1>6. i \in Nat OBVIOUS
<1>7. i \in S BY <1>3, <1>4, <1>5, <1>6, Induct
<1> QED BY <1>6, <1>7 DEF S, f, g

\* A scanner that continues where another stopped reaches the same states.
LEMMA ScannedRest ==
    ASSUME NEW s \in ScanState, NEW b \in Seq(ByteClasses), NEW n \in 0..Len(b),
           NEW a \in Seq(ByteClasses), IsBack(a, b, n), NEW i \in 0..Len(a)
    PROVE  Scanned(Scanned(s, b)[n], a)[i] = Scanned(s, b)[n + i]
<1> USE DEF IsBack
<1> DEFINE g == Scanned(s, b)
           f == Scanned(g[n], a)
           S == {j \in Nat : j <= Len(a) => f[j] = g[n + j]}
<1>1. g \in [0..Len(b) -> ScanState] /\ \A j \in 1..Len(b) : g[j] = step(g[j - 1], b[j]) BY ScannedIs
<1>2. g[n] \in ScanState BY <1>1
<1>3. f[0] = g[n] /\ \A j \in 1..Len(a) : f[j] = step(f[j - 1], a[j]) BY <1>2, ScannedIs
<1> HIDE DEF f, g
<1>4. 0 \in S BY <1>3
<1>5. ASSUME NEW j \in S PROVE j + 1 \in S
    <2> SUFFICES ASSUME j + 1 <= Len(a) PROVE f[j + 1] = g[n + (j + 1)] OBVIOUS
    <2>1. j + 1 \in 1..Len(a) /\ (j + 1) - 1 = j /\ f[j] = g[n + j] OBVIOUS
    <2>2. n + (j + 1) \in 1..Len(b) /\ (n + (j + 1)) - 1 = n + j OBVIOUS
    <2>3. f[j + 1] = step(f[j], a[j + 1]) BY <1>3, <2>1
    <2>4. g[n + (j + 1)] = step(g[n + j], b[n + (j + 1)]) BY <1>1, <2>2
    <2> QED BY <2>1, <2>3, <2>4
<1>6. S \in SUBSET Nat OBVIOUS
<1> HIDE DEF S
<1>7. i \in Nat OBVIOUS
<1>8. i \in S BY <1>4, <1>5, <1>6, <1>7, Induct
<1> QED BY <1>7, <1>8 DEF S, f, g

-----------------------------------------------------------------------------
(* SafeCut and feedTerm.                                                   *)

\* Where a cut is allowed once the scanner is at ground.
RuneEdge(buf, off) == off \in {0, Len(buf)} \/ RuneStart(buf[off + 1])

\* From ground SafeCut always finds a cut, and the last one.
LEMMA SafeCutIs ==
    ASSUME NEW s \in ScanState, AtGround(s), NEW buf \in Seq(ByteClasses), NEW target \in Nat
    PROVE  /\ SafeCut(s, buf, target) \in 0..Len(buf) /\ SafeCut(s, buf, target) <= target
           /\ AtGround(Scanned(s, buf)[SafeCut(s, buf, target)])
           /\ \A off \in 0..Len(buf) :
                 off <= target /\ RuneEdge(buf, off) /\ AtGround(Scanned(s, buf)[off]) =>
                    off <= SafeCut(s, buf, target)
<1> DEFINE offs == {off \in 0..Len(buf) :
                       off <= target /\ RuneEdge(buf, off) /\ AtGround(Scanned(s, buf)[off])}
<1>1. Scanned(s, buf)[0] = s BY ScannedIs
<1>2. Len(buf) \in Nat /\ offs \in SUBSET (0..Len(buf)) OBVIOUS
<1>3. 0 \in offs BY <1>1 DEF RuneEdge
<1>4. SafeCut(s, buf, target) = IF offs = {} THEN -1 ELSE Max(offs) BY DEF SafeCut, RuneEdge
<1>5. Max(offs) \in offs /\ \A n \in offs : n <= Max(offs)
    <2> HIDE DEF offs
    <2> QED BY <1>2, <1>3, MaxIs
<1>6. SafeCut(s, buf, target) = Max(offs) BY <1>3, <1>4
<1> QED BY <1>5, <1>6

\* The boundaries of a stream are the positions where its scanner allows a cut.
LEMMA BoundariesAre ==
    ASSUME NEW s \in Seq(ByteClasses), NEW p \in 1..Len(s)
    PROVE  p \in Boundaries(s) <=> RuneEdge(s, p) /\ AtGround(Scanned(Reset, s)[p])
BY ScannerIsExact DEF Boundaries, RuneEdge

\* The inductive invariant: feedTerm's scanner stands where the one that read
\* the whole stream stood, at ground, past every boundary.
RenderInv ==
    /\ stream \in Seq(Bytes) /\ Len(stream) <= MaxStream
    /\ fed \in 0..Len(stream) /\ flushed \in BOOLEAN
    /\ scan = Scanned(Reset, stream)[fed]
    /\ ~flushed => AtGround(scan)
    /\ \A p \in Boundaries(stream) : p <= fed

\* The stream is one the scanner lemmas speak of.
LEMMA StreamType ==
    ASSUME RenderInv
    PROVE  /\ stream \in Seq(ByteClasses) /\ Reset \in ScanState /\ scan \in ScanState
<1>1. stream \in Seq(ByteClasses) BY BytesAssumption DEF RenderInv
<1>2. Reset \in ScanState BY DEF Reset, ScanState, States
<1> QED BY <1>1, <1>2, ScannedIs DEF RenderInv

\* Nothing read and nothing rendered satisfies it.
LEMMA RenderInit == Init => RenderInv
<1> SUFFICES ASSUME Init PROVE RenderInv OBVIOUS
<1>1. stream = <<>> /\ fed = 0 /\ scan = Reset /\ flushed = FALSE /\ <<>> \in Seq(ByteClasses) /\ Len(<<>>) = 0
    BY DEF Init
<1>2. Reset \in ScanState BY DEF Reset, ScanState, States
<1>3. Scanned(Reset, <<>>)[0] = Reset BY <1>1, <1>2, ScannedIs
<1>4. Boundaries(<<>>) = {} BY <1>1 DEF Boundaries
<1>5. /\ stream \in Seq(Bytes) /\ Len(stream) <= MaxStream /\ fed \in 0..Len(stream)
      /\ scan = Scanned(Reset, stream)[fed]
    BY <1>1, <1>3, BoundAssumption
<1>6. \A p \in Boundaries(stream) : p <= fed BY <1>1, <1>4
<1>7. AtGround(scan) /\ flushed \in BOOLEAN BY <1>1 DEF AtGround, Reset
<1> QED BY <1>5, <1>6, <1>7 DEF RenderInv

\* What is left of the stream from position n on.
LEMMA Rest ==
    ASSUME NEW s \in Seq(ByteClasses), NEW n \in 0..Len(s)
    PROVE  LET a == SubSeq(s, n + 1, Len(s))
           IN  a \in Seq(ByteClasses) /\ IsBack(a, s, n)
<1> DEFINE a == SubSeq(s, n + 1, Len(s))
<1>1. a \in Seq(ByteClasses) OBVIOUS
<1>2. Len(a) = Len(s) - n OBVIOUS
<1>3. ASSUME NEW i \in 1..Len(a) PROVE a[i] = s[n + i]
    <2>1. i \in 1..(Len(s) - n) BY <1>2
    <2>2. a[i] = s[(n + 1) + i - 1] BY <2>1
    <2> QED BY <2>1, <2>2
<1> QED BY <1>1, <1>2, <1>3 DEF IsBack

\* A read is added at the end.
LEMMA Joined ==
    ASSUME NEW s \in Seq(Bytes), NEW d \in Seq(Bytes)
    PROVE  s \o d \in Seq(Bytes) /\ Len(s \o d) = Len(s) + Len(d) /\ IsFront(s, s \o d)
BY DEF IsFront

\* A read renders up to the last boundary SafeCut finds in what is pending.
LEMMA ReadRenders ==
    ASSUME RenderInv, NEW n \in 1..MaxRead, NEW data \in [1..n -> Bytes], Read(data)
    PROVE  RenderInv'
<1> DEFINE pending == SubSeq(stream', fed + 1, Len(stream'))
           cut == SafeCut(scan, pending, Len(pending))
           r == Scanned(Reset, stream)
           q == Scanned(Reset, stream')
<1>0. /\ ~flushed /\ Len(stream) + Len(data) <= MaxStream /\ stream' = stream \o data /\ flushed' = flushed
      /\ IF cut <= 0 THEN fed' = fed /\ scan' = scan
         ELSE fed' = fed + cut /\ scan' = Advance(scan, SubSeq(pending, 1, cut))
    BY DEF Read
<1>1. /\ stream \in Seq(ByteClasses) /\ stream \in Seq(Bytes) /\ Reset \in ScanState /\ scan \in ScanState
      /\ fed \in 0..Len(stream) /\ scan = r[fed] /\ AtGround(scan)
    BY <1>0, StreamType DEF RenderInv
<1>2. data \in Seq(Bytes) /\ Len(data) = n
    <2>1. n \in Nat BY BoundAssumption
    <2> QED BY <2>1
<1>3. stream' \in Seq(Bytes) /\ Len(stream') = Len(stream) + n /\ IsFront(stream, stream')
    BY <1>0, <1>1, <1>2, Joined
<1>4. stream' \in Seq(ByteClasses) /\ Len(stream) <= Len(stream') /\ fed \in 0..Len(stream')
    BY <1>1, <1>3, BytesAssumption, BoundAssumption
<1>5. q[fed] = scan
    <2>1. r[fed] = q[fed] BY <1>1, <1>3, <1>4, ScannedFront
    <2> QED BY <1>1, <2>1
<1>6. pending \in Seq(ByteClasses) /\ IsBack(pending, stream', fed) BY <1>4, Rest
<1> HIDE DEF pending
<1>6a. Len(pending) = Len(stream') - fed /\ \A i \in 1..Len(pending) : pending[i] = stream'[fed + i]
    BY <1>6 DEF IsBack
<1>7. \A i \in 0..Len(pending) : Scanned(scan, pending)[i] = q[fed + i]
    <2>1. \A i \in 0..Len(pending) : Scanned(q[fed], pending)[i] = q[fed + i]
        BY <1>1, <1>4, <1>6, ScannedRest
    <2> QED BY <1>5, <2>1
<1>8. /\ cut \in 0..Len(pending) /\ AtGround(Scanned(scan, pending)[cut])
      /\ \A off \in 0..Len(pending) :
            RuneEdge(pending, off) /\ AtGround(Scanned(scan, pending)[off]) => off <= cut
    <2>1. Len(pending) \in Nat BY <1>6
    <2>2. \A off \in 0..Len(pending) : off <= Len(pending) BY <2>1
    <2> QED BY <1>1, <1>6, <2>1, <2>2, SafeCutIs
<1> HIDE DEF cut, q, r
<1>9. fed' = fed + cut /\ fed' \in 0..Len(stream')
    <2>1. cut \in Nat /\ cut <= Len(stream') - fed /\ fed \in Nat /\ Len(stream') \in Nat
        BY <1>1, <1>4, <1>6a, <1>8
    <2>2. fed' = fed + cut BY <1>0, <2>1
    <2> QED BY <2>1, <2>2
<1>10. scan' = q[fed']
    <2>1. CASE cut = 0 BY <1>0, <1>1, <1>5, <1>9, <2>1
    <2>2. CASE cut # 0
        <3> DEFINE a == SubSeq(pending, 1, cut)
        <3>1. a \in Seq(ByteClasses) /\ Len(a) = cut /\ IsFront(a, pending) BY <1>6, <1>8 DEF IsFront
        <3>2. scan' = Scanned(scan, a)[cut] BY <1>0, <1>8, <2>2, <3>1 DEF Advance
        <3> HIDE DEF a
        <3>3. cut \in 0..Len(a) BY <1>8, <3>1
        <3>4. Scanned(scan, a)[cut] = Scanned(scan, pending)[cut] BY <1>1, <1>6, <3>1, <3>3, ScannedFront
        <3> QED BY <1>7, <1>8, <1>9, <3>2, <3>4
    <2> QED BY <2>1, <2>2
<1>11. AtGround(scan') BY <1>7, <1>8, <1>9, <1>10
<1>12. ASSUME NEW p \in Boundaries(stream') PROVE p <= fed'
    <2>1. p \in 1..Len(stream') BY DEF Boundaries
    <2>2. RuneEdge(stream', p) /\ AtGround(q[p]) BY <1>4, <2>1, BoundariesAre DEF q
    <2>3. CASE p <= fed BY <1>1, <1>8, <1>9, <2>1, <2>3
    <2>4. CASE p > fed
        <3>1. p - fed \in 0..Len(pending) /\ p - fed # 0 /\ fed + (p - fed) = p BY <1>4, <1>6, <1>6a, <2>1, <2>4
        <3>2. AtGround(Scanned(scan, pending)[p - fed]) BY <1>7, <2>2, <3>1
        <3>3. RuneEdge(pending, p - fed)
            <4>1. CASE p = Len(stream') BY <1>6, <1>6a, <4>1 DEF RuneEdge
            <4>2. CASE p # Len(stream')
                <5>1. RuneStart(stream'[p + 1]) BY <2>1, <2>2, <4>2 DEF RuneEdge
                <5>2. (p - fed) + 1 \in 1..Len(pending) /\ fed + ((p - fed) + 1) = p + 1
                    BY <1>4, <1>6, <1>6a, <2>1, <2>4, <4>2
                <5> QED BY <1>6, <1>6a, <5>1, <5>2 DEF RuneEdge
            <4> QED BY <4>1, <4>2
        <3>4. p - fed <= cut BY <1>8, <3>1, <3>2, <3>3
        <3> QED BY <1>4, <1>8, <1>9, <2>1, <3>4
    <2> QED BY <1>1, <2>1, <2>3, <2>4
<1>13. Len(stream') <= MaxStream BY <1>0, <1>2, <1>3
<1> QED BY <1>0, <1>3, <1>9, <1>10, <1>11, <1>12, <1>13 DEF RenderInv, q

\* The flush at the end renders what is left.
LEMMA FlushRenders ==
    ASSUME RenderInv, Flush
    PROVE  RenderInv'
<1> DEFINE a == SubSeq(stream, fed + 1, Len(stream))
           r == Scanned(Reset, stream)
<1>0. flushed' = TRUE /\ fed' = Len(stream) /\ scan' = Advance(scan, a) /\ stream' = stream BY DEF Flush
<1>1. /\ stream \in Seq(ByteClasses) /\ stream \in Seq(Bytes) /\ Reset \in ScanState /\ scan \in ScanState
      /\ fed \in 0..Len(stream) /\ scan = r[fed] /\ Len(stream) <= MaxStream
    BY StreamType DEF RenderInv
<1>2. a \in Seq(ByteClasses) /\ IsBack(a, stream, fed) BY <1>1, Rest
<1> HIDE DEF a
<1>3. \A i \in 0..Len(a) : Scanned(r[fed], a)[i] = r[fed + i] BY <1>1, <1>2, ScannedRest
<1>4. Len(a) \in 0..Len(a) /\ fed + Len(a) = Len(stream) BY <1>1, <1>2 DEF IsBack
<1>5. scan' = r[Len(stream)] BY <1>0, <1>1, <1>3, <1>4 DEF Advance
<1>6. \A p \in Boundaries(stream) : p <= Len(stream) BY <1>1 DEF Boundaries
<1>7. Len(stream) \in 0..Len(stream) BY <1>1
<1> QED BY <1>0, <1>1, <1>5, <1>6, <1>7 DEF RenderInv

\* The state feedTerm keeps between reads is the parser state after the bytes it has
\* rendered, it is at ground until the final flush, and no boundary of the stream lies
\* beyond what is rendered, however the stream is cut into reads.
THEOREM Renders == Spec => []RenderInv
<1>1. RenderInv /\ [Next]_vars => RenderInv'
    <2> SUFFICES ASSUME RenderInv, [Next]_vars PROVE RenderInv' OBVIOUS
    <2>1. CASE \E n \in 1..MaxRead : \E data \in [1..n -> Bytes] : Read(data) BY <2>1, ReadRenders
    <2>2. CASE Flush BY <2>2, FlushRenders
    <2>3. CASE UNCHANGED vars BY <2>3 DEF vars, RenderInv
    <2> QED BY <2>1, <2>2, <2>3 DEF Next
<1> QED BY <1>1, RenderInit, PTL DEF Spec

\* The stream, the position rendered and the scanner have their types.
THEOREM TypesHold == Spec => []TypeOK
<1>1. RenderInv => TypeOK BY StreamType DEF RenderInv, TypeOK, ScanState
<1> QED BY <1>1, Renders, PTL

\* However the output was split into reads, feedTerm has rendered it up to
\* exactly the last position outside every sequence and rune.
THEOREM RenderedExactly == Spec => []CutIsExact
<1>1. RenderInv => CutIsExact
    <2> SUFFICES ASSUME RenderInv PROVE CutIsExact OBVIOUS
    <2>1. stream \in Seq(ByteClasses) /\ fed \in 0..Len(stream) BY StreamType DEF RenderInv
    <2>2. ~flushed => AtGround(scan) /\ IsBoundary(stream, fed) BY <2>1, ScannerIsExact DEF RenderInv
    <2> QED BY <2>2 DEF CutIsExact, RenderInv
<1> QED BY <1>1, Renders, PTL

\* boundaryTrim discards at most what it is asked to, up to a boundary.
THEOREM TrimsAtBoundaries == Spec => []TrimIsSafe
<1>1. RenderInv => TrimIsSafe
    <2> SUFFICES ASSUME RenderInv, NEW want \in 0..Len(stream)
                 PROVE  boundaryTrim(stream, want) <= want /\ IsBoundary(stream, boundaryTrim(stream, want))
        BY DEF TrimIsSafe
    <2>1. stream \in Seq(ByteClasses) /\ Reset \in ScanState /\ want \in Nat BY StreamType
    <2>2. AtGround(Reset) BY DEF AtGround, Reset
    <2>3. PICK near : near = SafeCut(Reset, stream, want) OBVIOUS
    <2>4. near \in 0..Len(stream) /\ near <= want /\ AtGround(Scanned(Reset, stream)[near])
        BY <2>1, <2>2, <2>3, SafeCutIs
    <2>5. boundaryTrim(stream, want) = near
        <3>1. near >= 0 BY <2>4
        <3> QED BY <2>3, <3>1 DEF boundaryTrim
    <2> QED BY <2>1, <2>4, <2>5, ScannerIsExact
<1> QED BY <1>1, Renders, PTL

-----------------------------------------------------------------------------
(* The loop of boundaryCut.                                                *)

Loop == [sc : ScanState, best : Nat \cup {-1}, done : BOOLEAN]

\* A turn takes the loop's variables to the loop's variables.
LEMMA TurnType ==
    ASSUME NEW buf \in Seq(ByteClasses), NEW target \in Nat, NEW acc \in Loop, NEW off \in 1..Len(buf)
    PROVE  CutLoop(buf, target, acc, off) \in Loop
<1> DEFINE sc == step(acc.sc, buf[off])
<1>1. acc.sc \in ScanState /\ acc.best \in Nat \cup {-1} BY DEF Loop
<1>2. sc \in ScanState BY <1>1, StepType
<1>3. off \in Nat OBVIOUS
<1>4. [acc EXCEPT !.sc = sc] \in Loop BY <1>2 DEF Loop
<1>5. \A b \in Nat \cup {-1} : \A d \in BOOLEAN : [sc |-> sc, best |-> b, done |-> d] \in Loop
    BY <1>2 DEF Loop
<1> HIDE DEF sc
<1>6. LET cut == (off = Len(buf) \/ RuneStart(buf[off + 1])) /\ AtGround(sc)
      IN  CutLoop(buf, target, acc, off) =
            IF acc.done THEN acc
            ELSE IF ~cut THEN [acc EXCEPT !.sc = sc]
            ELSE IF off <= target THEN [sc |-> sc, best |-> off, done |-> FALSE]
            ELSE [sc |-> sc, best |-> IF acc.best > 0 THEN acc.best ELSE off, done |-> TRUE]
    BY DEF CutLoop, sc
<1>7. CASE acc.done BY <1>6, <1>7
<1>8. CASE ~acc.done BY <1>1, <1>3, <1>4, <1>5, <1>6, <1>8
<1> QED BY <1>7, <1>8

\* CutTurns is the function its definition says: one turn for every byte.
LEMMA TurnsAre ==
    ASSUME NEW buf \in Seq(ByteClasses), NEW target \in Nat
    PROVE  LET t == CutTurns(buf, target)
           IN  /\ t \in [0..Len(buf) -> Loop]
               /\ t[0] = [sc |-> Reset, best |-> -1, done |-> FALSE]
               /\ \A i \in 1..Len(buf) : t[i] = CutLoop(buf, target, t[i - 1], i)
<1> DEFINE n == Len(buf)
           s == [sc |-> Reset, best |-> -1, done |-> FALSE]
           h == [p \in Loop \X (1..n) |-> CutLoop(buf, target, p[1], p[2])]
           Runs(g) == g = [i \in 0..n |-> IF i = 0 THEN s ELSE CutLoop(buf, target, g[i - 1], i)]
<1>1. n \in Nat OBVIOUS
<1>2. s \in Loop BY DEF Loop, Reset, ScanState, States
<1>3. h \in [Loop \X (1..n) -> Loop]
    <2>1. ASSUME NEW p \in Loop \X (1..n) PROVE CutLoop(buf, target, p[1], p[2]) \in Loop
        <3>1. p[1] \in Loop /\ p[2] \in 1..n OBVIOUS
        <3> QED BY <3>1, TurnType
    <2> QED BY <2>1
<1>4. \A x \in Loop, i \in 1..n : h[<<x, i>>] = CutLoop(buf, target, x, i) OBVIOUS
<1> HIDE DEF h, n, s
<1>5. PICK g \in [0..n -> Loop] : g[0] = s /\ \A i \in 1..n : g[i] = h[<<g[i - 1], i>>]
    <2>1. Rungs(Loop, n, h) BY <1>3 DEF Rungs
    <2>2. \E g : Climbs(Loop, n, h, s, g) BY <1>1, <1>2, <2>1, Ladder
    <2> QED BY <2>2 DEF Climbs
<1>6. \A i \in 1..n : g[i] = CutLoop(buf, target, g[i - 1], i)
    <2> SUFFICES ASSUME NEW i \in 1..n PROVE g[i] = CutLoop(buf, target, g[i - 1], i) OBVIOUS
    <2>1. i - 1 \in 0..n BY <1>1
    <2> QED BY <1>4, <1>5, <2>1
<1>7. Runs(g)
    <2>1. g = [i \in 0..n |-> g[i]] BY <1>5
    <2>2. \A i \in 0..n : g[i] = IF i = 0 THEN s ELSE CutLoop(buf, target, g[i - 1], i)
        BY <1>1, <1>5, <1>6
    <2> QED BY <2>1, <2>2
<1> DEFINE r == CutTurns(buf, target)
<1>8. r = CHOOSE a : Runs(a) BY DEF CutTurns, n, s
<1>9. Runs(r)
    <2> HIDE DEF Runs, r
    <2> QED BY <1>7, <1>8
<1>10. r = [i \in 0..n |-> IF i = 0 THEN s ELSE CutLoop(buf, target, r[i - 1], i)] BY <1>9
<1> HIDE DEF r, Runs
<1>11. r[0] = s /\ \A i \in 1..n : r[i] = CutLoop(buf, target, r[i - 1], i)
    <2>1. \A i \in 0..n : r[i] = IF i = 0 THEN s ELSE CutLoop(buf, target, r[i - 1], i) BY <1>10
    <2> QED BY <1>1, <2>1
<1>12. r = [i \in 0..n |-> r[i]] BY <1>10
<1>13. \A i \in 0..n : r[i] = g[i]
    <2> DEFINE S == {i \in Nat : i <= n => r[i] = g[i]}
    <2>1. 0 \in S BY <1>5, <1>11
    <2>2. ASSUME NEW i \in S PROVE i + 1 \in S
        <3> SUFFICES ASSUME i + 1 <= n PROVE r[i + 1] = g[i + 1] OBVIOUS
        <3>1. i \in Nat /\ i + 1 \in 1..n /\ (i + 1) - 1 = i /\ r[i] = g[i] BY <1>1
        <3>2. r[i + 1] = CutLoop(buf, target, r[i], i + 1) BY <1>11, <3>1
        <3>3. g[i + 1] = CutLoop(buf, target, g[i], i + 1) BY <1>6, <3>1
        <3> QED BY <3>1, <3>2, <3>3
    <2>3. S \in SUBSET Nat OBVIOUS
    <2> HIDE DEF S
    <2>4. \A i \in Nat : i \in S BY <2>1, <2>2, <2>3, Induct
    <2> QED BY <1>1, <2>4 DEF S
<1>14. r \in [0..n -> Loop] BY <1>5, <1>12, <1>13
<1> QED BY <1>11, <1>14 DEF r, n, s

\* The boundary the loop is to find.
Nearest(B, target, best) ==
    /\ best \in B
    /\ \/ best <= target /\ \A p \in B : p <= target => p <= best
       \/ \A p \in B : p > target /\ best <= p

\* What the loop knows after off turns, of a buffer whose boundaries are B.
Knows(B, target, r, off, acc) ==
    IF acc.done THEN Nearest(B, target, acc.best)
    ELSE /\ acc.sc = r[off]
         /\ \A p \in B : p <= off => p <= target /\ p <= acc.best
         /\ acc.best = -1 \/ (acc.best \in B /\ acc.best <= off)

\* A turn of the loop, at the next byte, keeps what it knows.
LEMMA TurnKnows ==
    ASSUME NEW buf \in Seq(ByteClasses), NEW target \in Nat, NEW acc \in Loop, NEW off \in 1..Len(buf),
           Knows(Boundaries(buf), target, Scanned(Reset, buf), off - 1, acc)
    PROVE  Knows(Boundaries(buf), target, Scanned(Reset, buf), off, CutLoop(buf, target, acc, off))
<1> DEFINE r == Scanned(Reset, buf)
           B == Boundaries(buf)
           new == CutLoop(buf, target, acc, off)
<1>1. r[off] = step(r[off - 1], buf[off])
    <2>1. Reset \in ScanState BY DEF Reset, ScanState, States
    <2> QED BY <2>1, ScannedIs
<1>2. off \in B <=> (off = Len(buf) \/ RuneStart(buf[off + 1])) /\ AtGround(r[off])
    <2>1. off # 0 /\ off \in Nat OBVIOUS
    <2> QED BY <2>1, BoundariesAre DEF RuneEdge
<1>3. B \subseteq 1..Len(buf) BY DEF Boundaries
<1>4. \A p \in B : p \in Nat /\ p # 0 /\ (p <= off <=> p <= off - 1 \/ p = off) BY <1>3
<1>5. acc.best \in Nat \cup {-1} /\ off \in Nat BY DEF Loop
<1>6. CASE acc.done
    <2>1. new = acc BY <1>6 DEF CutLoop
    <2> QED BY <1>6, <2>1 DEF Knows
<1>7. CASE ~acc.done
    <2>1. /\ acc.sc = r[off - 1]
          /\ \A p \in B : p <= off - 1 => p <= target /\ p <= acc.best
          /\ acc.best = -1 \/ (acc.best \in B /\ acc.best <= off - 1)
        BY <1>7 DEF Knows
    <2>2. step(acc.sc, buf[off]) = r[off] BY <1>1, <2>1
    <2>3. new = IF off \notin B THEN [acc EXCEPT !.sc = r[off]]
                ELSE IF off <= target THEN [sc |-> r[off], best |-> off, done |-> FALSE]
                ELSE [sc |-> r[off], best |-> IF acc.best > 0 THEN acc.best ELSE off, done |-> TRUE]
        BY <1>2, <1>7, <2>2 DEF CutLoop
    <2> HIDE DEF r, B, new
    <2>4. CASE off \notin B
        <3>1. new.sc = r[off] /\ new.best = acc.best /\ ~new.done BY <1>7, <2>3, <2>4 DEF Loop
        <3>2. \A p \in B : p <= off => p <= off - 1 BY <1>4, <2>4
        <3>3. acc.best = -1 \/ (acc.best \in B /\ acc.best <= off) BY <1>5, <2>1
        <3>4. Knows(B, target, r, off, new) BY <2>1, <3>1, <3>2, <3>3 DEF Knows
        <3> QED BY <3>4 DEF B, r, new
    <2>5. CASE off \in B /\ off <= target
        <3>1. new.sc = r[off] /\ new.best = off /\ ~new.done BY <2>3, <2>5
        <3>2. Knows(B, target, r, off, new) BY <1>4, <1>5, <2>1, <2>5, <3>1 DEF Knows
        <3> QED BY <3>2 DEF B, r, new
    <2>6. CASE off \in B /\ ~(off <= target)
        <3>1. new.best = (IF acc.best > 0 THEN acc.best ELSE off) /\ new.done BY <2>3, <2>6
        <3>2. Nearest(B, target, new.best)
            <4>1. CASE acc.best > 0
                <5>1. new.best = acc.best /\ acc.best \in B /\ acc.best <= off - 1 BY <1>5, <2>1, <3>1, <4>1
                <5>2. acc.best <= target BY <2>1, <5>1
                <5>3. \A p \in B : p <= target => p <= off - 1 BY <1>4, <1>5, <2>6
                <5> QED BY <2>1, <5>1, <5>2, <5>3 DEF Nearest
            <4>2. CASE ~(acc.best > 0)
                <5>1. new.best = off BY <3>1, <4>2
                <5>2. acc.best = -1 BY <1>4, <1>5, <2>1, <4>2
                <5>3. \A p \in B : ~(p <= off - 1) BY <1>4, <2>1, <5>2
                <5>4. \A p \in B : off <= p BY <1>4, <1>5, <5>3
                <5>5. \A p \in B : p > target BY <1>4, <1>5, <2>6, <5>4
                <5> QED BY <2>6, <5>1, <5>4, <5>5 DEF Nearest
            <4> QED BY <4>1, <4>2
        <3>3. Knows(B, target, r, off, new) BY <3>1, <3>2 DEF Knows
        <3> QED BY <3>3 DEF B, r, new
    <2> QED BY <2>4, <2>5, <2>6
<1> QED BY <1>6, <1>7

\* What the whole loop finds.
LEMMA CutFinds ==
    ASSUME NEW buf \in Seq(ByteClasses), NEW target \in Nat
    PROVE  Knows(Boundaries(buf), target, Scanned(Reset, buf), Len(buf), CutTurns(buf, target)[Len(buf)])
<1> DEFINE t == CutTurns(buf, target)
           S == {i \in Nat : i <= Len(buf) => Knows(Boundaries(buf), target, Scanned(Reset, buf), i, t[i])}
<1>1. /\ t \in [0..Len(buf) -> Loop] /\ t[0] = [sc |-> Reset, best |-> -1, done |-> FALSE]
      /\ \A i \in 1..Len(buf) : t[i] = CutLoop(buf, target, t[i - 1], i)
    BY TurnsAre
<1> HIDE DEF t
<1>2. 0 \in S
    <2>1. Reset \in ScanState BY DEF Reset, ScanState, States
    <2>2. Scanned(Reset, buf)[0] = Reset BY <2>1, ScannedIs
    <2>3. \A p \in Boundaries(buf) : ~(p <= 0) BY DEF Boundaries
    <2>4. t[0].sc = Reset /\ t[0].best = -1 /\ ~t[0].done BY <1>1
    <2>5. Knows(Boundaries(buf), target, Scanned(Reset, buf), 0, t[0]) BY <2>2, <2>3, <2>4 DEF Knows
    <2> QED BY <2>5
<1>3. ASSUME NEW i \in S PROVE i + 1 \in S
    <2> SUFFICES ASSUME i + 1 <= Len(buf)
                 PROVE  Knows(Boundaries(buf), target, Scanned(Reset, buf), i + 1, t[i + 1])
        OBVIOUS
    <2>1. i + 1 \in 1..Len(buf) /\ (i + 1) - 1 = i /\ i \in 0..Len(buf) OBVIOUS
    <2>2. Knows(Boundaries(buf), target, Scanned(Reset, buf), (i + 1) - 1, t[i]) BY <2>1
    <2>3. t[i] \in Loop /\ t[i + 1] = CutLoop(buf, target, t[i], i + 1) BY <1>1, <2>1
    <2> QED BY <2>1, <2>2, <2>3, TurnKnows
<1>4. S \in SUBSET Nat OBVIOUS
<1> HIDE DEF S
<1>5. Len(buf) \in Nat OBVIOUS
<1>6. Len(buf) \in S BY <1>2, <1>3, <1>4, <1>5, Induct
<1> QED BY <1>5, <1>6 DEF S, t

\* boundaryCut takes the last boundary up to its target, or else the first one
\* after it, of whatever output is in chunkBuf.
THEOREM CutsNearest == Spec => []CutIsNearest
<1>1. RenderInv => CutIsNearest
    <2> SUFFICES ASSUME RenderInv, NEW target \in 1..Len(stream)
                 PROVE  LET below == {p \in Boundaries(stream) : p <= target}
                        IN  boundaryCut(stream, target) =
                               IF below # {} THEN Max(below)
                               ELSE IF Boundaries(stream) # {} THEN Min(Boundaries(stream)) ELSE -1
        BY DEF CutIsNearest
    <2> DEFINE B == Boundaries(stream)
               below == {p \in B : p <= target}
               t == CutTurns(stream, target)[Len(stream)]
    <2>1. stream \in Seq(ByteClasses) /\ target \in Nat /\ Len(stream) \in Nat BY StreamType
    <2>2. Knows(B, target, Scanned(Reset, stream), Len(stream), t) BY <2>1, CutFinds
    <2>3. boundaryCut(stream, target) = t.best BY DEF boundaryCut
    <2>4. B \subseteq 1..Len(stream) BY DEF Boundaries
    <2>5. B \in SUBSET Nat /\ below \in SUBSET (0..target) /\ \A p \in B : p <= Len(stream) BY <2>1, <2>4
    <2>6. t.best \in B \/ t.best = -1 BY <2>2 DEF Knows, Nearest
    <2>7. PICK b : b = t.best OBVIOUS
    <2>8. CASE below # {}
        <3>1. PICK m : m = Max(below) OBVIOUS
        <3>2. m \in below /\ \A p \in below : p <= m
            <4> HIDE DEF below
            <4> QED BY <2>1, <2>5, <2>8, <3>1, MaxIs
        <3>3. m \in B /\ m <= target /\ m \in Nat BY <2>5, <3>2
        <3>4. b \in B /\ b <= target /\ m <= b
            BY <2>1, <2>2, <2>5, <2>6, <2>7, <3>3 DEF Knows, Nearest
        <3>5. b <= m /\ b \in Nat BY <2>5, <3>2, <3>4
        <3> QED BY <2>3, <2>7, <2>8, <3>1, <3>3, <3>4, <3>5
    <2>9. CASE below = {} /\ B # {}
        <3>1. PICK m : m = Min(B) OBVIOUS
        <3>2. m \in B /\ \A p \in B : m <= p
            <4> HIDE DEF B
            <4> QED BY <2>5, <2>9, <3>1, MinIs
        <3>3. \A p \in B : ~(p <= target) BY <2>9
        <3>4. b \in B /\ b <= m BY <2>2, <2>5, <2>7, <3>2, <3>3 DEF Knows, Nearest
        <3>5. m <= b /\ m \in Nat /\ b \in Nat BY <2>5, <3>2, <3>4
        <3> QED BY <2>3, <2>7, <2>9, <3>1, <3>4, <3>5
    <2>10. CASE B = {} BY <2>3, <2>6, <2>10
    <2> QED BY <2>8, <2>9, <2>10
<1> QED BY <1>1, Renders, PTL
====
