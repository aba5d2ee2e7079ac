--------------------------- MODULE RegistryProof ---------------------------
(***************************************************************************)
(* What a namespace's files and lock guarantee, for every number of calls  *)
(* of Start and daemons, every cap and every retention count.              *)
(***************************************************************************)
EXTENDS Registry, FiniteSetTheorems, WellFoundedInduction, TLAPS

\* Every Start asks for an id of its own.
DistinctIds == \A s, t \in Sessions : IdOf[s] = IdOf[t] => s = t

\* No Start gives up, and no listing runs without the lock.
Orderly == Listers = {} /\ "abandon" \notin Faults

NotSpawned == {"called", "locked", "checked", "replacing", "listing", "counting"}
Holding == {"locked", "checked", "replacing", "listing", "counting", "waiting"}

Pending == {"spawned", "unlinked", "bound", "listening"}

\* A daemon that has not opened its record, for a command that runs or has ended.
Unopened == {"none", "spawned", "unlinked", "bound", "listening", "serving",
             "failing", "failingHistory", "closing", "history"}

\* A daemon is spawned once, by the Start that counted for it.
SpawnInv == \A s \in Sessions : start[s] \in NotSpawned => daemon[s] = "none"

\* A daemon dates its record when it opens it.
OpenedInv ==
    \A s \in Sessions :
        /\ openedAt[s] <= 2 * Cardinality(Sessions) + 1
        /\ daemon[s] \in Unopened => openedAt[s] = 0

\* A daemon lists and deletes only while it prunes, and a history only after
\* its record; it has a keep from its count on.
PruneOK(s) ==
    /\ daemon[s] # "reading" => prune[s].listing = {}
    /\ daemon[s] # "pruning" => prune[s].records = {} /\ prune[s].histories = {}
    /\ prune[s].records \subseteq prune[s].histories
    /\ daemon[s] \notin {"counted", "reading", "pruning", "persisted", "exited"} => prune[s].keep = 0

PruneInv == \A s \in Sessions : PruneOK(s)

\* Where a daemon stands in writing its files tells what is on disk.
FileOK(s) ==
    /\ record[IdOf[s]] \in {s, None, Torn}
    /\ record[IdOf[s]] # None => history[IdOf[s]] = s /\ openedAt[s] > 0
    /\ daemon[s] \in {"history", "failingHistory"} => history[IdOf[s]] = s

\* What is listed has been opened: it may still be torn, but once it is deleted
\* no writer brings it back.
VictimOK(s, t) ==
    /\ IdOf[t] \in prune[s].listing \cup prune[s].histories => openedAt[t] > 0
    /\ IdOf[t] \in prune[s].histories \ prune[s].records => record[IdOf[t]] = None

FileInv == \A s \in Sessions : FileOK(s) /\ \A t \in Sessions : VictimOK(s, t)

\* The daemons that have opened their record, and those that have listed the
\* records and have not failed or died before they had pruned.
Openers == {s \in Sessions : openedAt[s] > 0}
Listed == {s \in Sessions : daemon[s] \in {"reading", "pruning"} \/ HasPruned(s)}

\* What a daemon that has listed the records leaves: until it has chosen, those
\* opened since; then those and the ones it keeps.
Left(x) ==
    IF daemon[x] = "reading" THEN Retained \ prune[x].listing ELSE Retained \ prune[x].records
Kept(x) == IF daemon[x] = "reading" THEN 0 ELSE Keep
Fits(x, X) == Cardinality(Left(x)) <= Kept(x) + Cardinality(Openers \ X)

\* Of any daemons that have listed, the last to do so has seen every record of
\* the others.
RetainInv ==
    /\ Cardinality(Retained) <= Cardinality(Openers)
    /\ \A X \in SUBSET Listed : X # {} => \E x \in X : Fits(x, X)

\* The lock is held from lockNamespace to the return of Start, and a daemon
\* that is not yet countable has its Start waiting for it.
LockOK(s) ==
    /\ start[s] \in Holding <=> lock = s
    /\ daemon[s] \in Pending => start[s] = "waiting"

\* A socket path names its daemon from bind to close.
SockOK(s) ==
    /\ sock[IdOf[s]] \in {s, None}
    /\ daemon[s] \in {"bound", "listening", "serving"} => sock[IdOf[s]] = s

\* The count misses no active session, and removes no socket of one.
ScanOK(s) ==
    /\ start[s] # "counting" => scan[s].todo = {} /\ scan[s].dead = None
    /\ start[s] = "counting" =>
          \A t \in Sessions : Active(t) =>
              /\ IdOf[t] \in scan[s].todo \cup scan[s].live
              /\ scan[s].dead # None => IdOf[t] # scan[s].dead

CountInv == \A s \in Sessions : LockOK(s) /\ SockOK(s) /\ ScanOK(s)

-----------------------------------------------------------------------------
LEMMA Below ==
    \E R : IsWellFoundedOn(R, Nat) /\ \A x, y \in Nat : x < y => <<x, y>> \in R
<1> DEFINE R == OpToRel(<, Nat)
<1>1. IsWellFoundedOn(R, Nat) BY NatLessThanWellFounded
<1>2. \A x, y \in Nat : x < y => <<x, y>> \in R BY DEF OpToRel
<1> HIDE DEF R
<1> QED BY <1>1, <1>2

LEMMA Least ==
    ASSUME NEW T \in SUBSET Nat, T # {}
    PROVE  \E m \in T : \A n \in T : m <= n
<1>1. PICK R : IsWellFoundedOn(R, Nat) /\ \A x, y \in Nat : x < y => <<x, y>> \in R
    BY Below
<1>2. IsWellFoundedOn(R, Nat) /\ T \subseteq Nat BY <1>1
<1>3. \E m \in T : \A y \in T : ~(<<y, m>> \in R) BY <1>2, WFMin, Zenon
<1>4. PICK m \in T : \A y \in T : ~(<<y, m>> \in R) BY <1>3
<1>5. ASSUME NEW n \in T PROVE m <= n
    <2>1. m \in Nat /\ n \in Nat OBVIOUS
    <2>2. ~(n < m) BY <1>1, <1>4, <2>1, Zenon
    <2> QED BY <2>1, <2>2
<1> QED BY <1>5

LEMMA FiniteIds == IsFiniteSet(Ids) /\ Ids \subseteq Nat
<1> DEFINE id == [s \in Sessions |-> IdOf[s]]
<1>1. id \in Surjection(Sessions, Ids) BY DEF Surjection, Ids
<1> HIDE DEF id
<1>2. IsFiniteSet(Ids) BY <1>1, FS_Surjection, FiniteAssumption
<1> QED BY <1>2, IdAssumption DEF Ids

LEMMA ProbeOne ==
    ASSUME NEW p, scan[p].todo \subseteq Ids, scan[p].todo # {}
    PROVE  Probe(p) \in scan[p].todo
<1>1. \E m \in scan[p].todo : \A n \in scan[p].todo : m <= n
    <2> DEFINE T == scan[p].todo
    <2>1. T \in SUBSET Nat /\ T # {} BY FiniteIds
    <2> HIDE DEF T
    <2>2. \E m \in T : \A n \in T : m <= n BY <2>1, Least
    <2> QED BY <2>2 DEF T
<1> QED BY <1>1 DEF Probe, Min

-----------------------------------------------------------------------------
LEMMA ClockType == TypeOK => Clock \in Nat /\ Clock <= 2 * Cardinality(Sessions)
<1> SUFFICES ASSUME TypeOK PROVE Clock \in Nat /\ Clock <= 2 * Cardinality(Sessions)
    OBVIOUS
<1> DEFINE ended == {t \in Sessions : endedAt[t] > 0}
<1>1. ended \in SUBSET Sessions OBVIOUS
<1>2. Clock = 2 * Cardinality(ended) BY DEF Clock
<1> HIDE DEF ended
<1>3. IsFiniteSet(ended) /\ Cardinality(ended) <= Cardinality(Sessions)
    BY <1>1, FS_Subset, FiniteAssumption
<1>4. Cardinality(ended) \in Nat /\ Cardinality(Sessions) \in Nat
    BY <1>3, FS_CardinalityType, FiniteAssumption
<1> QED BY <1>2, <1>3, <1>4

LEMMA Greatest ==
    ASSUME NEW T \in SUBSET Nat, T # {}, NEW b \in Nat, \A n \in T : n <= b
    PROVE  Max(T) \in T
<1> DEFINE G == {b - n : n \in T}
<1>1. \A n \in T : b - n \in Nat
    <2> SUFFICES ASSUME NEW n \in T PROVE b - n \in Nat OBVIOUS
    <2>1. n \in Nat /\ n <= b OBVIOUS
    <2> QED BY <2>1
<1>2. G \in SUBSET Nat /\ G # {} BY <1>1
<1>3. \E m \in G : \A n \in G : m <= n
    <2> HIDE DEF G
    <2> QED BY <1>2, Least
<1>4. PICK x \in T : \A y \in T : b - x <= b - y BY <1>3
<1>5. \A y \in T : x >= y BY <1>4
<1> QED BY <1>5 DEF Max

LEMMA DateType ==
    ASSUME TypeOK, OpenedInv, NEW i \in Ids
    PROVE  EndedAt(i) \in Nat
<1> DEFINE T == {openedAt[s] : s \in {t \in Sessions : IdOf[t] = i}}
<1>1. T \in SUBSET Nat BY DEF TypeOK
<1>2. T # {} BY DEF Ids
<1>3. 2 * Cardinality(Sessions) + 1 \in Nat BY FS_CardinalityType, FiniteAssumption
<1>4. \A n \in T : n <= 2 * Cardinality(Sessions) + 1 BY DEF OpenedInv
<1>5. ModTime(i) \in Nat
    <2>1. ModTime(i) = Max(T) BY DEF ModTime
    <2> HIDE DEF T
    <2> QED BY <1>1, <1>2, <1>3, <1>4, <2>1, Greatest
<1>6. record[i] # None /\ record[i] # Torn => endedAt[record[i]] \in Nat BY DEF TypeOK
<1> QED BY <1>5, <1>6 DEF EndedAt

\* The steps that neither call nor end anything: listRunning.
LEMMA ListType ==
    ASSUME TypeOK, NEW p \in Sessions \cup Listers, ListRunning(p) \/ List(p)
    PROVE  TypeOK'
<1>1. scan[p] \in Scanning /\ Idle \in Scanning BY DEF TypeOK, Scanning, Idle
<1>2. CASE ProbeLive(p)
    <2>1. Probe(p) \in Ids BY <1>1, <1>2, ProbeOne DEF ProbeLive, Scanning
    <2>2. scan' \in [Sessions \cup Listers -> Scanning]
        BY <1>1, <1>2, <2>1 DEF ProbeLive, TypeOK, Scanning
    <2> QED BY <1>2, <2>2 DEF ProbeLive, TypeOK, files, times
<1>3. CASE ProbeDead(p)
    <2>1. Probe(p) \in Ids BY <1>1, <1>3, ProbeOne DEF ProbeDead, Scanning
    <2>2. scan' \in [Sessions \cup Listers -> Scanning]
        BY <1>1, <1>3, <2>1 DEF ProbeDead, TypeOK, Scanning
    <2> QED BY <1>3, <2>2 DEF ProbeDead, TypeOK, files, times
<1>4. CASE RemoveStale(p)
    <2>1. scan' \in [Sessions \cup Listers -> Scanning]
        BY <1>1, <1>4 DEF RemoveStale, TypeOK, Scanning
    <2> QED BY <1>4, <2>1 DEF RemoveStale, TypeOK, times
<1>5. CASE List(p)
    <2> DEFINE found == [Idle EXCEPT !.todo = {i \in Ids : sock[i] # None}]
    <2>1. found \in Scanning BY DEF Scanning, Idle
    <2> HIDE DEF found
    <2>2. scan' \in [Sessions \cup Listers -> Scanning]
        BY <1>5, <2>1 DEF List, TypeOK, found
    <2> QED BY <1>5, <2>2 DEF List, TypeOK, files, times
<1> QED BY <1>2, <1>3, <1>4, <1>5 DEF ListRunning

LEMMA StartType ==
    ASSUME TypeOK, NEW s \in Sessions, Starting(s) \/ CallerDies(s)
    PROVE  TypeOK'
<1>1. CASE Lock(s) BY <1>1 DEF Lock, TypeOK, files, times
<1>2. CASE FoundLive(s) \/ FoundRecord(s) \/ AtLimit(s) \/ WaitExited(s) \/ WaitTimeout(s)
    BY <1>2 DEF FoundLive, FoundRecord, AtLimit, WaitExited, WaitTimeout, Return, TypeOK, files, times
<1>3. CASE FoundDead(s) \/ FoundNoRecord(s)
    BY <1>3 DEF FoundDead, FoundNoRecord, TypeOK, files, times
<1>4. CASE ReplaceRecord(s) BY <1>4 DEF ReplaceRecord, TypeOK, times
<1>5. CASE ReplaceHistory(s) BY <1>5 DEF ReplaceHistory, TypeOK, times
<1>6. CASE CountSessions(s)
    <2> DEFINE found == [Idle EXCEPT !.todo = {i \in Ids : sock[i] # None}]
    <2>1. found \in Scanning BY DEF Scanning, Idle
    <2> HIDE DEF found
    <2>2. scan' \in [Sessions \cup Listers -> Scanning]
        BY <1>6, <2>1 DEF CountSessions, TypeOK, found
    <2> QED BY <1>6, <2>2 DEF CountSessions, TypeOK, files, times
<1>7. CASE ListRunning(s) BY <1>7, ListType
<1>8. CASE Spawn(s) BY <1>8 DEF Spawn, TypeOK, files, times
<1>9. CASE WaitLive(s) \/ WaitRecord(s)
    <2>1. IdOf[s] \in Ids BY DEF Ids
    <2> QED BY <1>9, <2>1 DEF WaitLive, WaitRecord, Answers, HasRecord, Return, TypeOK, files, times
<1>10. CASE CallerDies(s)
    <2>1. Idle \in Scanning BY DEF Scanning, Idle
    <2> QED BY <1>10, <2>1 DEF CallerDies, Return, TypeOK, files, times
<1> QED BY <1>1, <1>2, <1>3, <1>4, <1>5, <1>6, <1>7, <1>8, <1>9, <1>10 DEF Starting

LEMMA BringType ==
    ASSUME TypeOK, NEW s \in Sessions, Bringing(s) \/ End(s)
    PROVE  TypeOK'
<1>1. IdOf[s] \in Ids /\ Clock \in Nat BY ClockType DEF Ids
<1> HIDE DEF Clock
<1>2. CASE StartFails(s) BY <1>1, <1>2 DEF StartFails, Moves, TypeOK, files
<1>3. CASE End(s) BY <1>1, <1>3 DEF End, Moves, TypeOK, files
<1>4. CASE Unlink(s) \/ FailExit(s)
    BY <1>1, <1>4 DEF Unlink, FailExit, Moves, TypeOK, times
<1>5. CASE Bind(s) BY <1>1, <1>5 DEF Bind, Moves, TypeOK, times
<1>6. CASE BindFails(s) \/ Listen(s) \/ Serve(s)
    BY <1>6 DEF BindFails, Listen, Serve, Moves, TypeOK, files, times
<1>7. CASE FailHistory(s) BY <1>1, <1>7 DEF FailHistory, Moves, TypeOK, times
<1>8. CASE FailOpen(s) BY <1>1, <1>8 DEF FailOpen, TruncateRecord, Moves, TypeOK
<1>9. CASE FailRecord(s) BY <1>1, <1>9 DEF FailRecord, Moves, TypeOK, times
<1>10. CASE FailPersist(s) BY <1>1, <1>10 DEF FailPersist, HistoryTorn, TypeOK, times
<1> QED BY <1>2, <1>3, <1>4, <1>5, <1>6, <1>7, <1>8, <1>9, <1>10 DEF Bringing

\* An action that sets what one daemon has to prune.
LEMMA PruneType ==
    ASSUME TypeOK, NEW s \in Sessions, NEW p \in Pruning, prune' = [prune EXCEPT ![s] = p]
    PROVE  /\ prune' \in [Sessions -> Pruning]
           /\ prune'[s] = p /\ \A t \in Sessions \ {s} : prune'[t] = prune[t]
BY DEF TypeOK

\* keepEnded is at least 1 and at most RetentionCount.
LEMMA KeepType ==
    ASSUME TypeOK, NEW s \in Sessions, CountActive(s)
    PROVE  \E k \in 1..Keep :
              LET p == [prune[s] EXCEPT !.keep = k]
              IN  p \in Pruning /\ prune' = [prune EXCEPT ![s] = p]
<1> DEFINE others == {i \in Ids \ {IdOf[s]} : Listening(i)}
           active == Cardinality(others)
           keep == IF Keep - active < 1 THEN 1 ELSE Keep - active
<1>1. others \in SUBSET Ids OBVIOUS
<1> HIDE DEF others
<1>2. active \in Nat BY <1>1, FiniteIds, FS_Subset, FS_CardinalityType
<1> HIDE DEF active
<1>3. keep \in 1..Keep BY <1>2, CountAssumption
<1>4. prune' = [prune EXCEPT ![s].keep = keep] BY DEF CountActive, others, active
<1> HIDE DEF keep
<1>5. prune[s] \in Pruning BY DEF TypeOK
<1>6. [prune[s] EXCEPT !.keep = keep] \in Pruning BY <1>3, <1>5 DEF Pruning
<1> QED BY <1>3, <1>4, <1>6

LEMMA ReadType ==
    ASSUME TypeOK, NEW s \in Sessions, ReadRetention(s)
    PROVE  LET p == [prune[s] EXCEPT !.listing = Retained, !.unread = Retained]
           IN  p \in Pruning /\ prune' = [prune EXCEPT ![s] = p]
<1>1. prune[s] \in Pruning /\ Retained \in SUBSET Ids BY DEF TypeOK, Retained
<1>2. prune' = [prune EXCEPT ![s].listing = Retained, ![s].unread = Retained]
    BY DEF ReadRetention
<1> HIDE DEF Retained
<1>3. [prune[s] EXCEPT !.listing = Retained, !.unread = Retained] \in Pruning
    BY <1>1 DEF Pruning
<1> QED BY <1>2, <1>3

LEMMA ReadDateType ==
    ASSUME TypeOK, OpenedInv, NEW s \in Sessions, ReadDate(s)
    PROVE  \E u \in SUBSET Ids, d \in [Ids -> Nat] :
              LET p == [prune[s] EXCEPT !.unread = u, !.dates = d]
              IN  p \in Pruning /\ prune' = [prune EXCEPT ![s] = p]
<1> DEFINE i == Min(prune[s].unread)
           u == prune[s].unread \ {i}
           d == [prune[s].dates EXCEPT ![i] = EndedAt(i)]
<1>1. prune[s] \in Pruning /\ prune[s].unread \in SUBSET Ids /\ prune[s].unread # {}
      /\ prune[s].dates \in [Ids -> Nat]
    BY DEF TypeOK, Pruning, ReadDate
<1>2. i \in Ids
    <2> DEFINE T == prune[s].unread
    <2>1. T \in SUBSET Nat /\ T # {} BY <1>1, FiniteIds
    <2> HIDE DEF T
    <2>2. \E m \in T : \A n \in T : m <= n BY <2>1, Least
    <2>3. Min(T) \in T BY <2>2 DEF Min
    <2> QED BY <1>1, <2>3 DEF T
<1>3. prune' = [prune EXCEPT ![s].unread = u, ![s].dates = d] BY DEF ReadDate
<1> HIDE DEF i
<1>4. u \in SUBSET Ids /\ d \in [Ids -> Nat] BY <1>1, <1>2, DateType
<1> HIDE DEF u, d
<1>5. [prune[s] EXCEPT !.unread = u, !.dates = d] \in Pruning BY <1>1, <1>4 DEF Pruning
<1> QED BY <1>3, <1>4, <1>5

LEMMA ChooseType ==
    ASSUME TypeOK, NEW s \in Sessions, ChooseVictims(s)
    PROVE  \E V \in Oldest(s, prune[s].keep) :
              LET p == [NotPruning EXCEPT !.keep = prune[s].keep, !.records = V, !.histories = V]
              IN  p \in Pruning /\ prune' = [prune EXCEPT ![s] = p]
<1>1. PICK V \in Oldest(s, prune[s].keep) :
          prune' = [prune EXCEPT ![s] = [NotPruning EXCEPT !.keep = prune[s].keep,
                                             !.records = V, !.histories = V]]
    BY DEF ChooseVictims, Chooses
<1>2. prune[s].keep \in 0..Keep /\ V \in SUBSET Ids BY DEF TypeOK, Pruning, Oldest
<1>3. [NotPruning EXCEPT !.keep = prune[s].keep, !.records = V, !.histories = V] \in Pruning
    BY <1>2 DEF NotPruning, NoDates, Pruning
<1> QED BY <1>1, <1>3

LEMMA DropType ==
    ASSUME TypeOK, NEW s \in Sessions, NEW i \in Ids, DropRecord(s, i) \/ DropHistory(s, i)
    PROVE  LET p == IF DropRecord(s, i)
                    THEN [prune[s] EXCEPT !.records = prune[s].records \ {i}]
                    ELSE [prune[s] EXCEPT !.histories = prune[s].histories \ {i}]
           IN  p \in Pruning /\ prune' = [prune EXCEPT ![s] = p]
<1>1. prune[s] \in Pruning BY DEF TypeOK
<1>2. /\ [prune[s] EXCEPT !.records = prune[s].records \ {i}] \in Pruning
      /\ [prune[s] EXCEPT !.histories = prune[s].histories \ {i}] \in Pruning
    BY <1>1 DEF Pruning
<1>3. CASE DropRecord(s, i)
    <2>1. prune' = [prune EXCEPT ![s].records = prune[s].records \ {i}]
        BY <1>3 DEF DropRecord
    <2> QED BY <1>2, <1>3, <2>1
<1>4. CASE DropHistory(s, i) /\ ~DropRecord(s, i)
    <2>1. prune' = [prune EXCEPT ![s].histories = prune[s].histories \ {i}]
        BY <1>4 DEF DropHistory
    <2> QED BY <1>2, <1>4, <2>1
<1> QED BY <1>3, <1>4

LEMMA NotPruningType == NotPruning \in Pruning
BY CountAssumption DEF NotPruning, NoDates, Pruning

LEMMA EndType ==
    ASSUME TypeOK, OpenedInv, NEW s \in Sessions, Ending(s) \/ DaemonDies(s)
    PROVE  TypeOK'
<1>1. IdOf[s] \in Ids /\ Clock \in Nat BY ClockType DEF Ids
<1> HIDE DEF Clock
<1>2. CASE Pruned(s) BY <1>2 DEF Pruned, Moves, TypeOK, files, times
<1>3. CASE WriteHistory(s) BY <1>1, <1>3 DEF WriteHistory, Moves, TypeOK, times
<1>4. CASE OpenRecord(s) BY <1>1, <1>4 DEF OpenRecord, TruncateRecord, Moves, TypeOK
<1>5. CASE WriteRecord(s) BY <1>1, <1>5 DEF WriteRecord, Moves, TypeOK, times
<1>6. CASE CountActive(s)
    <2>1. prune' \in [Sessions -> Pruning] BY <1>6, KeepType, PruneType
    <2> QED BY <1>6, <2>1 DEF CountActive, Moves, TypeOK, files, times
<1>7. CASE ReadRetention(s)
    <2>1. prune' \in [Sessions -> Pruning] BY <1>7, ReadType, PruneType
    <2> QED BY <1>7, <2>1 DEF ReadRetention, Moves, TypeOK, files, times
<1>8. CASE ReadDate(s)
    <2>1. prune' \in [Sessions -> Pruning] BY <1>8, ReadDateType, PruneType
    <2> QED BY <1>8, <2>1 DEF ReadDate, TypeOK, files, times
<1>9. CASE ChooseVictims(s)
    <2>1. prune' \in [Sessions -> Pruning] BY <1>9, ChooseType, PruneType
    <2> QED BY <1>9, <2>1 DEF ChooseVictims, Chooses, Moves, TypeOK, files, times
<1>10. ASSUME NEW i \in Ids, DropRecord(s, i) \/ DropHistory(s, i) PROVE TypeOK'
    <2>1. prune' \in [Sessions -> Pruning] BY <1>10, DropType, PruneType
    <2> QED BY <1>10, <2>1 DEF DropRecord, DropHistory, TypeOK, times
<1>11. CASE RemoveSocket(s) BY <1>1, <1>11 DEF RemoveSocket, Moves, TypeOK, times
<1>12. CASE DaemonDies(s) BY <1>12, NotPruningType DEF DaemonDies, TypeOK, files, times
<1>13. CASE PersistFails(s)
    BY <1>1, <1>13, NotPruningType DEF PersistFails, HistoryTorn, TypeOK, times
<1> QED BY <1>2, <1>3, <1>4, <1>5, <1>6, <1>7, <1>8, <1>9, <1>10, <1>11, <1>12, <1>13 DEF Ending

-----------------------------------------------------------------------------
\* Who takes a step.
LEMMA Parties ==
    ASSUME [Next]_vars
    PROVE  \/ UNCHANGED vars
           \/ \E s \in Sessions : Starting(s) \/ CallerDies(s)
           \/ \E s \in Sessions : Bringing(s) \/ End(s)
           \/ \E s \in Sessions : Ending(s) \/ DaemonDies(s)
           \/ \E l \in Listers : List(l) \/ ListRunning(l)
BY DEF Next

\* Listings and calls touch no file but the socket, and a call spawns its own
\* daemon once.
LEMMA ListFrame ==
    ASSUME NEW p, List(p) \/ ListRunning(p)
    PROVE  UNCHANGED <<lock, start, result, daemon, record, history, openedAt, prune>>
BY DEF List, ListRunning, ProbeLive, ProbeDead, RemoveStale, files, times

LEMMA StartFrame ==
    ASSUME TypeOK, NEW s \in Sessions, Starting(s) \/ CallerDies(s)
    PROVE  /\ UNCHANGED <<openedAt, prune>>
           /\ UNCHANGED daemon \/ (start[s] = "counting" /\ daemon' = [daemon EXCEPT ![s] = "spawned"])
           /\ \/ UNCHANGED <<record, history>>
              \/ start[s] = "checked" /\ HasRecord(IdOf[s])
                 /\ record' = [record EXCEPT ![IdOf[s]] = None] /\ UNCHANGED history
              \/ start[s] = "replacing" /\ UNCHANGED record /\ history' = [history EXCEPT ![IdOf[s]] = None]
           /\ \A t \in Sessions : start'[t] \in NotSpawned => start[t] \in NotSpawned
           /\ start'[s] \in NotSpawned => UNCHANGED daemon
<1>1. CASE ListRunning(s) BY <1>1, ListFrame
<1>2. CASE Lock(s) \/ FoundDead(s) \/ FoundNoRecord(s) \/ CountSessions(s)
    BY <1>2 DEF Lock, FoundDead, FoundNoRecord, CountSessions, files, times, NotSpawned, TypeOK
<1>3. CASE ReplaceRecord(s) \/ ReplaceHistory(s)
    BY <1>3 DEF ReplaceRecord, ReplaceHistory, times, NotSpawned, TypeOK
<1>4. CASE FoundLive(s) \/ FoundRecord(s) \/ AtLimit(s) \/ WaitLive(s) \/ WaitRecord(s)
           \/ WaitExited(s) \/ WaitTimeout(s) \/ CallerDies(s)
    BY <1>4 DEF FoundLive, FoundRecord, AtLimit, WaitLive, WaitRecord, WaitExited, WaitTimeout,
                CallerDies, Return, files, times, NotSpawned, TypeOK
<1>5. CASE Spawn(s) BY <1>5 DEF Spawn, Counted, files, times, NotSpawned, TypeOK
<1> QED BY <1>1, <1>2, <1>3, <1>4, <1>5 DEF Starting

Pruners == {"counted", "reading", "pruning", "persisted", "exited"}

\* A daemon's step moves that daemon only, and never back to before its spawn;
\* what it has opened stays opened.
LEMMA BringFrame ==
    ASSUME TypeOK, NEW s \in Sessions, Bringing(s) \/ End(s)
    PROVE  /\ UNCHANGED <<lock, start, result, scan, prune>>
           /\ daemon[s] \notin Pruners \cup {"none"}
           /\ daemon'[s] \notin {"none", "counted", "reading", "pruning"}
           /\ daemon'[s] \in Unopened => daemon[s] \in Unopened
           /\ \A t \in Sessions \ {s} : daemon'[t] = daemon[t]
           /\ FailOpen(s) \/ UNCHANGED openedAt
BY DEF Bringing, End, Unlink, Bind, BindFails, Listen, Serve, StartFails, FailHistory, FailOpen,
       FailRecord, FailPersist, FailExit, Moves, Unopened, Pruners, files, times, TypeOK

LEMMA EndFrame ==
    ASSUME TypeOK, NEW s \in Sessions, Ending(s) \/ DaemonDies(s)
    PROVE  /\ UNCHANGED <<lock, start, result, scan>>
           /\ daemon[s] # "none"
           /\ daemon'[s] \in {"history", "torn", "recorded", "persisted"} \cup Pruners
           /\ daemon'[s] \in Unopened => daemon[s] \in Unopened
           /\ \A t \in Sessions \ {s} : daemon'[t] = daemon[t]
           /\ OpenRecord(s) \/ UNCHANGED openedAt
<1>1. CASE \E i \in Ids : DropRecord(s, i) \/ DropHistory(s, i)
    BY <1>1 DEF DropRecord, DropHistory, Pruners, times, TypeOK
<1>2. CASE PersistFails(s) \/ WriteHistory(s) \/ OpenRecord(s) \/ WriteRecord(s)
    BY <1>2 DEF PersistFails, WriteHistory, OpenRecord, WriteRecord, Moves, Unopened, Pruners,
                times, TypeOK
<1>3. CASE CountActive(s) \/ ReadRetention(s) \/ Pruned(s) \/ RemoveSocket(s)
    BY <1>3 DEF CountActive, ReadRetention, Pruned, RemoveSocket, Moves, Unopened, Pruners, times, TypeOK
<1>4. CASE ReadDate(s) BY <1>4 DEF ReadDate, Pruners, times
<1>5. CASE ChooseVictims(s)
    BY <1>5 DEF ChooseVictims, Chooses, Moves, Unopened, Pruners, times, TypeOK
<1>6. CASE DaemonDies(s) BY <1>6 DEF DaemonDies, Unopened, Pruners, times, TypeOK
<1> QED BY <1>1, <1>2, <1>3, <1>4, <1>5, <1>6 DEF Ending

LEMMA SpawnStep ==
    ASSUME TypeOK, SpawnInv, [Next]_vars
    PROVE  SpawnInv'
<1>1. CASE UNCHANGED vars BY <1>1 DEF vars, SpawnInv
<1>2. ASSUME NEW s \in Sessions, Starting(s) \/ CallerDies(s) PROVE SpawnInv'
    BY <1>2, StartFrame DEF SpawnInv, NotSpawned, TypeOK
<1>3. ASSUME NEW s \in Sessions, Bringing(s) \/ End(s) PROVE SpawnInv'
    BY <1>3, BringFrame DEF SpawnInv
<1>4. ASSUME NEW s \in Sessions, Ending(s) \/ DaemonDies(s) PROVE SpawnInv'
    BY <1>4, EndFrame DEF SpawnInv
<1>5. ASSUME NEW l \in Listers, List(l) \/ ListRunning(l) PROVE SpawnInv'
    BY <1>5, ListFrame DEF SpawnInv
<1> QED BY <1>1, <1>2, <1>3, <1>4, <1>5, Parties

LEMMA OpenedStep ==
    ASSUME TypeOK, SpawnInv, OpenedInv, [Next]_vars
    PROVE  OpenedInv'
<1>1. ASSUME UNCHANGED openedAt, \A t \in Sessions : daemon'[t] \in Unopened => daemon[t] \in Unopened
      PROVE  OpenedInv'
    BY <1>1 DEF OpenedInv
<1>2. CASE UNCHANGED vars BY <1>1, <1>2 DEF vars
<1>3. ASSUME NEW s \in Sessions, Starting(s) \/ CallerDies(s) PROVE OpenedInv'
    <2>1. start[s] = "counting" => daemon[s] = "none" BY DEF SpawnInv, NotSpawned
    <2> QED BY <1>1, <1>3, <2>1, StartFrame DEF Unopened, TypeOK
<1>4. ASSUME NEW s \in Sessions, FailOpen(s) \/ OpenRecord(s) PROVE OpenedInv'
    <2>1. openedAt' = [openedAt EXCEPT ![s] = Clock + 1]
        BY <1>4 DEF FailOpen, OpenRecord, TruncateRecord
    <2>2. Clock + 1 <= 2 * Cardinality(Sessions) + 1
        BY ClockType, FS_CardinalityType, FiniteAssumption
    <2> HIDE DEF Clock
    <2>3. openedAt'[s] = Clock + 1 /\ \A t \in Sessions \ {s} : openedAt'[t] = openedAt[t]
        BY <2>1 DEF TypeOK
    <2>4. daemon'[s] \notin Unopened /\ \A t \in Sessions \ {s} : daemon'[t] = daemon[t]
        BY <1>4 DEF FailOpen, OpenRecord, Moves, Unopened, TypeOK
    <2> QED BY <2>2, <2>3, <2>4 DEF OpenedInv
<1>5. ASSUME NEW s \in Sessions, Bringing(s) \/ End(s), ~FailOpen(s) PROVE OpenedInv'
    BY <1>1, <1>5, BringFrame
<1>6. ASSUME NEW s \in Sessions, Ending(s) \/ DaemonDies(s), ~OpenRecord(s) PROVE OpenedInv'
    BY <1>1, <1>6, EndFrame
<1>7. ASSUME NEW l \in Listers, List(l) \/ ListRunning(l) PROVE OpenedInv'
    BY <1>1, <1>7, ListFrame
<1> QED BY <1>2, <1>3, <1>4, <1>5, <1>6, <1>7, Parties

\* What a daemon is left to prune.
Prunes(s, keep, listing, records, histories) ==
    /\ prune'[s].keep = keep /\ prune'[s].listing = listing
    /\ prune'[s].records = records /\ prune'[s].histories = histories

Same(s) == Prunes(s, prune[s].keep, prune[s].listing, prune[s].records, prune[s].histories)

LEMMA PruneFields ==
    ASSUME TypeOK, OpenedInv, NEW s \in Sessions, Ending(s) \/ DaemonDies(s)
    PROVE  /\ \A t \in Sessions \ {s} : prune'[t] = prune[t]
           /\ \/ Same(s) /\ daemon[s] \notin Pruners /\ daemon'[s] \notin {"counted", "reading", "pruning"}
              \/ Same(s) /\ daemon[s] = "persisted" /\ daemon'[s] = "exited"
              \/ Same(s) /\ Pruned(s)
              \/ Same(s) /\ ReadDate(s)
              \/ daemon'[s] \in {"persisted", "exited"} /\ Prunes(s, 0, {}, {}, {})
              \/ CountActive(s) /\ \E k \in 1..Keep :
                    Prunes(s, k, prune[s].listing, prune[s].records, prune[s].histories)
              \/ ReadRetention(s) /\ Prunes(s, prune[s].keep, Retained, prune[s].records, prune[s].histories)
              \/ ChooseVictims(s) /\ \E V \in Oldest(s, prune[s].keep) : Prunes(s, prune[s].keep, {}, V, V)
              \/ \E i \in Ids :
                    \/ DropRecord(s, i)
                       /\ Prunes(s, prune[s].keep, prune[s].listing, prune[s].records \ {i}, prune[s].histories)
                    \/ DropHistory(s, i)
                       /\ Prunes(s, prune[s].keep, prune[s].listing, prune[s].records, prune[s].histories \ {i})
<1>0. prune[s] \in Pruning BY DEF TypeOK
<1>1. CASE PersistFails(s)
    BY <1>1 DEF PersistFails, TypeOK, Prunes, NotPruning
<1>2. CASE DaemonDies(s)
    <2>1. daemon[s] = "persisted" \/ prune' = [prune EXCEPT ![s] = NotPruning]
        BY <1>2 DEF DaemonDies
    <2>2. CASE daemon[s] = "persisted"
        <3>1. prune' = prune
            BY <1>2, <2>2 DEF DaemonDies, TypeOK
        <3> QED BY <1>2, <2>2, <3>1 DEF DaemonDies, TypeOK, Same, Prunes
    <2>3. CASE prune' = [prune EXCEPT ![s] = NotPruning]
        BY <1>2, <2>3 DEF DaemonDies, TypeOK, Prunes, NotPruning
    <2> QED BY <2>1, <2>2, <2>3
<1>3. CASE WriteHistory(s) \/ OpenRecord(s) \/ WriteRecord(s) \/ RemoveSocket(s)
    BY <1>3 DEF WriteHistory, OpenRecord, WriteRecord, RemoveSocket, Moves, TypeOK, Pruners, Same, Prunes
<1>4. CASE Pruned(s) BY <1>4 DEF Pruned, Same, Prunes
<1>5. CASE CountActive(s)
    <2>1. PICK k \in 1..Keep : LET p == [prune[s] EXCEPT !.keep = k]
                               IN  p \in Pruning /\ prune' = [prune EXCEPT ![s] = p]
        BY <1>5, KeepType
    <2> DEFINE p == [prune[s] EXCEPT !.keep = k]
    <2>2. p.keep = k /\ p.listing = prune[s].listing /\ p.records = prune[s].records
          /\ p.histories = prune[s].histories
        BY <1>0 DEF Pruning
    <2> HIDE DEF p
    <2>3. p \in Pruning /\ prune' = [prune EXCEPT ![s] = p] BY <2>1 DEF p
    <2>4. prune'[s] = p /\ \A t \in Sessions \ {s} : prune'[t] = prune[t] BY <2>3, PruneType
    <2> QED BY <1>5, <2>2, <2>4 DEF Prunes
<1>6. CASE ReadRetention(s)
    <2> DEFINE p == [prune[s] EXCEPT !.listing = Retained, !.unread = Retained]
    <2>1. p \in Pruning /\ prune' = [prune EXCEPT ![s] = p] BY <1>6, ReadType
    <2>2. p.keep = prune[s].keep /\ p.listing = Retained /\ p.records = prune[s].records
          /\ p.histories = prune[s].histories
        BY <1>0 DEF Pruning
    <2> HIDE DEF p
    <2>3. prune'[s] = p /\ \A t \in Sessions \ {s} : prune'[t] = prune[t] BY <2>1, PruneType
    <2> QED BY <1>6, <2>2, <2>3 DEF Prunes
<1>7. CASE ReadDate(s)
    <2>1. PICK u \in SUBSET Ids, d \in [Ids -> Nat] :
              LET p == [prune[s] EXCEPT !.unread = u, !.dates = d]
              IN  p \in Pruning /\ prune' = [prune EXCEPT ![s] = p]
        BY <1>7, ReadDateType
    <2> DEFINE p == [prune[s] EXCEPT !.unread = u, !.dates = d]
    <2>2. p.keep = prune[s].keep /\ p.listing = prune[s].listing /\ p.records = prune[s].records
          /\ p.histories = prune[s].histories
        BY <1>0 DEF Pruning
    <2> HIDE DEF p
    <2>3. p \in Pruning /\ prune' = [prune EXCEPT ![s] = p] BY <2>1 DEF p
    <2>4. prune'[s] = p /\ \A t \in Sessions \ {s} : prune'[t] = prune[t] BY <2>3, PruneType
    <2> QED BY <1>7, <2>2, <2>4 DEF Same, Prunes
<1>8. CASE ChooseVictims(s)
    <2>1. PICK V \in Oldest(s, prune[s].keep) :
              LET p == [NotPruning EXCEPT !.keep = prune[s].keep, !.records = V, !.histories = V]
              IN  p \in Pruning /\ prune' = [prune EXCEPT ![s] = p]
        BY <1>8, ChooseType
    <2> DEFINE p == [NotPruning EXCEPT !.keep = prune[s].keep, !.records = V, !.histories = V]
    <2>2. p.keep = prune[s].keep /\ p.listing = {} /\ p.records = V /\ p.histories = V
        BY DEF NotPruning
    <2> HIDE DEF p
    <2>3. p \in Pruning /\ prune' = [prune EXCEPT ![s] = p] BY <2>1 DEF p
    <2>4. prune'[s] = p /\ \A t \in Sessions \ {s} : prune'[t] = prune[t] BY <2>3, PruneType
    <2> QED BY <1>8, <2>2, <2>4 DEF Prunes
<1>9. ASSUME NEW i \in Ids, DropRecord(s, i)
      PROVE  /\ \A t \in Sessions \ {s} : prune'[t] = prune[t]
             /\ Prunes(s, prune[s].keep, prune[s].listing, prune[s].records \ {i}, prune[s].histories)
    <2> DEFINE p == [prune[s] EXCEPT !.records = prune[s].records \ {i}]
    <2>1. p \in Pruning /\ prune' = [prune EXCEPT ![s] = p] BY <1>9, DropType
    <2>2. p.keep = prune[s].keep /\ p.listing = prune[s].listing
          /\ p.records = prune[s].records \ {i} /\ p.histories = prune[s].histories
        BY <1>0 DEF Pruning
    <2> HIDE DEF p
    <2>3. prune'[s] = p /\ \A t \in Sessions \ {s} : prune'[t] = prune[t] BY <2>1, PruneType
    <2> QED BY <2>2, <2>3 DEF Prunes
<1>10. ASSUME NEW i \in Ids, DropHistory(s, i)
       PROVE  /\ \A t \in Sessions \ {s} : prune'[t] = prune[t]
              /\ Prunes(s, prune[s].keep, prune[s].listing, prune[s].records, prune[s].histories \ {i})
    <2> DEFINE p == [prune[s] EXCEPT !.histories = prune[s].histories \ {i}]
    <2>1. prune' = [prune EXCEPT ![s] = p] BY <1>10 DEF DropHistory
    <2>2. p \in Pruning BY <1>0 DEF Pruning
    <2>3. p.keep = prune[s].keep /\ p.listing = prune[s].listing
          /\ p.records = prune[s].records /\ p.histories = prune[s].histories \ {i}
        BY <1>0 DEF Pruning
    <2> HIDE DEF p
    <2>4. prune'[s] = p /\ \A t \in Sessions \ {s} : prune'[t] = prune[t] BY <2>1, <2>2, PruneType
    <2> QED BY <2>3, <2>4 DEF Prunes
<1> QED BY <1>1, <1>2, <1>3, <1>4, <1>5, <1>6, <1>7, <1>8, <1>9, <1>10 DEF Ending

LEMMA PruneStep ==
    ASSUME TypeOK, SpawnInv, OpenedInv, PruneInv, [Next]_vars
    PROVE  PruneInv'
<1>1. ASSUME UNCHANGED <<prune, daemon>> PROVE PruneInv'
    BY <1>1 DEF PruneInv, PruneOK
<1>2. CASE UNCHANGED vars BY <1>1, <1>2 DEF vars
<1>3. ASSUME NEW s \in Sessions, Starting(s) \/ CallerDies(s) PROVE PruneInv'
    <2>1. start[s] = "counting" => daemon[s] = "none" BY DEF SpawnInv, NotSpawned
    <2> QED BY <1>3, <2>1, StartFrame DEF PruneInv, PruneOK, TypeOK
<1>4. ASSUME NEW s \in Sessions, Bringing(s) \/ End(s) PROVE PruneInv'
    BY <1>4, BringFrame DEF PruneInv, PruneOK, Pruners
<1>5. ASSUME NEW s \in Sessions, Ending(s) \/ DaemonDies(s) PROVE PruneInv'
    <2>1. PruneOK(s) /\ prune[s] \in Pruning BY DEF PruneInv, TypeOK
    <2>2. ASSUME NEW t \in Sessions \ {s} PROVE PruneOK(t)'
        BY <1>5, EndFrame, PruneFields DEF PruneInv, PruneOK
    <2>3. PruneOK(s)'
        <3>1. CASE Same(s) /\ daemon[s] \notin Pruners /\ daemon'[s] \notin {"counted", "reading", "pruning"}
            BY <2>1, <3>1 DEF PruneOK, Pruners, Same, Prunes
        <3>2. CASE Same(s) /\ daemon[s] = "persisted" /\ daemon'[s] = "exited"
            BY <2>1, <3>2 DEF PruneOK, Same, Prunes
        <3>3. CASE Same(s) /\ Pruned(s)
            BY <2>1, <3>3 DEF PruneOK, Same, Prunes, Pruned, Moves, TypeOK
        <3>4. CASE Same(s) /\ ReadDate(s)
            BY <2>1, <3>4 DEF PruneOK, Same, Prunes, ReadDate
        <3>5. CASE daemon'[s] \in {"persisted", "exited"} /\ Prunes(s, 0, {}, {}, {})
            BY <3>5 DEF PruneOK, Prunes
        <3>6. CASE CountActive(s) /\ \E k \in 1..Keep :
                      Prunes(s, k, prune[s].listing, prune[s].records, prune[s].histories)
            <4>1. daemon[s] = "recorded" /\ daemon'[s] = "counted" BY <3>6 DEF CountActive, Moves, TypeOK
            <4> QED BY <2>1, <3>6, <4>1 DEF PruneOK, Prunes
        <3>7. CASE ReadRetention(s)
                   /\ Prunes(s, prune[s].keep, Retained, prune[s].records, prune[s].histories)
            <4>1. daemon[s] = "counted" /\ daemon'[s] = "reading" BY <3>7 DEF ReadRetention, Moves, TypeOK
            <4> QED BY <2>1, <3>7, <4>1 DEF PruneOK, Prunes
        <3>8. CASE ChooseVictims(s) /\ \E V \in Oldest(s, prune[s].keep) : Prunes(s, prune[s].keep, {}, V, V)
            <4>1. daemon'[s] = "pruning" BY <3>8 DEF ChooseVictims, Chooses, Moves, TypeOK
            <4> QED BY <2>1, <3>8, <4>1 DEF PruneOK, Prunes
        <3>9. ASSUME NEW i \in Ids, DropRecord(s, i),
                     Prunes(s, prune[s].keep, prune[s].listing, prune[s].records \ {i}, prune[s].histories)
              PROVE  PruneOK(s)'
            <4>1. daemon[s] = "pruning" /\ daemon' = daemon BY <3>9 DEF DropRecord
            <4> QED BY <2>1, <3>9, <4>1 DEF PruneOK, Prunes
        <3>10. ASSUME NEW i \in Ids, DropHistory(s, i),
                      Prunes(s, prune[s].keep, prune[s].listing, prune[s].records, prune[s].histories \ {i})
               PROVE  PruneOK(s)'
            <4>1. daemon[s] = "pruning" /\ daemon' = daemon /\ i \notin prune[s].records
                BY <3>10 DEF DropHistory
            <4> QED BY <2>1, <3>10, <4>1 DEF PruneOK, Prunes
        <3> QED BY <1>5, <3>1, <3>2, <3>3, <3>4, <3>5, <3>6, <3>7, <3>8, <3>9, <3>10, PruneFields
    <2> QED BY <2>2, <2>3 DEF PruneInv
<1>6. ASSUME NEW l \in Listers, List(l) \/ ListRunning(l) PROVE PruneInv'
    BY <1>1, <1>6, ListFrame
<1> QED BY <1>2, <1>3, <1>4, <1>5, <1>6, Parties

-----------------------------------------------------------------------------
TypeInv == TypeOK /\ SpawnInv /\ OpenedInv /\ PruneInv

LEMMA TypeInit == Init => TypeInv
<1> SUFFICES ASSUME Init PROVE TypeInv OBVIOUS
<1>1. TypeOK
    BY NotPruningType DEF Init, TypeOK, Scanning, Idle
<1>2. SpawnInv BY DEF Init, SpawnInv
<1>3. OpenedInv BY FS_CardinalityType, FiniteAssumption DEF Init, OpenedInv
<1>4. PruneInv BY DEF Init, PruneInv, PruneOK, NotPruning
<1> QED BY <1>1, <1>2, <1>3, <1>4 DEF TypeInv

LEMMA TypeStep == TypeInv /\ [Next]_vars => TypeInv'
<1> SUFFICES ASSUME TypeOK, SpawnInv, OpenedInv, PruneInv, [Next]_vars PROVE TypeOK'
    BY SpawnStep, OpenedStep, PruneStep DEF TypeInv
<1>1. CASE UNCHANGED vars BY <1>1 DEF vars, TypeOK
<1> QED BY <1>1, StartType, BringType, EndType, ListType, Parties

\* Whatever crashes, is abandoned or starts together, every variable keeps its
\* type; in particular a daemon never keeps more than Keep records.
THEOREM TypeCorrect == Spec => []TypeOK
<1>1. TypeInv => TypeOK BY DEF TypeInv
<1> QED BY <1>1, TypeInit, TypeStep, PTL DEF Spec

-----------------------------------------------------------------------------
\* A daemon's own steps leave the files of other ids alone, unless it prunes.
LEMMA OwnFiles ==
    ASSUME DistinctIds, TypeOK, NEW s \in Sessions, NEW t \in Sessions \ {s},
           Bringing(s) \/ End(s) \/ Ending(s) \/ DaemonDies(s),
           ~\E i \in Ids : DropRecord(s, i) \/ DropHistory(s, i)
    PROVE  record'[IdOf[t]] = record[IdOf[t]] /\ history'[IdOf[t]] = history[IdOf[t]]
<1>1. IdOf[t] # IdOf[s] /\ IdOf[t] \in Ids /\ IdOf[s] \in Ids BY DEF DistinctIds, Ids
<1>2. CASE Bringing(s) \/ End(s) \/ DaemonDies(s)
    BY <1>1, <1>2 DEF Bringing, End, Unlink, Bind, BindFails, Listen, Serve, StartFails,
        FailHistory, FailOpen, TruncateRecord, FailRecord, FailPersist, HistoryTorn, FailExit,
        DaemonDies, files, TypeOK
<1>3. CASE Ending(s)
    BY <1>1, <1>3 DEF Ending, PersistFails, HistoryTorn, WriteHistory, OpenRecord, TruncateRecord,
        WriteRecord, CountActive, ReadRetention, ReadDate, ChooseVictims, Chooses, Pruned,
        RemoveSocket, files, TypeOK
<1> QED BY <1>2, <1>3

\* What a daemon that prunes deletes has been opened; for the rest a file is
\* written by the session whose id it has.
LEMMA FileOKStep ==
    ASSUME DistinctIds, TypeInv, FileInv, [Next]_vars, NEW t \in Sessions
    PROVE  FileOK(t)'
<1>0. TypeOK /\ SpawnInv /\ OpenedInv /\ PruneInv /\ FileOK(t) /\ IdOf[t] \in Ids
    BY DEF TypeInv, FileInv, Ids
<1>1. daemon[t] \in Unopened => record[IdOf[t]] = None
    BY <1>0 DEF OpenedInv, FileOK
<1>2. ASSUME daemon'[t] = daemon[t] \/ daemon'[t] \notin {"history", "failingHistory"},
             record'[IdOf[t]] = record[IdOf[t]], history'[IdOf[t]] = history[IdOf[t]],
             openedAt'[t] = openedAt[t]
      PROVE  FileOK(t)'
    BY <1>0, <1>2 DEF FileOK
<1>3. CASE UNCHANGED vars BY <1>2, <1>3 DEF vars
<1>4. ASSUME NEW s \in Sessions, Starting(s) \/ CallerDies(s) PROVE FileOK(t)'
    <2>1. start[s] \in NotSpawned => daemon[s] = "none" BY <1>0 DEF SpawnInv
    <2>2. /\ UNCHANGED openedAt
          /\ UNCHANGED daemon \/ (start[s] = "counting" /\ daemon' = [daemon EXCEPT ![s] = "spawned"])
          /\ \/ UNCHANGED <<record, history>>
             \/ start[s] = "checked" /\ HasRecord(IdOf[s])
                /\ record' = [record EXCEPT ![IdOf[s]] = None] /\ UNCHANGED history
             \/ start[s] = "replacing" /\ UNCHANGED record /\ history' = [history EXCEPT ![IdOf[s]] = None]
        BY <1>0, <1>4, StartFrame
    <2>3. daemon'[t] = daemon[t] \/ daemon'[t] = "spawned" BY <1>0, <2>2 DEF TypeOK
    <2>4. CASE UNCHANGED <<record, history>> BY <1>2, <2>2, <2>3, <2>4
    <2>5. CASE s # t
        <3>1. IdOf[t] # IdOf[s] BY <2>5 DEF DistinctIds
        <3> QED BY <1>0, <1>2, <2>2, <2>3, <3>1 DEF TypeOK
    <2>6. CASE s = t /\ start[s] = "checked"
        <3>1. record[IdOf[t]] = None BY <1>1, <2>1, <2>6 DEF NotSpawned, Unopened
        <3> QED BY <2>2, <2>4, <2>6, <3>1, NamesAssumption DEF HasRecord
    <2>7. CASE s = t /\ start[s] = "replacing"
        <3>1. record[IdOf[t]] = None /\ daemon[t] = "none"
            BY <1>1, <2>1, <2>7 DEF NotSpawned, Unopened
        <3> QED BY <1>0, <2>2, <2>4, <2>7, <3>1 DEF FileOK, TypeOK
    <2> QED BY <2>2, <2>4, <2>5, <2>6, <2>7
<1>5. ASSUME NEW s \in Sessions, NEW i \in Ids, DropRecord(s, i) PROVE FileOK(t)'
    BY <1>0, <1>5 DEF DropRecord, FileOK, TypeOK, times
<1>6. ASSUME NEW s \in Sessions, NEW i \in Ids, DropHistory(s, i) PROVE FileOK(t)'
    <2>1. VictimOK(s, t) BY DEF FileInv
    <2>2. UNCHANGED <<record, daemon, openedAt>> /\ history' = [history EXCEPT ![i] = None]
        BY <1>6 DEF DropHistory, times
    <2>3. CASE IdOf[t] = i
        <3>1. record[IdOf[t]] = None /\ openedAt[t] > 0
            BY <1>6, <2>1, <2>3 DEF VictimOK, DropHistory
        <3>2. daemon[t] \notin Unopened BY <1>0, <3>1 DEF OpenedInv
        <3> QED BY <1>0, <2>2, <3>1, <3>2 DEF FileOK, Unopened
    <2>4. CASE IdOf[t] # i BY <1>0, <1>2, <2>2, <2>4 DEF TypeOK
    <2> QED BY <2>3, <2>4
<1>7. ASSUME NEW s \in Sessions, Bringing(s) \/ End(s) \/ Ending(s) \/ DaemonDies(s),
             ~\E i \in Ids : DropRecord(s, i) \/ DropHistory(s, i)
      PROVE  FileOK(t)'
    <2>1. CASE s # t
        <3>1. daemon'[t] = daemon[t] BY <1>0, <1>7, <2>1, BringFrame, EndFrame
        <3>2. openedAt'[t] = openedAt[t]
            BY <1>0, <1>7, <2>1, BringFrame, EndFrame
                DEF FailOpen, OpenRecord, TruncateRecord, TypeOK
        <3> QED BY <1>0, <1>2, <1>7, <2>1, <3>1, <3>2, OwnFiles
    <2>2. CASE s = t /\ (Bringing(s) \/ End(s))
        <3>1. CASE Unlink(s) \/ Bind(s) \/ BindFails(s) \/ Listen(s) \/ Serve(s) \/ StartFails(s)
                   \/ FailExit(s) \/ End(s)
            BY <1>0, <1>2, <2>2, <3>1 DEF Unlink, Bind, BindFails, Listen, Serve, StartFails, FailExit,
                   End, files, times, Moves, TypeOK
        <3>2. CASE FailHistory(s)
            BY <1>0, <1>1, <2>2, <3>2 DEF FailHistory, Moves, TypeOK, FileOK, Unopened, times
        <3>3. CASE FailOpen(s)
            <4>1. Clock + 1 > 0 BY <1>0, ClockType
            <4> HIDE DEF Clock
            <4>2. record'[IdOf[t]] = Torn /\ openedAt'[t] = Clock + 1 /\ UNCHANGED history
                  /\ daemon[t] = "failingHistory" /\ daemon'[t] = "failingTorn"
                BY <1>0, <2>2, <3>3 DEF FailOpen, TruncateRecord, Moves, TypeOK
            <4> QED BY <1>0, <4>1, <4>2 DEF FileOK
        <3>4. CASE FailRecord(s)
            BY <1>0, <2>2, <3>4 DEF FailRecord, Moves, TypeOK, FileOK, times
        <3>5. CASE FailPersist(s)
            <4>1. history'[IdOf[t]] = history[IdOf[t]] \/ daemon[t] = "failing"
                BY <1>0, <2>2, <3>5 DEF FailPersist, HistoryTorn, TypeOK
            <4>2. daemon'[t] = "failingRecord" /\ UNCHANGED <<record, openedAt>>
                BY <1>0, <2>2, <3>5 DEF FailPersist, TypeOK, times
            <4> QED BY <1>0, <1>1, <4>1, <4>2 DEF FileOK, Unopened
        <3> QED BY <2>2, <3>1, <3>2, <3>3, <3>4, <3>5 DEF Bringing
    <2>3. CASE s = t /\ (Ending(s) \/ DaemonDies(s))
        <3>1. CASE CountActive(s) \/ ReadRetention(s) \/ ReadDate(s) \/ ChooseVictims(s) \/ Pruned(s)
                   \/ RemoveSocket(s) \/ DaemonDies(s)
            BY <1>0, <1>2, <2>3, <3>1 DEF CountActive, ReadRetention, ReadDate, ChooseVictims, Chooses,
                   Pruned, RemoveSocket, DaemonDies, files, times, Moves, TypeOK
        <3>2. CASE WriteHistory(s)
            BY <1>0, <1>1, <2>3, <3>2 DEF WriteHistory, Moves, TypeOK, FileOK, Unopened, times
        <3>3. CASE OpenRecord(s)
            <4>1. Clock + 1 > 0 BY <1>0, ClockType
            <4> HIDE DEF Clock
            <4>2. record'[IdOf[t]] = Torn /\ openedAt'[t] = Clock + 1 /\ UNCHANGED history
                  /\ daemon[t] = "history" /\ daemon'[t] = "torn"
                BY <1>0, <2>3, <3>3 DEF OpenRecord, TruncateRecord, Moves, TypeOK
            <4> QED BY <1>0, <4>1, <4>2 DEF FileOK
        <3>4. CASE WriteRecord(s)
            BY <1>0, <2>3, <3>4 DEF WriteRecord, Moves, TypeOK, FileOK, times
        <3>5. CASE PersistFails(s)
            <4>1. history'[IdOf[t]] = history[IdOf[t]] \/ daemon[t] = "closing"
                BY <1>0, <2>3, <3>5 DEF PersistFails, HistoryTorn, TypeOK
            <4>2. daemon'[t] = "persisted" /\ UNCHANGED <<record, openedAt>>
                BY <1>0, <2>3, <3>5 DEF PersistFails, TypeOK, times
            <4> QED BY <1>0, <1>1, <4>1, <4>2 DEF FileOK, Unopened
        <3> QED BY <1>7, <2>3, <3>1, <3>2, <3>3, <3>4, <3>5 DEF Ending
    <2> QED BY <1>7, <2>1, <2>2, <2>3
<1>8. ASSUME NEW l \in Listers, List(l) \/ ListRunning(l) PROVE FileOK(t)'
    BY <1>2, <1>8, ListFrame
<1> QED BY <1>3, <1>4, <1>5, <1>6, <1>7, <1>8, Parties

\* A record that has gone does not come back once its daemon has opened it.
LEMMA GoneForGood ==
    ASSUME DistinctIds, TypeInv, FileInv, [Next]_vars, NEW t \in Sessions, openedAt[t] > 0
    PROVE  openedAt'[t] > 0 /\ (record[IdOf[t]] = None => record'[IdOf[t]] = None)
<1>0. TypeOK /\ SpawnInv /\ OpenedInv /\ IdOf[t] \in Ids BY DEF TypeInv, Ids
<1>1. daemon[t] \notin Unopened BY <1>0 DEF OpenedInv
<1>2. CASE UNCHANGED vars BY <1>2 DEF vars
<1>3. ASSUME NEW s \in Sessions, Starting(s) \/ CallerDies(s)
      PROVE  openedAt'[t] > 0 /\ (record[IdOf[t]] = None => record'[IdOf[t]] = None)
    BY <1>0, <1>3, StartFrame DEF TypeOK
<1>4. ASSUME NEW s \in Sessions, NEW i \in Ids, DropRecord(s, i) \/ DropHistory(s, i)
      PROVE  openedAt'[t] > 0 /\ (record[IdOf[t]] = None => record'[IdOf[t]] = None)
    BY <1>0, <1>4 DEF DropRecord, DropHistory, TypeOK, times
<1>5. ASSUME NEW s \in Sessions, Bringing(s) \/ End(s) \/ Ending(s) \/ DaemonDies(s),
             ~\E i \in Ids : DropRecord(s, i) \/ DropHistory(s, i)
      PROVE  openedAt'[t] > 0 /\ (record[IdOf[t]] = None => record'[IdOf[t]] = None)
    <2>1. CASE s # t
        <3>1. openedAt'[t] = openedAt[t]
            BY <1>0, <1>5, <2>1, BringFrame, EndFrame
                DEF FailOpen, OpenRecord, TruncateRecord, TypeOK
        <3> QED BY <1>0, <1>5, <2>1, <3>1, OwnFiles
    <2>2. CASE s = t
        <3>1. ~FailOpen(s) /\ ~OpenRecord(s)
            BY <1>1, <2>2 DEF FailOpen, OpenRecord, Moves, Unopened
        <3>2. UNCHANGED openedAt BY <1>0, <1>5, <3>1, BringFrame, EndFrame
        <3>3. record[IdOf[t]] = None => record'[IdOf[t]] = None
            BY <1>0, <1>5, <2>2, <3>1 DEF Bringing, End, Unlink, Bind, BindFails, Listen, Serve,
                StartFails, FailHistory, FailRecord, FailPersist, FailExit, Ending, PersistFails,
                WriteHistory, WriteRecord, CountActive, ReadRetention, ReadDate, ChooseVictims,
                Chooses, Pruned, RemoveSocket, DaemonDies, files, TypeOK
        <3> QED BY <3>2, <3>3
    <2> QED BY <2>1, <2>2
<1>6. ASSUME NEW l \in Listers, List(l) \/ ListRunning(l)
      PROVE  openedAt'[t] > 0 /\ (record[IdOf[t]] = None => record'[IdOf[t]] = None)
    BY <1>6, ListFrame
<1> QED BY <1>2, <1>3, <1>4, <1>5, <1>6, Parties

LEMMA VictimStep ==
    ASSUME DistinctIds, TypeInv, FileInv, [Next]_vars, NEW s \in Sessions, NEW t \in Sessions
    PROVE  VictimOK(s, t)'
<1>0. TypeOK /\ OpenedInv /\ VictimOK(s, t) /\ PruneOK(s) /\ FileOK(t) /\ IdOf[t] \in Ids
    BY DEF TypeInv, FileInv, PruneInv, Ids
<1>1. openedAt[t] > 0 => openedAt'[t] > 0 /\ (record[IdOf[t]] = None => record'[IdOf[t]] = None)
    BY GoneForGood
<1>2. ASSUME prune'[s] = prune[s] \/ Same(s) PROVE VictimOK(s, t)'
    BY <1>0, <1>1, <1>2 DEF VictimOK, Same, Prunes
<1>3. CASE UNCHANGED vars BY <1>2, <1>3 DEF vars
<1>4. ASSUME NEW r \in Sessions, Starting(r) \/ CallerDies(r) PROVE VictimOK(s, t)'
    BY <1>0, <1>2, <1>4, StartFrame
<1>5. ASSUME NEW r \in Sessions, Bringing(r) \/ End(r) PROVE VictimOK(s, t)'
    BY <1>0, <1>2, <1>5, BringFrame
<1>6. ASSUME NEW r \in Sessions, Ending(r) \/ DaemonDies(r) PROVE VictimOK(s, t)'
    <2>1. CASE r # s BY <1>0, <1>2, <1>6, <2>1, PruneFields
    <2>2. CASE r = s
        <3>1. CASE Prunes(s, 0, {}, {}, {}) BY <3>1 DEF VictimOK, Prunes
        <3>2. CASE \E k \in 1..Keep : Prunes(s, k, prune[s].listing, prune[s].records, prune[s].histories)
            BY <1>0, <1>1, <3>2 DEF VictimOK, Prunes
        <3>3. CASE ReadRetention(s) /\ Prunes(s, prune[s].keep, Retained, prune[s].records, prune[s].histories)
            <4>1. IdOf[t] \in Retained => openedAt[t] > 0 BY <1>0 DEF FileOK, Retained
            <4> QED BY <1>0, <1>1, <3>3, <4>1 DEF VictimOK, Prunes
        <3>4. CASE ChooseVictims(s) /\ \E V \in Oldest(s, prune[s].keep) : Prunes(s, prune[s].keep, {}, V, V)
            <4>1. PICK V \in Oldest(s, prune[s].keep) : Prunes(s, prune[s].keep, {}, V, V) BY <3>4
            <4>2. V \subseteq prune[s].listing BY DEF Oldest
            <4> QED BY <1>0, <1>1, <4>1, <4>2 DEF VictimOK, Prunes
        <3>5. ASSUME NEW i \in Ids, DropRecord(s, i),
                     Prunes(s, prune[s].keep, prune[s].listing, prune[s].records \ {i}, prune[s].histories)
              PROVE  VictimOK(s, t)'
            <4>1. record'[i] = None BY <3>5 DEF DropRecord, TypeOK, TypeInv
            <4> QED BY <1>0, <1>1, <3>5, <4>1 DEF VictimOK, Prunes
        <3>6. ASSUME NEW i \in Ids,
                     Prunes(s, prune[s].keep, prune[s].listing, prune[s].records, prune[s].histories \ {i})
              PROVE  VictimOK(s, t)'
            BY <1>0, <1>1, <3>6 DEF VictimOK, Prunes
        <3> QED BY <1>0, <1>2, <1>6, <2>2, <3>1, <3>2, <3>3, <3>4, <3>5, <3>6, PruneFields
    <2> QED BY <2>1, <2>2
<1>7. ASSUME NEW l \in Listers, List(l) \/ ListRunning(l) PROVE VictimOK(s, t)'
    BY <1>2, <1>7, ListFrame
<1> QED BY <1>3, <1>4, <1>5, <1>6, <1>7, Parties

DiskInv == TypeInv /\ FileInv

LEMMA DiskInit == DistinctIds /\ Init => DiskInv
<1> SUFFICES ASSUME Init PROVE FileInv BY TypeInit DEF DiskInv
<1>1. \A s \in Sessions : IdOf[s] \in Ids BY DEF Ids
<1>2. \A s \in Sessions : prune[s].listing = {} /\ prune[s].records = {} /\ prune[s].histories = {}
    BY DEF Init, NotPruning
<1> QED BY <1>1, <1>2, NamesAssumption DEF Init, FileInv, FileOK, VictimOK

LEMMA DiskStep == DistinctIds /\ DiskInv /\ [Next]_vars => DiskInv'
BY TypeStep, FileOKStep, VictimStep DEF DiskInv, FileInv

LEMMA DiskInvariant == ASSUME DistinctIds PROVE Spec => []DiskInv
<1>1. Init => DiskInv BY DiskInit
<1>2. DiskInv /\ [Next]_vars => DiskInv' BY DiskStep
<1> QED BY <1>1, <1>2, PTL DEF Spec

\* Where every session has an id of its own, a readable record stands beside
\* that session's history, whatever the daemons that write, prune and crash do:
\* a record that is dated by its file time and deleted while its daemon still
\* writes it does not come back (writeRecord, pruneRetention).
THEOREM RecordsHaveHistory == ASSUME DistinctIds PROVE Spec => []HistoryBesideRecord
<1>1. DiskInv => HistoryBesideRecord
    <2> SUFFICES ASSUME FileInv, NEW i \in Ids, HasRecord(i) PROVE history[i] = record[i]
        BY DEF DiskInv, HistoryBesideRecord
    <2>1. PICK s \in Sessions : i = IdOf[s] BY DEF Ids
    <2> QED BY <2>1, NamesAssumption DEF FileInv, FileOK, HasRecord
<1> QED BY <1>1, DiskInvariant, PTL

-----------------------------------------------------------------------------
LEMMA FiniteFiles ==
    ASSUME NEW A, A \subseteq Retained \/ A \subseteq Openers
    PROVE  IsFiniteSet(A) /\ Cardinality(A) \in Nat
<1>1. A \in SUBSET Ids \/ A \in SUBSET Sessions BY DEF Retained, Openers
<1> QED BY <1>1, FiniteIds, FiniteAssumption, FS_Subset, FS_CardinalityType

\* A step after which no daemon has newly listed or opened anything, and none
\* has more left, keeps the bound.
LEMMA RetainFrame ==
    ASSUME RetainInv, Retained' \subseteq Retained, Openers' = Openers, Listed' \subseteq Listed,
           \A x \in Listed' : Left(x)' \subseteq Left(x) /\ Kept(x)' = Kept(x)
    PROVE  RetainInv'
<1>0. Retained' \in SUBSET Ids BY DEF Retained
<1>1. Cardinality(Retained') <= Cardinality(Openers')
    <2>1. Cardinality(Retained') <= Cardinality(Retained) BY FiniteFiles, FS_Subset
    <2>2. Cardinality(Retained) \in Nat /\ Cardinality(Openers) \in Nat
          /\ Cardinality(Retained') \in Nat
        BY FiniteFiles
    <2> QED BY <2>1, <2>2 DEF RetainInv
<1>2. ASSUME NEW X \in SUBSET Listed', X # {} PROVE \E x \in X : Fits(x, X)'
    <2>1. PICK x \in X : Fits(x, X) BY <1>2 DEF RetainInv
    <2>2. Left(x)' \subseteq Left(x) /\ Left(x) \subseteq Retained BY DEF Left
    <2> DEFINE A == Left(x)  B == Left(x)'  k == Kept(x)  o == Cardinality(Openers \ X)
    <2>3. B \subseteq A /\ A \subseteq Retained /\ Kept(x)' = k BY <2>2
    <2>4. Cardinality(A) <= k + o BY <2>1 DEF Fits
    <2>5. k \in Nat BY CountAssumption DEF Kept
    <2>6. o \in Nat
        <3>1. Openers \ X \subseteq Openers OBVIOUS
        <3> QED BY <3>1, FiniteFiles
    <2> SUFFICES Cardinality(B) <= k + o BY <2>3 DEF Fits
    <2> HIDE DEF A, B, k, o
    <2>7. Cardinality(B) <= Cardinality(A) BY <2>3, FiniteFiles, FS_Subset
    <2>8. B \subseteq Retained BY <2>3
    <2>9. Cardinality(A) \in Nat /\ Cardinality(B) \in Nat BY <2>3, <2>8, FiniteFiles
    <2> QED BY <2>4, <2>5, <2>6, <2>7, <2>9
<1> QED BY <1>1, <1>2 DEF RetainInv

\* A daemon that opens its record adds one to what is retained, and itself to
\* those that have yet to list.
LEMMA RetainOpen ==
    ASSUME TypeInv, RetainInv, NEW s \in Sessions, FailOpen(s) \/ OpenRecord(s)
    PROVE  RetainInv'
<1> DEFINE i == IdOf[s]
<1>0. TypeOK /\ OpenedInv /\ PruneOK(s) /\ i \in Ids BY DEF TypeInv, PruneInv, Ids
<1>1. Retained' = Retained \cup {i}
    BY <1>0, NamesAssumption DEF FailOpen, OpenRecord, TruncateRecord, Retained, TypeOK
<1>2. s \notin Openers /\ Openers' = Openers \cup {s}
    <2>1. openedAt[s] = 0
        BY <1>0 DEF OpenedInv, Unopened, FailOpen, OpenRecord, Moves
    <2>2. Clock + 1 > 0 BY <1>0, ClockType
    <2>3. openedAt' = [openedAt EXCEPT ![s] = Clock + 1]
        BY DEF FailOpen, OpenRecord, TruncateRecord
    <2> HIDE DEF Clock
    <2>4. openedAt'[s] > 0 /\ \A t \in Sessions \ {s} : openedAt'[t] = openedAt[t]
        BY <1>0, <2>2, <2>3 DEF TypeOK
    <2> QED BY <2>1, <2>4 DEF Openers
<1>3. /\ UNCHANGED prune /\ \A t \in Sessions \ {s} : daemon'[t] = daemon[t]
      /\ s \notin Listed /\ s \notin Listed'
    BY <1>0 DEF FailOpen, OpenRecord, Moves, Listed, HasPruned, TypeOK
<1>4. Listed' = Listed BY <1>3 DEF Listed, HasPruned
<1> HIDE DEF i
<1>5. IsFiniteSet(Openers) BY FiniteFiles
<1>6. Cardinality(Retained') <= Cardinality(Openers')
    <2>1. IsFiniteSet(Retained) BY FiniteFiles
    <2>2. Cardinality(Retained \cup {i}) <= Cardinality(Retained) + 1
        <3>1. Cardinality(Retained \cup {i}) = IF i \in Retained THEN Cardinality(Retained)
                                               ELSE Cardinality(Retained) + 1
            BY <2>1, FS_AddElement
        <3> QED BY <2>1, <3>1, FS_CardinalityType
    <2>3. Cardinality(Openers \cup {s}) = Cardinality(Openers) + 1
        BY <1>2, <1>5, FS_AddElement
    <2>4. Cardinality(Retained) \in Nat /\ Cardinality(Openers) \in Nat
          /\ Cardinality(Retained \cup {i}) \in Nat
        BY <1>5, <2>1, FS_AddElement, FS_CardinalityType
    <2> QED BY <1>1, <1>2, <2>2, <2>3, <2>4 DEF RetainInv
<1>7. ASSUME NEW X \in SUBSET Listed', X # {} PROVE \E x \in X : Fits(x, X)'
    <2>1. PICK x \in X : Fits(x, X) BY <1>4, <1>7 DEF RetainInv
    <2>2. x \in Listed /\ x # s /\ s \notin X BY <1>3, <1>4
    <2>3. daemon'[x] = daemon[x] /\ prune'[x] = prune[x] BY <1>3, <2>2 DEF Listed
    <2> DEFINE A == Left(x)  B == Left(x)'  k == Kept(x)  O == Openers \ X
    <2>4. B \subseteq A \cup {i} BY <1>1, <2>3 DEF Left
    <2>5. Kept(x)' = k BY <2>3 DEF Kept
    <2>6. Openers' \ X = O \cup {s} /\ s \notin O BY <1>2, <2>2
    <2>7. A \subseteq Retained /\ O \subseteq Openers BY DEF Left
    <2>8. Cardinality(A) <= k + Cardinality(O) BY <2>1 DEF Fits
    <2>9. k \in Nat BY CountAssumption DEF Kept
    <2> SUFFICES Cardinality(B) <= k + Cardinality(O \cup {s}) BY <2>5, <2>6 DEF Fits
    <2> HIDE DEF A, B, k, O
    <2>10. IsFiniteSet(A) /\ IsFiniteSet(O) /\ Cardinality(A) \in Nat /\ Cardinality(O) \in Nat
        BY <2>7, FiniteFiles
    <2>11. Cardinality(O \cup {s}) = Cardinality(O) + 1 BY <2>6, <2>10, FS_AddElement
    <2>12. /\ IsFiniteSet(A \cup {i})
           /\ Cardinality(A \cup {i}) = IF i \in A THEN Cardinality(A) ELSE Cardinality(A) + 1
        BY <2>10, FS_AddElement
    <2>13. IsFiniteSet(B) /\ Cardinality(B) <= Cardinality(A \cup {i}) BY <2>4, <2>12, FS_Subset
    <2>14. Cardinality(B) \in Nat BY <2>13, FS_CardinalityType
    <2> QED BY <2>8, <2>9, <2>10, <2>11, <2>12, <2>13, <2>14
<1> QED BY <1>6, <1>7 DEF RetainInv

\* A daemon that lists the records has none left to account for.
LEMMA RetainRead ==
    ASSUME TypeInv, RetainInv, NEW s \in Sessions, ReadRetention(s)
    PROVE  RetainInv'
<1>0. TypeOK /\ OpenedInv BY DEF TypeInv
<1>1. UNCHANGED <<record, openedAt>> /\ daemon'[s] = "reading"
      /\ \A t \in Sessions \ {s} : daemon'[t] = daemon[t]
    BY <1>0 DEF ReadRetention, Moves, TypeOK, files, times
<1>2. prune'[s].listing = Retained /\ \A t \in Sessions \ {s} : prune'[t] = prune[t]
    <2> DEFINE p == [prune[s] EXCEPT !.listing = Retained, !.unread = Retained]
    <2>1. p \in Pruning /\ prune' = [prune EXCEPT ![s] = p] BY <1>0, ReadType
    <2>2. prune[s] \in Pruning BY <1>0 DEF TypeOK
    <2>3. p.listing = Retained BY <2>2 DEF Pruning
    <2> HIDE DEF p
    <2> QED BY <1>0, <2>1, <2>3, PruneType
<1>3. Retained' = Retained /\ Openers' = Openers BY <1>1 DEF Retained, Openers
<1>4. Listed' \subseteq Listed \cup {s} BY <1>1, <1>2 DEF Listed, HasPruned
<1>5. ASSUME NEW X \in SUBSET Listed', X # {} PROVE \E x \in X : Fits(x, X)'
    <2>1. CASE s \in X
        <3>1. Left(s)' = {} /\ Kept(s)' = 0 BY <1>1, <1>2, <1>3 DEF Left, Kept
        <3>2. Cardinality(Openers' \ X) \in Nat
            <4>1. Openers \ X \subseteq Openers OBVIOUS
            <4> QED BY <1>3, <4>1, FiniteFiles
        <3>3. Fits(s, X)' BY <3>1, <3>2, FS_EmptySet DEF Fits
        <3> QED BY <2>1, <3>3
    <2>2. CASE s \notin X
        <3>1. PICK x \in X : Fits(x, X) BY <1>4, <1>5, <2>2 DEF RetainInv
        <3>2. x \in Sessions /\ x # s BY <2>2 DEF Listed
        <3>3. Left(x)' = Left(x) /\ Kept(x)' = Kept(x)
            BY <1>1, <1>2, <1>3, <3>2 DEF Left, Kept
        <3> QED BY <1>3, <3>1, <3>3 DEF Fits
    <2> QED BY <2>1, <2>2
<1> QED BY <1>3, <1>5 DEF RetainInv

\* A daemon that chooses leaves what has been opened since it listed and the
\* keep records, at most, that it has not chosen.
LEMMA RetainChoose ==
    ASSUME TypeInv, RetainInv, NEW s \in Sessions, ChooseVictims(s)
    PROVE  RetainInv'
<1>0. TypeOK /\ OpenedInv BY DEF TypeInv
<1>1. UNCHANGED <<record, openedAt>> /\ daemon[s] = "reading" /\ daemon'[s] = "pruning"
      /\ \A t \in Sessions \ {s} : daemon'[t] = daemon[t]
    BY <1>0 DEF ChooseVictims, Chooses, Moves, TypeOK, files, times
<1>2. PICK V \in Oldest(s, prune[s].keep) :
          prune'[s].records = V /\ \A t \in Sessions \ {s} : prune'[t] = prune[t]
    <2>1. PICK V \in Oldest(s, prune[s].keep) :
              LET p == [NotPruning EXCEPT !.keep = prune[s].keep, !.records = V, !.histories = V]
              IN  p \in Pruning /\ prune' = [prune EXCEPT ![s] = p]
        BY <1>0, ChooseType
    <2> DEFINE p == [NotPruning EXCEPT !.keep = prune[s].keep, !.records = V, !.histories = V]
    <2>2. p.records = V BY DEF NotPruning
    <2> HIDE DEF p
    <2>3. p \in Pruning /\ prune' = [prune EXCEPT ![s] = p] BY <2>1 DEF p
    <2> QED BY <1>0, <2>2, <2>3, PruneType
<1>3. Retained' = Retained /\ Openers' = Openers BY <1>1 DEF Retained, Openers
<1>4. Listed' \subseteq Listed /\ s \in Listed BY <1>1, <1>2 DEF Listed, HasPruned
<1>5. ASSUME NEW X \in SUBSET Listed', X # {} PROVE \E x \in X : Fits(x, X)'
    <2>1. PICK x \in X : Fits(x, X) BY <1>4, <1>5 DEF RetainInv
    <2>2. CASE x # s
        <3>1. x \in Sessions BY DEF Listed
        <3>2. Left(x)' = Left(x) /\ Kept(x)' = Kept(x)
            BY <1>1, <1>2, <1>3, <2>2, <3>1 DEF Left, Kept
        <3> QED BY <1>3, <2>1, <3>2 DEF Fits
    <2>3. CASE x = s
        <3> DEFINE L == prune[s].listing  A == Retained \ L  B == Retained \ V  K == L \ V
                   o == Cardinality(Openers \ X)
        <3>1. Left(x) = A /\ Kept(x) = 0 /\ Left(x)' = B /\ Kept(x)' = Keep
            BY <1>1, <1>2, <1>3, <2>3 DEF Left, Kept
        <3>2. o \in Nat
            <4>1. Openers \ X \subseteq Openers OBVIOUS
            <4> QED BY <4>1, FiniteFiles
        <3>3. Cardinality(A) <= o BY <2>1, <3>1, <3>2 DEF Fits
        <3>4. prune[s].keep \in 0..Keep /\ L \in SUBSET Ids BY <1>0 DEF TypeOK, Pruning
        <3>5. Cardinality(K) <= prune[s].keep BY DEF Oldest
        <3>6. B \subseteq A \cup K /\ A \subseteq Retained /\ K \in SUBSET Ids BY <3>4
        <3> SUFFICES Cardinality(B) <= Keep + o BY <1>3, <2>3, <3>1 DEF Fits
        <3> HIDE DEF L, A, B, K, o
        <3>7. IsFiniteSet(A) /\ Cardinality(A) \in Nat BY <3>6, FiniteFiles
        <3>8. IsFiniteSet(K) /\ Cardinality(K) \in Nat
            BY <3>6, FiniteIds, FS_Subset, FS_CardinalityType
        <3>9. IsFiniteSet(A \cup K) /\ Cardinality(A \cup K) <= Cardinality(A) + Cardinality(K)
            <4>1. A \cap K \subseteq A OBVIOUS
            <4>2. IsFiniteSet(A \cap K) BY <3>7, <4>1, FS_Subset
            <4>3. Cardinality(A \cap K) \in Nat BY <4>2, FS_CardinalityType
            <4>4. IsFiniteSet(A \cup K)
                  /\ Cardinality(A \cup K) = Cardinality(A) + Cardinality(K) - Cardinality(A \cap K)
                BY <3>7, <3>8, FS_Union
            <4> QED BY <3>7, <3>8, <4>3, <4>4
        <3>10. IsFiniteSet(B) /\ Cardinality(B) <= Cardinality(A \cup K)
            BY <3>6, <3>9, FS_Subset
        <3>11. Cardinality(B) \in Nat /\ Cardinality(A \cup K) \in Nat
            BY <3>9, <3>10, FS_CardinalityType
        <3> QED BY <3>2, <3>3, <3>4, <3>5, <3>7, <3>8, <3>9, <3>10, <3>11, CountAssumption
    <2> QED BY <2>2, <2>3
<1> QED BY <1>3, <1>5 DEF RetainInv

LEMMA RetainStep ==
    ASSUME TypeInv, RetainInv, [Next]_vars
    PROVE  RetainInv'
<1>0. TypeOK /\ SpawnInv /\ OpenedInv /\ PruneInv BY DEF TypeInv
<1>1. CASE UNCHANGED vars
    BY <1>1, RetainFrame DEF vars, Retained, Openers, Listed, HasPruned, Left, Kept
<1>2. ASSUME NEW s \in Sessions, Starting(s) \/ CallerDies(s) PROVE RetainInv'
    <2>1. start[s] = "counting" => daemon[s] = "none" BY <1>0 DEF SpawnInv, NotSpawned
    <2>2. /\ UNCHANGED <<openedAt, prune>>
          /\ UNCHANGED daemon \/ (daemon[s] = "none" /\ daemon' = [daemon EXCEPT ![s] = "spawned"])
          /\ record' = record \/ record' = [record EXCEPT ![IdOf[s]] = None]
        BY <1>0, <1>2, <2>1, StartFrame
    <2>3. Retained' \subseteq Retained BY <1>0, <2>2 DEF Retained, TypeOK
    <2>4. Openers' = Openers BY <2>2 DEF Openers
    <2>5. Listed' \subseteq Listed BY <1>0, <2>2 DEF Listed, HasPruned, TypeOK
    <2>6. \A x \in Listed' : daemon'[x] = daemon[x] BY <1>0, <2>2 DEF Listed, HasPruned, TypeOK
    <2>7. \A x \in Listed' : Left(x)' \subseteq Left(x) /\ Kept(x)' = Kept(x)
        BY <2>2, <2>3, <2>6 DEF Left, Kept
    <2> QED BY <2>3, <2>4, <2>5, <2>7, RetainFrame
<1>3. ASSUME NEW s \in Sessions, Bringing(s) \/ End(s), ~FailOpen(s) PROVE RetainInv'
    <2>1. UNCHANGED <<prune, openedAt>> /\ \A t \in Sessions \ {s} : daemon'[t] = daemon[t]
        BY <1>0, <1>3, BringFrame
    <2>2. s \notin Listed'
        <3>1. prune[s].keep = 0 BY <1>0, <1>3, BringFrame DEF PruneInv, PruneOK, Pruners
        <3>2. daemon'[s] \notin {"reading", "pruning"} BY <1>0, <1>3, BringFrame
        <3> QED BY <2>1, <3>1, <3>2 DEF Listed, HasPruned
    <2>3. \A i \in Ids : record'[i] # None => record[i] # None
        BY <1>0, <1>3 DEF Bringing, End, Unlink, Bind, BindFails, Listen, Serve, StartFails,
            FailHistory, FailRecord, FailPersist, FailExit, files, TypeOK
    <2>4. Retained' \subseteq Retained BY <2>3 DEF Retained
    <2>5. Openers' = Openers BY <2>1 DEF Openers
    <2>6. Listed' \subseteq Listed BY <2>1, <2>2 DEF Listed, HasPruned
    <2>7. \A x \in Listed' : daemon'[x] = daemon[x] BY <2>1, <2>2 DEF Listed
    <2>8. \A x \in Listed' : Left(x)' \subseteq Left(x) /\ Kept(x)' = Kept(x)
        BY <2>1, <2>4, <2>7 DEF Left, Kept
    <2> QED BY <2>4, <2>5, <2>6, <2>8, RetainFrame
<1>4. ASSUME NEW s \in Sessions, FailOpen(s) \/ OpenRecord(s) PROVE RetainInv'
    BY <1>4, RetainOpen
<1>5. ASSUME NEW s \in Sessions, ReadRetention(s) PROVE RetainInv' BY <1>5, RetainRead
<1>6. ASSUME NEW s \in Sessions, ChooseVictims(s) PROVE RetainInv' BY <1>6, RetainChoose
<1>7. ASSUME NEW s \in Sessions, Ending(s) \/ DaemonDies(s), ~OpenRecord(s), ~ReadRetention(s),
             ~ChooseVictims(s)
      PROVE  RetainInv'
    <2>0. PruneOK(s) BY <1>0 DEF PruneInv
    <2>1. UNCHANGED openedAt /\ \A t \in Sessions \ {s} : daemon'[t] = daemon[t] /\ prune'[t] = prune[t]
        BY <1>0, <1>7, EndFrame, PruneFields
    <2>2. \A i \in Ids : record'[i] # None => record[i] # None
        BY <1>0, <1>7 DEF Ending, PersistFails, WriteHistory, WriteRecord, CountActive, ReadDate,
            DropRecord, DropHistory, Pruned, RemoveSocket, DaemonDies, files, TypeOK
    <2>3. Retained' \subseteq Retained BY <2>2 DEF Retained
    <2>4. Openers' = Openers BY <2>1 DEF Openers
    <2>5. s \notin Listed' \/ (s \in Listed /\ Left(s)' \subseteq Left(s) /\ Kept(s)' = Kept(s))
        <3>1. CASE Same(s) /\ daemon[s] \notin Pruners /\ daemon'[s] \notin {"counted", "reading", "pruning"}
            <4>1. prune'[s].keep = 0 BY <2>0, <3>1 DEF PruneOK, Pruners, Same, Prunes
            <4> QED BY <3>1, <4>1 DEF Listed, HasPruned
        <3>2. CASE Same(s) /\ daemon[s] = "persisted" /\ daemon'[s] = "exited"
            BY <2>3, <3>2 DEF Listed, HasPruned, Same, Prunes, Left, Kept
        <3>3. CASE Same(s) /\ Pruned(s)
            <4>1. daemon[s] = "pruning" /\ daemon'[s] = "persisted"
                BY <1>0, <3>3 DEF Pruned, Moves, TypeOK
            <4> QED BY <2>3, <3>3, <4>1 DEF Listed, Same, Prunes, Left, Kept
        <3>4. CASE Same(s) /\ ReadDate(s)
            <4>1. daemon' = daemon /\ daemon[s] = "reading" BY <3>4 DEF ReadDate
            <4> QED BY <2>3, <3>4, <4>1 DEF Listed, Same, Prunes, Left, Kept
        <3>5. CASE daemon'[s] \in {"persisted", "exited"} /\ Prunes(s, 0, {}, {}, {})
            BY <3>5 DEF Listed, HasPruned, Prunes
        <3>6. CASE CountActive(s)
            BY <1>0, <3>6 DEF CountActive, Moves, TypeOK, Listed, HasPruned
        <3>7. ASSUME NEW i \in Ids, DropRecord(s, i),
                     Prunes(s, prune[s].keep, prune[s].listing, prune[s].records \ {i}, prune[s].histories)
              PROVE  s \in Listed /\ Left(s)' \subseteq Left(s) /\ Kept(s)' = Kept(s)
            <4>1. daemon' = daemon /\ daemon[s] = "pruning" /\ record'[i] = None
                BY <1>0, <3>7 DEF DropRecord, TypeOK
            <4>2. i \notin Retained' BY <4>1 DEF Retained
            <4> QED BY <2>3, <3>7, <4>1, <4>2 DEF Listed, Prunes, Left, Kept
        <3>8. ASSUME NEW i \in Ids, DropHistory(s, i),
                     Prunes(s, prune[s].keep, prune[s].listing, prune[s].records, prune[s].histories \ {i})
              PROVE  s \in Listed /\ Left(s)' \subseteq Left(s) /\ Kept(s)' = Kept(s)
            <4>1. daemon' = daemon /\ daemon[s] = "pruning" BY <3>8 DEF DropHistory
            <4> QED BY <2>3, <3>8, <4>1 DEF Listed, Prunes, Left, Kept
        <3> QED BY <1>0, <1>7, <3>1, <3>2, <3>3, <3>4, <3>5, <3>6, <3>7, <3>8, PruneFields
    <2>6. ASSUME NEW x \in Listed', x # s
          PROVE  x \in Listed /\ Left(x)' \subseteq Left(x) /\ Kept(x)' = Kept(x)
        <3>1. x \in Sessions /\ daemon'[x] = daemon[x] /\ prune'[x] = prune[x]
            BY <2>1, <2>6 DEF Listed
        <3> QED BY <2>3, <2>6, <3>1 DEF Listed, HasPruned, Left, Kept
    <2>7. Listed' \subseteq Listed BY <2>5, <2>6
    <2>8. \A x \in Listed' : Left(x)' \subseteq Left(x) /\ Kept(x)' = Kept(x) BY <2>5, <2>6
    <2> QED BY <2>3, <2>4, <2>7, <2>8, RetainFrame
<1>8. ASSUME NEW l \in Listers, List(l) \/ ListRunning(l) PROVE RetainInv'
    BY <1>8, ListFrame, RetainFrame DEF Retained, Openers, Listed, HasPruned, Left, Kept
<1> QED BY <1>1, <1>2, <1>3, <1>4, <1>5, <1>6, <1>7, <1>8, Parties

LEMMA RetainInit == Init => RetainInv
<1> SUFFICES ASSUME Init PROVE RetainInv OBVIOUS
<1>1. Retained = {} /\ Listed = {} BY DEF Init, Retained, Listed, HasPruned
<1>2. Cardinality(Openers) \in Nat BY FiniteFiles
<1> QED BY <1>1, <1>2, FS_EmptySet DEF RetainInv

\* The daemons that have pruned have nothing left to delete.
LEMMA RetentionCount ==
    ASSUME TypeInv, RetainInv
    PROVE  RetentionBounded
<1> DEFINE X == {s \in Sessions : HasPruned(s)}
<1>1. Unpruned = Openers \ X BY DEF Unpruned, Openers
<1>2. X \in SUBSET Listed BY DEF Listed
<1>3. Cardinality(Openers \ X) \in Nat
    <2>1. Openers \ X \subseteq Openers OBVIOUS
    <2> QED BY <2>1, FiniteFiles
<1>4. Cardinality(Retained) \in Nat BY FiniteFiles
<1>5. CASE X = {}
    <2>1. Openers \ X = Openers BY <1>5
    <2> QED BY <1>1, <1>3, <1>4, <2>1, CountAssumption DEF RetainInv, RetentionBounded
<1>6. CASE X # {}
    <2>1. PICK x \in X : Fits(x, X) BY <1>2, <1>6 DEF RetainInv
    <2>2. daemon[x] \in {"persisted", "exited"} BY DEF HasPruned
    <2>3. prune[x].records = {} BY <2>2 DEF TypeInv, PruneInv, PruneOK
    <2>4. Left(x) = Retained /\ Kept(x) = Keep BY <2>2, <2>3 DEF Left, Kept
    <2> QED BY <1>1, <2>1, <2>4 DEF Fits, RetentionBounded
<1> QED BY <1>5, <1>6

\* Whatever ids the sessions have, whatever dates the daemons read of each
\* other's records, complete and torn, and whichever of them fail or die, there
\* are at most Keep records beside one for each daemon that opened its record
\* and has not finished pruning (persist, pruneRetention).
THEOREM RetentionIsBounded == Spec => []RetentionBounded
<1>1. Init => TypeInv /\ RetainInv BY TypeInit, RetainInit
<1>2. TypeInv /\ RetainInv /\ [Next]_vars => (TypeInv /\ RetainInv)' BY TypeStep, RetainStep
<1>3. TypeInv /\ RetainInv => RetentionBounded BY RetentionCount
<1> QED BY <1>1, <1>2, <1>3, PTL DEF Spec

-----------------------------------------------------------------------------
\* Daemons' own steps make none active and none pending again.
LEMMA NoneActivated ==
    ASSUME TypeInv, NEW s \in Sessions, Bringing(s) \/ End(s) \/ Ending(s) \/ DaemonDies(s),
           NEW t \in Sessions
    PROVE  (Active(t)' => Active(t)) /\ (daemon'[t] \in Pending => daemon[t] \in Pending)
<1>0. TypeOK BY DEF TypeInv
<1>1. CASE Bringing(s) \/ End(s)
    BY <1>0, <1>1 DEF Bringing, End, Unlink, Bind, BindFails, Listen, Serve, StartFails, FailHistory,
        FailOpen, FailRecord, FailPersist, FailExit, Moves, TypeOK, Active, Pending
<1>2. CASE Ending(s) \/ DaemonDies(s)
    BY <1>0, <1>2, EndFrame DEF Active, Pending, Pruners
<1> QED BY <1>1, <1>2

\* Only one Start holds the lock, and an active daemon other than its own
\* already serves.
LEMMA OthersServe ==
    ASSUME DistinctIds, CountInv, NEW s \in Sessions, start[s] \in Holding \ {"waiting"},
           NEW t \in Sessions, Active(t), t # s \/ daemon[s] = "none"
    PROVE  daemon[t] = "serving" /\ sock[IdOf[t]] = t
<1>1. LockOK(s) /\ LockOK(t) /\ SockOK(t) BY DEF CountInv
<1>2. daemon[t] \notin Pending BY <1>1 DEF LockOK, Holding
<1>3. daemon[t] = "serving" BY <1>2 DEF Active, Pending
<1> QED BY <1>1, <1>3 DEF SockOK

LEMMA LockStep ==
    ASSUME DistinctIds, Orderly, DiskInv, CountInv, [Next]_vars
    PROVE  \A s \in Sessions : LockOK(s)'
<1>0. TypeInv /\ TypeOK /\ SpawnInv /\ OpenedInv /\ FileInv BY DEF DiskInv, TypeInv
<1>1. \A s \in Sessions : LockOK(s) /\ s # None BY NamesAssumption DEF CountInv
<1>2. CASE UNCHANGED vars BY <1>1, <1>2 DEF vars, LockOK
<1>3. ASSUME NEW s \in Sessions, Starting(s) \/ CallerDies(s) PROVE \A t \in Sessions : LockOK(t)'
    <2>1. CASE Lock(s)
        BY <1>0, <1>1, <2>1 DEF Lock, LockOK, Holding, TypeOK, Pending
    <2>2. CASE FoundDead(s) \/ FoundNoRecord(s) \/ ReplaceRecord(s) \/ ReplaceHistory(s) \/ CountSessions(s)
        <3>1. daemon[s] = "none" BY <1>0, <2>2 DEF SpawnInv, NotSpawned, FoundDead, FoundNoRecord,
                ReplaceRecord, ReplaceHistory, CountSessions
        <3> QED BY <1>0, <1>1, <2>2, <3>1 DEF FoundDead, FoundNoRecord, ReplaceRecord, ReplaceHistory,
                CountSessions, LockOK, Holding, TypeOK, Pending
    <2>3. CASE ListRunning(s) BY <1>1, <2>3, ListFrame DEF LockOK
    <2>4. CASE Spawn(s) BY <1>0, <1>1, <2>4 DEF Spawn, Counted, LockOK, Holding, TypeOK, Pending
    <2>5. CASE FoundLive(s) \/ FoundRecord(s) \/ AtLimit(s)
        <3>1. daemon[s] = "none" BY <1>0, <2>5 DEF SpawnInv, NotSpawned, FoundLive, FoundRecord,
                AtLimit, Counted
        <3> QED BY <1>0, <1>1, <2>5, <3>1 DEF FoundLive, FoundRecord, AtLimit, Counted, Return,
                LockOK, Holding, TypeOK, Pending
    <2>6. CASE WaitLive(s) \/ WaitRecord(s) \/ WaitExited(s)
        <3>1. daemon[s] \notin Pending
            <4>1. SockOK(s) /\ FileOK(s) BY <1>0 DEF CountInv, FileInv
            <4>2. CASE WaitLive(s) BY <1>1, <4>1, <4>2 DEF WaitLive, Answers, SockOK, Pending
            <4>3. CASE WaitRecord(s)
                BY <1>0, <4>1, <4>3, NamesAssumption
                    DEF WaitRecord, HasRecord, FileOK, OpenedInv, Unopened, Pending
            <4>4. CASE WaitExited(s) BY <4>4 DEF WaitExited, Pending
            <4> QED BY <2>6, <4>2, <4>3, <4>4
        <3> QED BY <1>0, <1>1, <2>6, <3>1 DEF WaitLive, WaitRecord, WaitExited, Return, LockOK,
                Holding, TypeOK, Pending
    <2>7. ~WaitTimeout(s) /\ ~CallerDies(s) BY DEF Orderly, WaitTimeout, CallerDies
    <2> QED BY <1>3, <2>1, <2>2, <2>3, <2>4, <2>5, <2>6, <2>7 DEF Starting
<1>4. ASSUME NEW s \in Sessions, Bringing(s) \/ End(s) \/ Ending(s) \/ DaemonDies(s)
      PROVE  \A t \in Sessions : LockOK(t)'
    <2>1. UNCHANGED <<lock, start>> BY <1>0, <1>4, BringFrame, EndFrame
    <2>2. \A t \in Sessions : daemon'[t] \in Pending => daemon[t] \in Pending
        BY <1>0, <1>4, NoneActivated
    <2> QED BY <1>1, <2>1, <2>2 DEF LockOK
<1> QED BY <1>2, <1>3, <1>4, Parties DEF Orderly

LEMMA SockStep ==
    ASSUME DistinctIds, Orderly, DiskInv, CountInv, [Next]_vars
    PROVE  \A s \in Sessions : SockOK(s)'
<1>0. TypeInv /\ TypeOK /\ SpawnInv BY DEF DiskInv, TypeInv
<1>1. \A s \in Sessions : SockOK(s) /\ IdOf[s] \in Ids BY DEF CountInv, Ids
<1>2. CASE UNCHANGED vars BY <1>1, <1>2 DEF vars, SockOK
<1>3. ASSUME NEW s \in Sessions, RemoveStale(s) PROVE \A t \in Sessions : SockOK(t)'
    <2>1. ScanOK(s) BY DEF CountInv
    <2>2. \A t \in Sessions : Active(t) => IdOf[t] # scan[s].dead BY <1>3, <2>1 DEF ScanOK, RemoveStale
    <2> QED BY <1>0, <1>1, <1>3, <2>2 DEF RemoveStale, SockOK, TypeOK, Active
<1>4. ASSUME NEW s \in Sessions, Starting(s) \/ CallerDies(s), ~RemoveStale(s)
      PROVE \A t \in Sessions : SockOK(t)'
    <2>1. UNCHANGED sock
        BY <1>4 DEF Starting, CallerDies, Lock, FoundLive, FoundDead, FoundRecord, FoundNoRecord,
            ReplaceRecord, ReplaceHistory, CountSessions, ListRunning, ProbeLive, ProbeDead, AtLimit,
            Spawn, WaitLive, WaitRecord, WaitExited, WaitTimeout, files
    <2>2. UNCHANGED daemon \/ daemon' = [daemon EXCEPT ![s] = "spawned"] BY <1>0, <1>4, StartFrame
    <2> QED BY <1>0, <1>1, <2>1, <2>2 DEF SockOK, TypeOK
<1>5. ASSUME NEW s \in Sessions, Unlink(s) \/ FailExit(s) \/ RemoveSocket(s)
      PROVE  \A t \in Sessions : SockOK(t)'
    BY <1>0, <1>1, <1>5 DEF DistinctIds, SockOK, Unlink, FailExit, RemoveSocket, Moves, TypeOK
<1>6. ASSUME NEW s \in Sessions, Bind(s) PROVE \A t \in Sessions : SockOK(t)'
    BY <1>0, <1>1, <1>6 DEF DistinctIds, SockOK, Bind, Moves, TypeOK
<1>7. ASSUME NEW s \in Sessions, Bringing(s) \/ End(s), ~Unlink(s), ~FailExit(s), ~Bind(s)
      PROVE  \A t \in Sessions : SockOK(t)'
    BY <1>0, <1>1, <1>7 DEF SockOK, Bringing, End, BindFails, Listen, Serve, StartFails, FailHistory,
        FailOpen, TruncateRecord, FailRecord, FailPersist, Moves, TypeOK, files
<1>8. ASSUME NEW s \in Sessions, Ending(s) \/ DaemonDies(s), ~RemoveSocket(s)
      PROVE  \A t \in Sessions : SockOK(t)'
    <2>1. UNCHANGED sock
        BY <1>8 DEF Ending, PersistFails, WriteHistory, OpenRecord, WriteRecord, CountActive,
            ReadRetention, ReadDate, ChooseVictims, Chooses, DropRecord, DropHistory, Pruned, DaemonDies,
            files
    <2> QED BY <1>0, <1>1, <1>8, <2>1, EndFrame DEF SockOK, Pruners
<1> QED BY <1>2, <1>3, <1>4, <1>5, <1>6, <1>7, <1>8, Parties DEF Orderly

LEMMA ScanStep ==
    ASSUME DistinctIds, Orderly, DiskInv, CountInv, [Next]_vars
    PROVE  \A s \in Sessions : ScanOK(s)'
<1>0. TypeInv /\ TypeOK /\ SpawnInv BY DEF DiskInv, TypeInv
<1>1. \A s \in Sessions : ScanOK(s) /\ LockOK(s) /\ IdOf[s] \in Ids BY DEF CountInv, Ids
<1>2. ASSUME UNCHANGED <<start, scan>>, \A t \in Sessions : Active(t)' => Active(t)
      PROVE  \A s \in Sessions : ScanOK(s)'
    BY <1>1, <1>2 DEF ScanOK
<1>3. CASE UNCHANGED vars BY <1>2, <1>3 DEF vars, Active
<1>4. ASSUME NEW s \in Sessions, Bringing(s) \/ End(s) \/ Ending(s) \/ DaemonDies(s)
      PROVE  \A t \in Sessions : ScanOK(t)'
    <2>1. UNCHANGED <<start, scan>> BY <1>0, <1>4, BringFrame, EndFrame
    <2> QED BY <1>0, <1>2, <1>4, <2>1, NoneActivated
<1>5. ASSUME NEW s \in Sessions, UNCHANGED <<scan, daemon>>, start[s] # "counting" \/ Counted(s),
             start'[s] # "counting", \A t \in Sessions \ {s} : start'[t] = start[t]
      PROVE  \A t \in Sessions : ScanOK(t)'
    BY <1>1, <1>5 DEF ScanOK, Active, Counted
<1>6. ASSUME NEW s \in Sessions, Lock(s) \/ FoundLive(s) \/ FoundDead(s) \/ FoundRecord(s)
             \/ FoundNoRecord(s) \/ ReplaceRecord(s) \/ ReplaceHistory(s) \/ AtLimit(s)
             \/ WaitLive(s) \/ WaitRecord(s) \/ WaitExited(s)
      PROVE  \A t \in Sessions : ScanOK(t)'
    <2>1. UNCHANGED <<scan, daemon>> /\ (start[s] # "counting" \/ Counted(s))
          /\ start'[s] # "counting" /\ \A t \in Sessions \ {s} : start'[t] = start[t]
        BY <1>0, <1>6 DEF Lock, FoundLive, FoundDead, FoundRecord, FoundNoRecord, ReplaceRecord,
            ReplaceHistory, AtLimit, WaitLive, WaitRecord, WaitExited, Return, TypeOK
    <2> QED BY <1>5, <2>1
<1>7. ASSUME NEW s \in Sessions, CountSessions(s) PROVE \A t \in Sessions : ScanOK(t)'
    <2>1. start[s] = "listing" /\ daemon[s] = "none"
        BY <1>0, <1>7 DEF CountSessions, SpawnInv, NotSpawned
    <2> DEFINE found == {i \in Ids : sock[i] # None}
    <2>2. scan'[s].todo = found /\ scan'[s].dead = None
          /\ \A t \in Sessions \ {s} : scan'[t] = scan[t] /\ start'[t] = start[t]
        BY <1>0, <1>7 DEF CountSessions, TypeOK, Idle
    <2>3. \A t \in Sessions : Active(t)' => Active(t) BY <1>7 DEF CountSessions, Active
    <2>4. \A t \in Sessions : Active(t) => IdOf[t] \in found
        <3> SUFFICES ASSUME NEW t \in Sessions, Active(t) PROVE IdOf[t] \in found OBVIOUS
        <3>1. sock[IdOf[t]] = t BY <2>1, OthersServe DEF Holding
        <3> QED BY <1>1, <3>1, NamesAssumption
    <2>5. ScanOK(s)' BY <1>0, <1>7, <2>2, <2>3, <2>4 DEF ScanOK, CountSessions, TypeOK
    <2>6. ASSUME NEW t \in Sessions \ {s} PROVE ScanOK(t)' BY <1>1, <2>2, <2>3 DEF ScanOK
    <2> QED BY <2>5, <2>6
<1>8. ASSUME NEW s \in Sessions, ListRunning(s) PROVE \A t \in Sessions : ScanOK(t)'
    <2>1. UNCHANGED <<start, daemon>> BY <1>8, ListFrame
    <2>2. \A t \in Sessions : Active(t)' => Active(t) BY <2>1 DEF Active
    <2>3. scan[s].todo \subseteq Ids /\ start[s] = "counting"
        BY <1>0, <1>1, <1>8 DEF TypeOK, Scanning, ScanOK, ListRunning, ProbeLive, ProbeDead, RemoveStale
    <2>4. daemon[s] = "none" BY <1>0, <2>3 DEF SpawnInv, NotSpawned
    <2>5. \A t \in Sessions \ {s} : scan'[t] = scan[t]
        BY <1>0, <1>8 DEF TypeOK, ListRunning, ProbeLive, ProbeDead, RemoveStale
    <2>6. ASSUME NEW t \in Sessions \ {s} PROVE ScanOK(t)' BY <1>1, <2>1, <2>2, <2>5 DEF ScanOK
    <2> DEFINE i == Probe(s)
    <2>7. scan[s] \in Scanning BY <1>0 DEF TypeOK
    <2>8. CASE ProbeLive(s)
        <3>1. scan'[s].todo = scan[s].todo \ {i} /\ scan'[s].live = scan[s].live \cup {i}
              /\ scan'[s].dead = scan[s].dead
            <4> HIDE DEF i
            <4> QED BY <1>0, <2>7, <2>8 DEF ProbeLive, TypeOK, Scanning, i
        <3> HIDE DEF i
        <3>2. ScanOK(s)' BY <1>1, <2>1, <2>2, <2>3, <3>1 DEF ScanOK
        <3> QED BY <2>6, <3>2
    <2>9. CASE ProbeDead(s)
        <3>1. scan'[s].todo = scan[s].todo \ {i} /\ scan'[s].live = scan[s].live
              /\ scan'[s].dead = i
            <4> HIDE DEF i
            <4> QED BY <1>0, <2>7, <2>9 DEF ProbeDead, TypeOK, Scanning, i
        <3>2. ASSUME NEW t \in Sessions, Active(t) PROVE IdOf[t] # i
            <4>1. daemon[t] = "serving" /\ sock[IdOf[t]] = t
                BY <2>3, <2>4, <3>2, OthersServe DEF Holding
            <4>2. Answers(IdOf[t]) BY <4>1, NamesAssumption DEF Answers
            <4> QED BY <2>9, <4>2 DEF ProbeDead
        <3> HIDE DEF i
        <3>3. ScanOK(s)' BY <1>1, <2>1, <2>2, <2>3, <3>1, <3>2 DEF ScanOK
        <3> QED BY <2>6, <3>3
    <2>10. CASE RemoveStale(s)
        <3>1. scan'[s].todo = scan[s].todo /\ scan'[s].live = scan[s].live /\ scan'[s].dead = None
            BY <1>0, <2>7, <2>10 DEF RemoveStale, TypeOK, Scanning
        <3>2. ScanOK(s)' BY <1>1, <2>1, <2>2, <2>3, <3>1 DEF ScanOK
        <3> QED BY <2>6, <3>2
    <2> QED BY <1>8, <2>8, <2>9, <2>10 DEF ListRunning
<1>9. ASSUME NEW s \in Sessions, Spawn(s) PROVE \A t \in Sessions : ScanOK(t)'
    <2>1. start[s] = "counting" /\ start'[s] = "waiting" /\ UNCHANGED scan
          /\ \A t \in Sessions \ {s} : start'[t] = start[t]
        BY <1>0, <1>9 DEF Spawn, Counted, TypeOK
    <2>2. \A t \in Sessions \ {s} : start[t] # "counting" BY <1>1, <2>1 DEF LockOK, Holding
    <2> QED BY <1>1, <1>9, <2>1, <2>2 DEF ScanOK, Spawn, Counted
<1>10. \A s \in Sessions : ~WaitTimeout(s) /\ ~CallerDies(s) BY DEF Orderly, WaitTimeout, CallerDies
<1> QED BY <1>3, <1>4, <1>6, <1>7, <1>8, <1>9, <1>10, Parties DEF Orderly, Starting

LEMMA CountInit == Init => CountInv
<1> SUFFICES ASSUME Init, NEW s \in Sessions PROVE LockOK(s) /\ SockOK(s) /\ ScanOK(s)
    BY DEF CountInv
<1>1. IdOf[s] \in Ids /\ s # None BY NamesAssumption DEF Ids
<1> QED BY <1>1 DEF Init, LockOK, SockOK, ScanOK, Idle, Holding, Pending, Active

LEMMA CountInvariant ==
    ASSUME DistinctIds, Orderly
    PROVE  Spec => [](DiskInv /\ CountInv)
<1>1. Init => DiskInv /\ CountInv BY DiskInit, CountInit
<1>2. DiskInv /\ CountInv /\ [Next]_vars => (DiskInv /\ CountInv)'
    <2> SUFFICES ASSUME DiskInv, CountInv, [Next]_vars PROVE DiskInv' /\ CountInv' OBVIOUS
    <2>1. DiskInv' BY DiskStep
    <2>2. CountInv' BY LockStep, SockStep, ScanStep DEF CountInv
    <2> QED BY <2>1, <2>2
<1> QED BY <1>1, <1>2, PTL DEF Spec

\* With ids of their own, no Start abandoned and no listing without the lock, a
\* serving session is always found at its id's socket path: neither the count's
\* removal of stale sockets nor another daemon's exit ever takes it away.
THEOREM ServingIsReachable == ASSUME DistinctIds, Orderly PROVE Spec => []Reachable
<1>1. DiskInv /\ CountInv => Reachable BY DEF CountInv, SockOK, Reachable
<1> QED BY <1>1, CountInvariant, PTL

\* A counted set that is below the limit covers every active session, so one
\* more may be spawned.
LEMMA RoomForOne ==
    ASSUME DistinctIds, DiskInv, CountInv, NEW s \in Sessions, Spawn(s)
    PROVE  CapRespected'
<1> DEFINE A == {t \in Sessions : Active(t)}
           live == scan[s].live
<1>0. TypeInv /\ TypeOK BY DEF DiskInv, TypeInv
<1>1. A \in SUBSET Sessions /\ live \in SUBSET Ids BY <1>0 DEF TypeOK, Scanning
<1>2. \A t \in A : IdOf[t] \in live BY DEF CountInv, ScanOK, Spawn, Counted
<1>3. {t \in Sessions : Active(t)'} = A \cup {s} BY <1>0 DEF Spawn, Active, TypeOK
<1>4. Cardinality(live) < Limit BY DEF Spawn
<1>5. (A \cup {s}) \in SUBSET Sessions BY <1>1
<1> SUFFICES Cardinality(A \cup {s}) <= Limit BY <1>3 DEF CapRespected
<1> HIDE DEF A, live
<1>6. IsFiniteSet(A) /\ IsFiniteSet(live) BY <1>1, FiniteIds, FiniteAssumption, FS_Subset
<1>7. Cardinality(A) <= Cardinality(live)
    <2> DEFINE id == [t \in A |-> IdOf[t]]
    <2>1. id \in [A -> live] BY <1>2
    <2>2. \A t, u \in A : id[t] = id[u] => t = u BY <1>1 DEF DistinctIds
    <2> HIDE DEF id
    <2>3. id \in Injection(A, live) BY <2>1, <2>2 DEF Injection, IsInjective
    <2> QED BY <1>6, <2>3, FS_Injection
<1>8. Cardinality(A \cup {s}) <= Cardinality(A) + 1
    <2>1. Cardinality(A \cup {s}) = IF s \in A THEN Cardinality(A) ELSE Cardinality(A) + 1
        BY <1>6, FS_AddElement
    <2> QED BY <1>6, <2>1, FS_CardinalityType
<1>9. Cardinality(A) \in Nat /\ Cardinality(live) \in Nat /\ Cardinality(A \cup {s}) \in Nat
    BY <1>6, FS_CardinalityType, FS_AddElement
<1> QED BY <1>4, <1>7, <1>8, <1>9, CountAssumption

LEMMA CapFrame ==
    ASSUME CapRespected, \A t \in Sessions : Active(t)' => Active(t)
    PROVE  CapRespected'
<1> DEFINE A == {t \in Sessions : Active(t)}
           B == {t \in Sessions : Active(t)'}
<1>1. B \in SUBSET A /\ A \in SUBSET Sessions OBVIOUS
<1>2. Cardinality(A) <= Limit BY DEF CapRespected
<1> SUFFICES Cardinality(B) <= Limit BY DEF CapRespected
<1> HIDE DEF A, B
<1>3. IsFiniteSet(A) BY <1>1, FiniteAssumption, FS_Subset
<1>4. IsFiniteSet(B) /\ Cardinality(B) <= Cardinality(A) BY <1>1, <1>3, FS_Subset
<1>5. Cardinality(A) \in Nat /\ Cardinality(B) \in Nat BY <1>3, <1>4, FS_CardinalityType
<1> QED BY <1>2, <1>4, <1>5, CountAssumption

LEMMA CapStep ==
    ASSUME DistinctIds, Orderly, DiskInv, CountInv, CapRespected, [Next]_vars
    PROVE  CapRespected'
<1>0. TypeInv /\ TypeOK BY DEF DiskInv, TypeInv
<1>1. CASE UNCHANGED vars BY <1>1, CapFrame DEF vars, Active
<1>2. ASSUME NEW s \in Sessions, Starting(s) \/ CallerDies(s), ~Spawn(s) PROVE CapRespected'
    <2>1. UNCHANGED daemon
        BY <1>2 DEF Starting, CallerDies, Lock, FoundLive, FoundDead, FoundRecord, FoundNoRecord,
            ReplaceRecord, ReplaceHistory, CountSessions, ListRunning, ProbeLive, ProbeDead,
            RemoveStale, AtLimit, WaitLive, WaitRecord, WaitExited, WaitTimeout
    <2> QED BY <2>1, CapFrame DEF Active
<1>3. ASSUME NEW s \in Sessions, Bringing(s) \/ End(s) \/ Ending(s) \/ DaemonDies(s)
      PROVE  CapRespected'
    BY <1>0, <1>3, NoneActivated, CapFrame
<1> QED BY <1>1, <1>2, <1>3, RoomForOne, Parties DEF Orderly

\* With ids of their own, no Start abandoned and no listing without the lock,
\* simultaneous starts never bring more sessions into being than the cap: the
\* count under the lock misses nobody (Start, runningInNamespace).
THEOREM CapIsRespected == ASSUME DistinctIds, Orderly PROVE Spec => []CapRespected
<1>1. Init => CapRespected
    <2> SUFFICES ASSUME Init PROVE CapRespected OBVIOUS
    <2>1. {s \in Sessions : Active(s)} = {} BY DEF Init, Active
    <2> QED BY <2>1, FS_EmptySet, CountAssumption DEF CapRespected
<1>2. DiskInv /\ CountInv /\ CapRespected /\ [Next]_vars => CapRespected' BY CapStep
<1> QED BY <1>1, <1>2, CountInvariant, PTL DEF Spec
=============================================================================
