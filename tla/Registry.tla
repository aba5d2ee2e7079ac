------------------------------ MODULE Registry ------------------------------
(***************************************************************************)
(* The sessions of one id namespace and the files they share: Start and    *)
(* its helpers (start.go, client.go), the listing of running sessions      *)
(* (client.go), and the life of a session daemon as the file system sees   *)
(* it (listen, persist, retention.go, removeSocket).  A session is one     *)
(* call of Start and the daemon it may spawn.  A socket path, a record and *)
(* a history name the session whose file they are.                         *)
(***************************************************************************)
EXTENDS Integers, FiniteSets, FiniteSetsExt

CONSTANTS
    Sessions,     \* calls of Start, each with the daemon it spawns
    IdOf,         \* the id each of them asks for (ids are in file name order)
    Overwrites,   \* those with OverwriteID
    Listers,      \* listRunning calls without this namespace's lock
    Limit,        \* concurrency cap
    Keep,         \* RetentionCount
    Faults,       \* what may go wrong: abandon (a Start), crash (of a daemon), spawn
                  \* (of a command), store (the scrollback, or a write or read of persist)
    None, Torn    \* no file; a file os.WriteFile has truncated and not written

Ids == {IdOf[s] : s \in Sessions}

ASSUME IdAssumption == \A s \in Sessions : IdOf[s] \in Nat
ASSUME CountAssumption == Limit \in Nat \ {0} /\ Keep \in Nat \ {0}
ASSUME NamesAssumption == None # Torn /\ {None, Torn} \cap Sessions = {}
ASSUME FiniteAssumption == IsFiniteSet(Sessions)
ASSUME PartiesAssumption == Overwrites \subseteq Sessions /\ Listers \cap Sessions = {}

VARIABLES
    lock,       \* who holds the namespace's .nslock
    start,      \* where each Start stands
    result,     \* what a Start answers: an error, or whose info it read
    daemon,     \* where each daemon stands
    sock,       \* the session whose socket the path of an id names
    record,     \* the session whose record an id has
    history,    \* the session whose history an id has
    endedAt,    \* when each session's command ended, 0 before
    openedAt,   \* the file time of the record each daemon truncated, 0 before
    scan,       \* listRunning: ids to probe, ids answered, id found dead
    prune       \* persist: records to keep, records found, names still to read,
                \* their dates, and the files still to delete

vars == <<lock, start, result, daemon, sock, record, history, endedAt, openedAt, scan, prune>>
files == <<sock, record, history>>
times == <<endedAt, openedAt>>

Scanning == [todo : SUBSET Ids, live : SUBSET Ids, dead : Ids \cup {None}]
Idle == [todo |-> {}, live |-> {}, dead |-> None]
NoDates == [i \in Ids |-> 0]
NotPruning == [keep |-> 0, listing |-> {}, unread |-> {}, dates |-> NoDates,
               records |-> {}, histories |-> {}]
Pruning == [keep : 0..Keep, listing : SUBSET Ids, unread : SUBSET Ids, dates : [Ids -> Nat],
            records : SUBSET Ids, histories : SUBSET Ids]

TypeOK ==
    /\ lock \in Sessions \cup {None}
    /\ start \in [Sessions -> {"called", "locked", "checked", "replacing", "listing",
                               "counting", "waiting", "returned"}]
    /\ result \in [Sessions -> Sessions \cup {None, "running", "exists", "limit", "failed"}]
    /\ daemon \in [Sessions -> {"none", "spawned", "unlinked", "bound", "listening", "failing",
                                "failingHistory", "failingTorn", "failingRecord", "serving", "closing",
                                "history", "torn", "recorded", "counted", "reading", "pruning", "persisted", "exited"}]
    /\ sock \in [Ids -> Sessions \cup {None}]
    /\ record \in [Ids -> Sessions \cup {None, Torn}]
    /\ history \in [Ids -> Sessions \cup {None, Torn}]
    /\ endedAt \in [Sessions -> Nat] /\ openedAt \in [Sessions -> Nat]
    /\ scan \in [Sessions \cup Listers -> Scanning]
    /\ prune \in [Sessions -> Pruning]

Init ==
    /\ lock = None
    /\ start = [s \in Sessions |-> "called"]
    /\ result = [s \in Sessions |-> None]
    /\ daemon = [s \in Sessions |-> "none"]
    /\ sock = [i \in Ids |-> None]
    /\ record = [i \in Ids |-> None]
    /\ history = [i \in Ids |-> None]
    /\ endedAt = [s \in Sessions |-> 0]
    /\ openedAt = [s \in Sessions |-> 0]
    /\ scan = [p \in Sessions \cup Listers |-> Idle]
    /\ prune = [s \in Sessions |-> NotPruning]

-----------------------------------------------------------------------------
(* What a client can tell of an id.                                        *)

\* A dial reaches a daemon that listens but does not accept yet: it answers
\* once it serves, and hangs up if its command does not start.
Unanswered == {"listening", "failing", "failingHistory", "failingTorn", "failingRecord"}

Listening(i) == sock[i] # None /\ daemon[sock[i]] \in Unanswered \cup {"serving"}
Blocked(i) == sock[i] # None /\ daemon[sock[i]] \in Unanswered

\* liveInfo, for an id whose dial does not block.
Answers(i) == sock[i] # None /\ daemon[sock[i]] = "serving"

\* endedRecord: a torn record does not parse.
HasRecord(i) == record[i] \in Sessions

-----------------------------------------------------------------------------
(* listRunning.                                                            *)

Probe(p) == Min(scan[p].todo)

\* The next socket answers.
ProbeLive(p) ==
    /\ scan[p].todo # {} /\ scan[p].dead = None
    /\ Answers(Probe(p))
    /\ scan' = [scan EXCEPT ![p].todo = @ \ {Probe(p)}, ![p].live = @ \cup {Probe(p)}]
    /\ UNCHANGED <<lock, start, result, daemon, files, times, prune>>

\* The next socket does not.
ProbeDead(p) ==
    /\ scan[p].todo # {} /\ scan[p].dead = None
    /\ ~Answers(Probe(p)) /\ ~Blocked(Probe(p))
    /\ scan' = [scan EXCEPT ![p].todo = @ \ {Probe(p)}, ![p].dead = Probe(p)]
    /\ UNCHANGED <<lock, start, result, daemon, files, times, prune>>

\* os.Remove of the path, whatever socket it names by now.
RemoveStale(p) ==
    /\ scan[p].dead # None
    /\ sock' = [sock EXCEPT ![scan[p].dead] = None]
    /\ scan' = [scan EXCEPT ![p].dead = None]
    /\ UNCHANGED <<lock, start, result, daemon, record, history, times, prune>>

\* os.ReadDir of the socket directory by a listing that holds no lock.
List(l) ==
    /\ scan[l].todo = {} /\ scan[l].dead = None
    /\ scan' = [scan EXCEPT ![l] = [Idle EXCEPT !.todo = {i \in Ids : sock[i] # None}]]
    /\ UNCHANGED <<lock, start, result, daemon, files, times, prune>>

ListRunning(p) == ProbeLive(p) \/ ProbeDead(p) \/ RemoveStale(p)

-----------------------------------------------------------------------------
(* Start.                                                                  *)

\* unlock runs as Start returns.
Return(s, answer) ==
    /\ start' = [start EXCEPT ![s] = "returned"]
    /\ result' = [result EXCEPT ![s] = answer]
    /\ lock' = None

\* Mutant: the lock is a shared one.
LockShared(s) ==
    /\ start[s] = "called"
    /\ lock' = s
    /\ start' = [start EXCEPT ![s] = "locked"]
    /\ UNCHANGED <<result, daemon, files, times, scan, prune>>

\* lockNamespace: LOCK_EX on the namespace's lock file.
Lock(s) ==
    /\ start[s] = "called" /\ lock = None
    /\ lock' = s
    /\ start' = [start EXCEPT ![s] = "locked"]
    /\ UNCHANGED <<result, daemon, files, times, scan, prune>>

\* ErrSessionRunning.
FoundLive(s) ==
    /\ start[s] = "locked" /\ Answers(IdOf[s])
    /\ Return(s, "running")
    /\ UNCHANGED <<daemon, files, times, scan, prune>>

FoundDead(s) ==
    /\ start[s] = "locked" /\ ~Answers(IdOf[s]) /\ ~Blocked(IdOf[s])
    /\ start' = [start EXCEPT ![s] = "checked"]
    /\ UNCHANGED <<lock, result, daemon, files, times, scan, prune>>

\* ErrSessionExists.
FoundRecord(s) ==
    /\ start[s] = "checked" /\ HasRecord(IdOf[s]) /\ s \notin Overwrites
    /\ Return(s, "exists")
    /\ UNCHANGED <<daemon, files, times, scan, prune>>

FoundNoRecord(s) ==
    /\ start[s] = "checked" /\ ~HasRecord(IdOf[s])
    /\ start' = [start EXCEPT ![s] = "listing"]
    /\ UNCHANGED <<lock, result, daemon, files, times, scan, prune>>

\* OverwriteID: remove the record, then the history.
ReplaceRecord(s) ==
    /\ start[s] = "checked" /\ HasRecord(IdOf[s]) /\ s \in Overwrites
    /\ record' = [record EXCEPT ![IdOf[s]] = None]
    /\ start' = [start EXCEPT ![s] = "replacing"]
    /\ UNCHANGED <<lock, result, daemon, sock, history, times, scan, prune>>

ReplaceHistory(s) ==
    /\ start[s] = "replacing"
    /\ history' = [history EXCEPT ![IdOf[s]] = None]
    /\ start' = [start EXCEPT ![s] = "listing"]
    /\ UNCHANGED <<lock, result, daemon, sock, record, times, scan, prune>>

\* runningInNamespace reads the socket directory.
CountSessions(s) ==
    /\ start[s] = "listing"
    /\ scan' = [scan EXCEPT ![s] = [Idle EXCEPT !.todo = {i \in Ids : sock[i] # None}]]
    /\ start' = [start EXCEPT ![s] = "counting"]
    /\ UNCHANGED <<lock, result, daemon, files, times, prune>>

Counted(s) == start[s] = "counting" /\ scan[s].todo = {} /\ scan[s].dead = None

\* ConcurrencyLimitError.
AtLimit(s) ==
    /\ Counted(s) /\ Cardinality(scan[s].live) >= Limit
    /\ Return(s, "limit")
    /\ UNCHANGED <<daemon, files, times, scan, prune>>

\* Mutant: the lock is released once the daemon is spawned.
SpawnUnlocks(s) ==
    /\ Counted(s) /\ Cardinality(scan[s].live) < Limit
    /\ start' = [start EXCEPT ![s] = "waiting"]
    /\ daemon' = [daemon EXCEPT ![s] = "spawned"]
    /\ lock' = None
    /\ UNCHANGED <<result, files, times, scan, prune>>

\* spawnDaemon; waitForSession begins.
Spawn(s) ==
    /\ Counted(s) /\ Cardinality(scan[s].live) < Limit
    /\ start' = [start EXCEPT ![s] = "waiting"]
    /\ daemon' = [daemon EXCEPT ![s] = "spawned"]
    /\ UNCHANGED <<lock, result, files, times, scan, prune>>

\* waitForSession: the id's socket answers.
WaitLive(s) ==
    /\ start[s] = "waiting" /\ Answers(IdOf[s])
    /\ Return(s, sock[IdOf[s]])
    /\ UNCHANGED <<daemon, files, times, scan, prune>>

\* ... or the id has a record (liveInfo found nothing when it was asked) ...
WaitRecord(s) ==
    /\ start[s] = "waiting" /\ HasRecord(IdOf[s])
    /\ Return(s, record[IdOf[s]])
    /\ UNCHANGED <<daemon, files, times, scan, prune>>

\* ... or the daemon exited and left neither (recheckEndedRecord) ...
WaitExited(s) ==
    /\ start[s] = "waiting" /\ daemon[s] = "exited"
    /\ ~Answers(IdOf[s]) /\ ~Blocked(IdOf[s]) /\ ~HasRecord(IdOf[s])
    /\ Return(s, "failed")
    /\ UNCHANGED <<daemon, files, times, scan, prune>>

\* Mutant: the error path leaves the namespace locked.
WaitTimeoutLocked(s) ==
    /\ start[s] = "waiting" /\ "abandon" \in Faults /\ ~Blocked(IdOf[s])
    /\ start' = [start EXCEPT ![s] = "returned"]
    /\ result' = [result EXCEPT ![s] = "failed"]
    /\ UNCHANGED <<lock, daemon, files, times, scan, prune>>

\* ... or the deadline passed, or ctx is done: looked at between two dials only,
\* and a dial has no deadline of its own.
WaitTimeout(s) ==
    /\ start[s] = "waiting" /\ "abandon" \in Faults /\ ~Blocked(IdOf[s])
    /\ Return(s, "failed")
    /\ UNCHANGED <<daemon, files, times, scan, prune>>

\* The calling process dies; the lock goes with it.
CallerDies(s) ==
    /\ "abandon" \in Faults /\ lock = s
    /\ Return(s, "failed")
    /\ scan' = [scan EXCEPT ![s] = Idle]
    /\ UNCHANGED <<daemon, files, times, prune>>

-----------------------------------------------------------------------------
(* The daemon.                                                             *)

Moves(s, from, to) == daemon[s] = from /\ daemon' = [daemon EXCEPT ![s] = to]

\* listen: remove a stale socket ...
Unlink(s) ==
    /\ Moves(s, "spawned", "unlinked")
    /\ sock' = [sock EXCEPT ![IdOf[s]] = None]
    /\ UNCHANGED <<lock, start, result, record, history, times, scan, prune>>

\* ... bind the path ...
Bind(s) ==
    /\ sock[IdOf[s]] = None /\ Moves(s, "unlinked", "bound")
    /\ sock' = [sock EXCEPT ![IdOf[s]] = s]
    /\ UNCHANGED <<lock, start, result, record, history, times, scan, prune>>

\* ... which fails if another daemon bound it meanwhile ...
BindFails(s) ==
    /\ sock[IdOf[s]] # None /\ Moves(s, "unlinked", "exited")
    /\ UNCHANGED <<lock, start, result, files, times, scan, prune>>

\* ... and listen on it.
Listen(s) ==
    /\ Moves(s, "bound", "listening")
    /\ UNCHANGED <<lock, start, result, files, times, scan, prune>>

\* start succeeds, acceptLoop runs.
Serve(s) ==
    /\ Moves(s, "listening", "serving")
    /\ UNCHANGED <<lock, start, result, files, times, scan, prune>>

\* Commands end at even times.
Clock == 2 * Cardinality({s \in Sessions : endedAt[s] > 0})

\* start fails: persistSpawnError, without pruning, then the socket goes.
StartFails(s) ==
    /\ "spawn" \in Faults /\ Moves(s, "listening", "failing")
    /\ endedAt' = [endedAt EXCEPT ![s] = Clock + 2]
    /\ UNCHANGED <<lock, start, result, files, openedAt, scan, prune>>

\* os.WriteFile stopped half way through the history.
HistoryTorn(s, before) ==
    IF daemon[s] = before THEN {[history EXCEPT ![IdOf[s]] = Torn]} ELSE {}

FailHistory(s) ==
    /\ Moves(s, "failing", "failingHistory")
    /\ history' = [history EXCEPT ![IdOf[s]] = s]
    /\ UNCHANGED <<lock, start, result, sock, record, times, scan, prune>>

\* os.WriteFile truncates the record, at an odd time: after the commands that
\* have ended and before those that will; among themselves file times may be equal.
TruncateRecord(s) ==
    /\ record' = [record EXCEPT ![IdOf[s]] = Torn]
    /\ openedAt' = [openedAt EXCEPT ![s] = Clock + 1]

FailOpen(s) ==
    /\ Moves(s, "failingHistory", "failingTorn")
    /\ TruncateRecord(s)
    /\ UNCHANGED <<lock, start, result, sock, history, endedAt, scan, prune>>

FailRecord(s) ==
    /\ Moves(s, "failingTorn", "failingRecord")
    /\ record' = [record EXCEPT ![IdOf[s]] = IF @ = None THEN None ELSE s]
    /\ UNCHANGED <<lock, start, result, sock, history, times, scan, prune>>

FailExit(s) ==
    /\ Moves(s, "failingRecord", "exited")
    /\ sock' = [sock EXCEPT ![IdOf[s]] = None]
    /\ UNCHANGED <<lock, start, result, record, history, times, scan, prune>>

\* The store reported an error, or one of the two files could not be written,
\* or not to its end.
FailPersist(s) ==
    /\ "store" \in Faults /\ daemon[s] \in {"failing", "failingHistory", "failingTorn"}
    /\ daemon' = [daemon EXCEPT ![s] = "failingRecord"]
    /\ history' \in {history} \cup HistoryTorn(s, "failing")
    /\ UNCHANGED <<lock, start, result, sock, record, times, scan, prune>>

\* reap, then run closes the listener; the socket file stays.
End(s) ==
    /\ Moves(s, "serving", "closing")
    /\ endedAt' = [endedAt EXCEPT ![s] = Clock + 2]
    /\ UNCHANGED <<lock, start, result, files, openedAt, scan, prune>>

\* persist returns early: the store reported an error, a file could not be
\* written or not to its end, or a directory not be read.
PersistFails(s) ==
    /\ "store" \in Faults
    /\ daemon[s] \in {"closing", "history", "torn", "recorded", "counted"}
    /\ daemon' = [daemon EXCEPT ![s] = "persisted"]
    /\ history' \in {history} \cup HistoryTorn(s, "closing")
    /\ prune' = [prune EXCEPT ![s] = NotPruning]
    /\ UNCHANGED <<lock, start, result, sock, record, times, scan>>

\* writeRecord: the history, then the record, truncated and then written.
WriteHistory(s) ==
    /\ Moves(s, "closing", "history")
    /\ history' = [history EXCEPT ![IdOf[s]] = s]
    /\ UNCHANGED <<lock, start, result, sock, record, times, scan, prune>>

OpenRecord(s) ==
    /\ Moves(s, "history", "torn")
    /\ TruncateRecord(s)
    /\ UNCHANGED <<lock, start, result, sock, history, endedAt, scan, prune>>

\* Bytes written to a file that was unlinked meanwhile are gone.
WriteRecord(s) ==
    /\ Moves(s, "torn", "recorded")
    /\ record' = [record EXCEPT ![IdOf[s]] = IF @ = None THEN None ELSE s]
    /\ UNCHANGED <<lock, start, result, sock, history, times, scan, prune>>

\* activeNamespaceSessions: other sockets of the namespace somebody listens on.
CountActive(s) ==
    /\ Moves(s, "recorded", "counted")
    /\ LET active == Cardinality({i \in Ids \ {IdOf[s]} : Listening(i)})
       IN  prune' = [prune EXCEPT ![s].keep = IF Keep - active < 1 THEN 1 ELSE Keep - active]
    /\ UNCHANGED <<lock, start, result, files, times, scan>>

Retained == {i \in Ids : record[i] # None}

\* os.ReadDir of the namespace's records.
ReadRetention(s) ==
    /\ Moves(s, "counted", "reading")
    /\ prune' = [prune EXCEPT ![s].listing = Retained, ![s].unread = Retained]
    /\ UNCHANGED <<lock, start, result, files, times, scan>>

\* The file time of a record that is truncated and not written.
ModTime(i) == Max({openedAt[s] : s \in {t \in Sessions : IdOf[t] = i}})

\* recordEndedAt: what the record says, the file time of one that does not
\* parse, the zero time for one that has gone since.
EndedAt(i) ==
    IF record[i] = None THEN 0 ELSE IF record[i] = Torn THEN ModTime(i) ELSE endedAt[record[i]]

ReadDate(s) ==
    /\ daemon[s] = "reading" /\ prune[s].unread # {}
    /\ LET i == Min(prune[s].unread)
       IN  prune' = [prune EXCEPT ![s].unread = @ \ {i}, ![s].dates = [@ EXCEPT ![i] = EndedAt(i)]]
    /\ UNCHANGED <<lock, start, result, daemon, files, times, scan>>

\* What is beyond the first keep records, the newest first (sort.Slice puts
\* equal dates in any order).
Oldest(s, keep) ==
    {V \in SUBSET prune[s].listing :
        LET kept == prune[s].listing \ V
        IN  /\ Cardinality(kept) <= keep
            /\ V # {} => Cardinality(kept) = keep
            /\ \A v \in V, k \in kept : prune[s].dates[v] <= prune[s].dates[k]}

Chooses(s, keep) ==
    /\ prune[s].unread = {} /\ Moves(s, "reading", "pruning")
    /\ \E victims \in Oldest(s, keep) :
          prune' = [prune EXCEPT ![s] = [NotPruning EXCEPT !.keep = prune[s].keep,
                                             !.records = victims, !.histories = victims]]
    /\ UNCHANGED <<lock, start, result, files, times, scan>>

\* Mutant: one record too many is kept.
ChooseVictimsOneShort(s) == Chooses(s, prune[s].keep + 1)

\* All but the newest keep records are to go.
ChooseVictims(s) == Chooses(s, prune[s].keep)

DropRecord(s, i) ==
    /\ daemon[s] = "pruning" /\ i \in prune[s].records
    /\ record' = [record EXCEPT ![i] = None]
    /\ prune' = [prune EXCEPT ![s].records = @ \ {i}]
    /\ UNCHANGED <<lock, start, result, daemon, sock, history, times, scan>>

\* Mutant: a history may go before the record that announces it.
DropHistoryFirst(s, i) ==
    /\ daemon[s] = "pruning" /\ i \in prune[s].histories
    /\ history' = [history EXCEPT ![i] = None]
    /\ prune' = [prune EXCEPT ![s].histories = @ \ {i}]
    /\ UNCHANGED <<lock, start, result, daemon, sock, record, times, scan>>

DropHistory(s, i) ==
    /\ daemon[s] = "pruning" /\ i \in prune[s].histories \ prune[s].records
    /\ history' = [history EXCEPT ![i] = None]
    /\ prune' = [prune EXCEPT ![s].histories = @ \ {i}]
    /\ UNCHANGED <<lock, start, result, daemon, sock, record, times, scan>>

Pruned(s) ==
    /\ prune[s].histories = {} /\ Moves(s, "pruning", "persisted")
    /\ UNCHANGED <<lock, start, result, files, times, scan, prune>>

\* removeSocket: os.Remove of the path, whatever socket it names by now.
RemoveSocket(s) ==
    /\ Moves(s, "persisted", "exited")
    /\ sock' = [sock EXCEPT ![IdOf[s]] = None]
    /\ UNCHANGED <<lock, start, result, record, history, times, scan, prune>>

\* The daemon is killed: its files stay as they are, and what it had yet to
\* delete is forgotten.
DaemonDies(s) ==
    /\ "crash" \in Faults /\ daemon[s] \notin {"none", "exited"}
    /\ daemon' = [daemon EXCEPT ![s] = "exited"]
    /\ prune' = [prune EXCEPT ![s] = IF daemon[s] = "persisted" THEN @ ELSE NotPruning]
    /\ UNCHANGED <<lock, start, result, files, times, scan>>

-----------------------------------------------------------------------------
Starting(s) ==
    \/ Lock(s) \/ FoundLive(s) \/ FoundDead(s) \/ FoundRecord(s) \/ FoundNoRecord(s)
    \/ ReplaceRecord(s) \/ ReplaceHistory(s)
    \/ CountSessions(s) \/ ListRunning(s) \/ AtLimit(s) \/ Spawn(s)
    \/ WaitLive(s) \/ WaitRecord(s) \/ WaitExited(s) \/ WaitTimeout(s)

Bringing(s) ==
    \/ Unlink(s) \/ Bind(s) \/ BindFails(s) \/ Listen(s) \/ Serve(s) \/ StartFails(s)
    \/ FailHistory(s) \/ FailOpen(s) \/ FailRecord(s) \/ FailPersist(s) \/ FailExit(s)

Ending(s) ==
    \/ PersistFails(s) \/ WriteHistory(s) \/ OpenRecord(s) \/ WriteRecord(s)
    \/ CountActive(s) \/ ReadRetention(s) \/ ReadDate(s) \/ ChooseVictims(s)
    \/ \E i \in Ids : DropRecord(s, i) \/ DropHistory(s, i)
    \/ Pruned(s) \/ RemoveSocket(s)

Next ==
    \/ \E s \in Sessions :
          Starting(s) \/ CallerDies(s) \/ Bringing(s) \/ End(s) \/ Ending(s) \/ DaemonDies(s)
    \/ \E l \in Listers : List(l) \/ ListRunning(l)

Spec == Init /\ [][Next]_vars

\* Callers and daemons run; the kernel grants flock to a waiting caller sooner
\* or later.  Nothing is assumed of commands: a session may serve for ever.
FairSpec ==
    /\ Spec
    /\ \A s \in Sessions :
          SF_vars(Lock(s)) /\ WF_vars(Starting(s)) /\ WF_vars(Bringing(s) \/ Ending(s))

-----------------------------------------------------------------------------
(* Properties.                                                             *)

Active(s) == daemon[s] \in {"spawned", "unlinked", "bound", "listening", "serving"}

\* "Simultaneous starts can't ... race past" the cap: spawned and serving
\* sessions of the namespace never exceed it (Start).
CapRespected == Cardinality({s \in Sessions : Active(s)}) <= Limit

\* A session that serves can be found: the socket path of its id names it.
Reachable == \A s \in Sessions : daemon[s] = "serving" => sock[IdOf[s]] = s

\* A Start that reports a session reports the one it started.
OwnResult == \A s \in Sessions : result[s] \in Sessions => result[s] = s

\* "Its presence guarantees the corresponding history is available": the
\* history beside a record is that session's (writeRecord).
HistoryBesideRecord ==
    \A i \in Ids : HasRecord(i) => history[i] = record[i]

HasPruned(s) == daemon[s] \in {"persisted", "exited"} /\ prune[s].keep > 0

\* Daemons that opened a record and have not finished pruning: they still write
\* or prune, the command did not start (persistSpawnError does not prune),
\* persist failed, or the daemon died before it had pruned.
Unpruned == {s \in Sessions : openedAt[s] > 0 /\ ~HasPruned(s)}

\* The namespace never retains more than Keep records and one for each daemon
\* that has not finished pruning, whatever dates, complete and torn, the others
\* have read of each other's records meanwhile (pruneRetention).
RetentionBounded == Cardinality(Retained) <= Keep + Cardinality(Unpruned)

Quiet ==
    \A s \in Sessions : daemon[s] \notin {"torn", "recorded", "counted", "reading", "pruning"}

\* "The number of most recently ended sessions retained", without exception but
\* for daemons between their record and the end of their pruning.
RetentionExact == Quiet => Cardinality(Retained) <= Keep

\* "The just-ended record is always kept" (persist).
JustEndedKept == \A s \in Sessions : daemon[s] = "pruning" => IdOf[s] \notin prune[s].records

\* Every Start returns, whoever holds the namespace meanwhile and whatever
\* becomes of its daemon.
EveryStartReturns == \A s \in Sessions : (start[s] = "called") ~> (start[s] = "returned")
=============================================================================
