# bgx: a TLA+ development

bgx runs commands in detached sessions. Each session is a daemon process that
owns a PTY, keeps a bounded scrollback, lets any number of clients attach over a
Unix socket, answers one-shot requests, and leaves a record on disk when its
command ends. There is no central server: sessions coordinate through files (a
socket directory, a retention directory, one lock file per id namespace).

This directory models that system in TLA+, checks it with TLC on small
instances, and proves most of its safety properties with TLAPS for every value of
the constants. `PROJECT.json` maps definitions to source lines,
lists the runs, the mutants that show each property can fail, the hazards the
properties are aimed at, and the findings.

## Inventory

| Component | State | Operations | Hard parts |
|---|---|---|---|
| Output pump and attach clients (`daemon/attach.go`, `daemon/daemon.go`) | bytes read, bytes rendered by the emulator, `attachers`, per client `buf`, `pendingSnapshot`, `closed` | `pumpOutputFrom`, `feedTerm`, `fanout`, `deliverOutput`, `serveAttach`, `attachWriter`, `endAttachers` | one pump, two goroutines per client, `outMu`, `s.mu` and `a.mu`; joins during a fanout; slow clients; shutdown while clients lag |
| Session lifecycle and requests (`daemon/daemon.go`, `command_api.go`, `client_api.go`) | `ended`, `killed`, `closing`, listener, `inputBuf`, the PTY, the record and history files | `run`, `reap`, `pumpInputTo`, `queueInput`, `info`/`wait`/`kill`/`send`/`history`, the callers' fallback to the record | kill against natural exit; callers racing the shutdown; a blocked PTY write; failed persists |
| Scrollback (`scrollback/store.go`, `backend.go`) | `pending`, `chunkBuf`, head and tail chunks, `busy`, `err` | `Write`, `Snapshot`, `Close`, `drain`, `process`, `flushChunk`, `evict` | lock released while a chunk is stored; boundary cuts; eviction; sticky errors |
| Boundary scanner (`vtscan/vtscan.go`) | parser state, pending continuation bytes | `Advance`, `SafeCut`, and `feedTerm`, `boundaryCut`, `boundaryTrim` on top | input split anywhere; malformed sequences and runes |
| Start, listing, retention (`start.go`, `client.go`, `sessions.go`, `daemon/retention.go`) | the lock file, socket paths, records, histories | `Start`, `lockNamespace`, `runningInNamespace`, `spawnDaemon`, `waitForSession`, `listRunning`, `listen`, `writeRecord`, `pruneRetention`, `removeSocket` | processes that crash between any two system calls; paths removed by name; torn records; concurrent pruning |
| Attach client (`client_attach.go`, `attach.go`) and transport bridge (`transport.go`) | the stream and who closes it, `frameErr`, `inputErr`, `resizeErr`, `viewErr`, `detached`, `sessionEnded`, the far process | `Attach`, `runTerminalAttach`, `sendSize`, the frame, input and resize goroutines, `transportConn.Close`, `Bridge` | five causes of the end ready at once; errors of the teardown against real ones; blocked writes; a process that does not exit |
| Detach scanner (`ctrlkey.go`, `client_attach_input.go`) | `pending`, the escape timer | `feed`, `flush`, `runAttachInput` | a key split over reads; the timer against the rest of a key |
| Attach TUI (`attachmodels.go`, `attachview.go`, `vt/vt.go`) | presentation, sizes, hint, the client's emulator, the view and its painter, the physical terminal | `start`, `applyOutput`, `followActiveScreen`, `applyResize`, `paint`, `close`, `finish` | painter against switches, resizes and the end; writes that fail half way; giving the terminal back |
| Window sizes of the PTY, Device Attributes answers (`daemon/attach.go`, `daemon/da.go`) | sizes per client; none | `attachResize`, `applyMinSize`; `scanDeviceAttributes` | a stale minimum; a query split across reads. Not modelled |
| Terminal primitives, directories, command line | | | System calls, paths and printing; not modelled |

What makes each correct: every client sees one gapless stream and learns of the
end last, at a bounded cost to the daemon (attach); all observers agree on one
outcome and the daemon always finishes (session); what a snapshot says it
retained and discarded is true (scrollback); cuts are exactly the boundaries
(scanner); the cap holds, a serving session is reachable, a record implies its
history, retention is bounded, and `Start` returns (registry); whatever ends an
attachment, `Attach` returns if the transport can be killed, leaves nothing running,
says that the session ended only when it did and "Disconnected" only when the frame
reader stopped first, for whichever reason (attach client); the detach key is found
exactly when it was typed, all other input goes through in order until then, and a
detach loses what was held and the read that held the key, input before the key
included (scanner of keys); the terminal ends up showing the session and is handed
back usable, its earlier screen back or scrolled away (TUI).

## Modules

`Attach` is the core. PTY output is a stream of positions; a frame is an interval
of it, a snapshot is the position up to which the emulator had been fed, and a
client's screen is the position its terminal shows (or `Garbled` once output does
not continue it). `pump` follows the output pump; its value `"fan"` is the period
during which `outMu` is held, so a join excludes it. `handler[c]` and `writer[c]`
follow `serveAttach` and `attachWriter`; `inflight[c]` is the frame a writer has
taken and not finished writing. `phase` follows the end of `Session.run`. Every
step that takes or releases a lock, or that may block, is a step of its own:
`fanout` delivers to its clients one by one, `endAttachers` likewise. The set of
ground positions is the constant `Ground`: what a boundary is, and that the
scanner finds the last one, is what `VTScan` checks.

`OutputStream` is what attach promises, without queues, snapshots or goroutines:
a stream that grows until it is complete, viewers that only move forward and are
told the end when they have seen it all. `Attach` gives the refinement mapping
(`Stream`, `ImplementsOutputStream`).

`Session` has `Session.run` from `listen` to process exit, the command as a
process that runs, becomes a zombie and is reaped, the kill ladder (mark, SIGHUP,
grace, SIGKILL, wait), the input pump that copies the queue and removes what it
wrote afterwards, and callers that dial, are queued, accepted, handled, answered,
or fall back to the record. Input bytes are numbered as they are accepted.

`Scrollback` has the store with the lock structure of the code: `process` and
`evict` hold the lock, `"flush"` is the interval in which `flushChunk` has
released it. Chunks are intervals of positions. `Close` takes the lock like anybody
else, so it may come while a `Snapshot` sits in `cond.Wait`, and a `Snapshot` may be
called after it: `run` closes the store when `waitConns` has given up on the handlers.
What the drain's exit, the released decoder and a late error mean for such a reader
is in the model.

`VTScan` has the scanner's transition functions over the seventeen byte classes
it tells apart, and a reference (`IsBoundary`) that looks at the whole stream and
has no parser state.

`Registry` has several calls of `Start` and the daemons they spawn over one
namespace's files. A path names the session whose file it is, so that a removal
by name of somebody else's file is visible. `os.WriteFile` is two steps with a
`Torn` file between them, and may fail in either. A daemon may die between any two
of its steps. The pruning reads the record dates one by one: `endedAt` is the time in
the record, `openedAt` the time of the file, which is all there is of a torn one
(`recordEndedAt`); commands end at even times and records are truncated at the odd
ones between, so that a record being written may be older than one that is complete.
Reading a record and looking at its file time is one step.

`TerminalAttach` is the other end of `Attach`'s connection: `Client.Attach` and
`runTerminalAttach`, over the socket or over a transport process whose far end is
`Bridge`. A pipe is one direction of a stream, with a bounded queue and the two
ways it can be closed; a message is a request, a response or a frame. The
session is reduced to what its client can observe of it (answers or refuses,
writes frames, announces its end and closes, leaves, crashes), as `Attach` has
its queues. Errors are kinds, because the code filters them by kind:
`Unexpected` is `withoutExpectedAttachShutdownErrors`. `main` is
`runTerminalAttach` with its local variables: `Select`, the two non-blocking
looks after it (`PickFrame`, `PickInput`), and the join are separate steps, as
goroutines run between them. `hit` is a history variable that records what befell
the attachment, for the properties. A transport process is `"killable"`,
`"unkillable"` (its `Kill` is an error) or `"held"` (a descendant keeps its stderr, which
`cmd.Wait` joins); `Reaped` is what `transportConn.Close` waits for. A socket whose peer
closed with data unread gives `"reset"`, which no filter drops.

`KeyScan` is the detach scanner and the loop that drives it, byte by byte, since
what a prefix is depends on the bytes. Its reference `IsKeypress` says what a
ctrl+\ keypress is by splitting the bytes into fields, without a position that
moves; `keypressWithMod` is the translated parser. `before` is a history variable: what
had been read before the last read. Numbers wrap at `Wrap`, 2^32 in the
code (`parseDecimal` returns a `uint32`); TLC's own integers leave room for 2^27, more
than any number in its inputs, and the proofs hold for every positive `Wrap`.

`Presentation` is `attachModels` and `attachView` on a physical terminal with a
primary and an alternate screen. Text is numbered, so that a lost, repeated or
misplaced piece shows; `phys` also has what must be given back: scroll region,
input modes, cursor, title, the hint, and what was on the screen before. `mu` is
`m.mu`, `painter` holds what `paint` has read and not yet written. Every write to
the terminal may fail, with or without its effect, those of `finish` included: which of
its writes fail is chosen at once (`lost`), the ones after a failed one are made or
not as in the code, and what the terminal may show then is a set (`finishIsolated`,
`finishNative`). The output of one write is not cut at every byte: where a write
has several effects, the model has none, all, and the part up to the switch of screens.
A failing repaint by `paint` counts as not written. `window.grew` is a history
variable: the window has been enlarged at some time.

`MCAttach`, `MCSession`, `MCScrollback`, `MCRegistry` and `MCKeyScan` hold the
values TLC uses; the configurations of `VTScan`, `TerminalAttach` and
`Presentation` need none.
`AttachProof`, `ScrollbackProof`, `VTScanProof`, `SessionProof`, `RegistryProof`,
`TerminalAttachProof`, `KeyScanProof` and `PresentationProof` hold the proofs. Definitions commented `Mutant:` are plausible bugs, not part of any
specification: `PROJECT.json` pairs each with the property that must catch it.

## Runs

| Run | What it checks | Instance and why it is enough |
|---|---|---|
| `AttachClient` | type, gapless stream, snapshots at boundaries, bounded backlog, forward-only screens, shutdown, catching up | one client, backlog 2, 5 bytes with boundaries 0, 1, 3, 4: three feeds overflow the backlog, one sequence is split over reads, the last byte is a torn tail; snapshots may fail |
| `AttachClients` | end announced last, no silent hangup, refinement of `OutputStream` | two symmetric clients, backlog 1, 2 bytes: one overflows while the other joins or leaves in the middle of a fanout |
| `ScrollbackStore` | current and honest (`HistoryIsHonest`), boundary-aligned snapshots that keep the tail and return, also around `Close` | head 3, tail 3, chunks of 2, 10 bytes with 3 and 7 inside sequences: the head ends at an uneven cut, the tail is evicted and trimmed inside a chunk and back to a boundary; storage may fail |
| `SessionSafety` | agreement on the outcome, synchronous kill and wait, input order and bound, complete records | two symmetric callers repeating info, wait, kill and send, 3 input bytes with a cap of 2, every failure on |
| `SessionLiveness` | shutdown, kill and answers finish | one caller that may hang, one that reads; a command that need not react to anything but SIGKILL |
| `VTScanCuts` | cuts against the reference: `CutIsExact` says they are at boundaries, hold nothing back, and are the ones a fresh scanner finds | all streams of up to 4 bytes over all classes in reads of 1 and 2: every sequence state is reached with a byte of every class after it |
| `RegistryFiles` | cap, reachability, record and history, retention, also while daemons prune at once | three sessions with their own ids, cap 1, retention 1, of which one has ended (`OneEnded`): the second waits for, or counts, the first; one ends while the other is started, both prune at once and date each other's records, complete or torn; crashes, failed spawns, failed and half-done writes |
| `RegistryReturns` | every `Start` returns | two starts of one id, one overwriting, a listing, abandoned calls, crashes |
| `KeyScan` | the detach key is found exactly, other input is forwarded in order but for what `InputForwarded` says a detach loses, a lone Escape too | 2,880 streams: CSI u keys that differ from ctrl+\ in any combination of key, alternates, modifiers, event, text and terminator, after and before other input, in reads of any length, with the timer at any moment |
| `TerminalAttach` | outcome, error and leftovers of an attachment; it returns | both routes, one fault of each kind at any moment, pipes of one message, so that every writer is blocked at some point, one frame before the end, one key or window change; over transports that may not be killed or whose stderr is held, no key and no fault but a local one (`StuckBound`) |
| `Presentation` | the screen settles, the terminal is handed back, its former contents come back or were scrolled away | all three modes with and without instructions, heights 1 (no room for the hint) and 2, three pieces of output, one window change or size request, one failing kind of write: a switch to isolation and back with text between, and a resize across either |

`TerminalAttachTransport` checks `NilMeansOver` and `NothingLeftBehind` over such transports
with every key and fault; it is too large to check together with `AttachReturns`.

Every counter is bounded by a named constant (`MaxOut`, `MaxTotal`, `MaxIn`,
`MaxStream`, `MaxRead`, `MaxFaults`, `PipeCap`, `MaxEvents`, `MaxPieces`,
`MaxFailures`). The Session runs check deadlock, as callers can always call again;
so do `TerminalAttach` and `Presentation`, in which only a finished attachment
may stand still (`Finished`). The others do not: a session whose daemon exited, a
closed store, a flushed stream and ended input do nothing more.

The type invariants of `Session`, `VTScan` and `Registry` are checked by
`SessionTypes.cfg`, `VTScanTypes.cfg` and `RegistryTypes.cfg`; `Scrollback`'s is a
conjunct of `StoredInv`, and `Attach`'s is part of its runs. All are proved.

### Departures of the code from what it says

One is listed as a run that expects a violation, `TerminalAttachEnd` (`EndIsTold`): when
a session ends its writer sends `FrameEnded` and closes the connection. A key, a
window change or the client's first `sendSize` then fails with a broken pipe. If
`runTerminalAttach` selects that error first, it closes the stream with
`FrameEnded` and the output before it unread, finishes as aborted, prints nothing
and returns the write error. Through a transport the same write fails in
`Bridge`'s inbound copy, which closes the connection and with it what the
outbound copy had still to read. (`intent/attach.md:140`: "Closes automatically
when the session ends or disconnects and prints a one-line outcome message".)

The others reproduce the same way with `tlc -config X.cfg M`. Of the daemon and
of the library's calls:

- `ScrollbackHeadLost` (`MCScrollback`, `HeadIsKept`): `Snapshot` appends `chunkBuf`
  to the tail and trims the result to `tailSize` (`store.go:174-183`) even while
  `chunkBuf` holds the start of the stream that will become the head, and loses
  the first bytes of a short history (`store.go:2`: "the first headSize bytes are
  kept verbatim").
- `AttachLateJoin` (`MCAttach`, `NobodyLeftBehind`): `serveAttach` checks `s.ended`,
  releases `s.mu`, acknowledges and only then joins `s.attachers`; a client that
  passes the check before the reap and joins after `endAttachers` copied the set
  never gets `FrameEnded` (`daemon.go:177-179`).
- `AttachOutputLost` (`MCAttach`): a Resize that arrives after the PTY is closed
  makes `attachResize` fail, and the client is dropped with output still queued
  (`intent/bgx.md`: clients "will also receive all such output before closing").
- `SessionWaitMissing` (`MCSession`, `WaitFindsSession`): `Wait` looks for the
  record, then for the socket (`command_api.go:94-106`); the daemon writes the one
  and removes the other in between, and an ended session is reported missing
  (`command_api.go:84`: "returns the exit result retained for an already-ended
  session").
- `SessionInfoMissing` (`MCSession`): `info` between listener close and record
  finds neither (the comment in `listen` rules out such a window).
- `RegistryRestart` (`MCRegistry`, `Reachable`): a `Start` of an id whose old daemon
  is still draining finds neither a live session nor a record and succeeds; the
  old daemon then removes the new one's socket (`start.go:119`: "returns the live
  session's metadata once it is reachable").
- `RegistryListing`: `listRunning` removes a socket path it found dead, after a
  new daemon bound it.
- `RegistryTimeout`: a `Start` that gives up unlocks while its daemon is not yet
  countable, and the next one passes the cap.
- `RegistrySpawnErrors`: `persistSpawnError` never prunes.
- `RegistryJustEnded`: a daemon whose record is no longer among the newest prunes
  it itself (`persist`: "The just-ended record is always kept").
- `RegistryStaleRecord`: `waitForSession` takes the record an older daemon of the
  same id has just written for its own.

Of the attach client:

- `TerminalAttachStuck` (`TerminalAttach`, `AttachAlwaysReturns`): `transportConn.Close`
  waits for `cmd.Wait` without a bound after the kill. A process that may not be
  killed, or a descendant of it that holds its stderr, keeps `Attach` from ever
  returning (`attach.go:225`: "gives it a grace period to exit [...], then kills it").
- `TerminalAttachLocal` (`DisconnectedIsRemote`): `remoteStreamTerminated` is set
  whatever error ended the frame goroutine, so a failure of the client's own while it
  handles a frame is told as "Disconnected" (`attachmodels.go:33`:
  "attachOutcomeAborted is a local failure: tear down silently").
- `PresentationCut` (`Presentation`, `PreAttachWhole`): `enterNative` scrolls by
  `physicalRows`, the height last applied. If the window has grown since, before the
  first output, the earlier screen is scrolled away only in part and the rest is
  drawn over (`attachmodels.go:348`: "scrolled into scrollback so it survives
  whatever the session draws").
- `KeyScanHeld` (`MCKeyScan`, `HeldCanGrow`): `ctrlBackslashPrefix` looks no further
  than the `;` or `:` after 92, so a complete key such as `ESC [ 92 ; 3 u` stays
  held until another Escape or the end of the input ("could still grow into a
  ctrl+\ keypress"); the timer covers a lone Escape only.
- `PresentationTitle` (`TitleRestored`): `finishIsolated` never pops the title that
  `enterNative` pushed, if auto mode went native first and ends in isolation.
- `PresentationRegion` (`RegionReleased`): an aborted isolated attachment leaves the
  alternate screen and not the scroll region, which is "terminal-wide rather than
  per screen" (`attachmodels.go:277`).
- `PresentationLeave` (`FailureUndone`): `leaveIsolated` records the native
  presentation before it writes the switch; if that write fails, `finishNative`
  goes by the emulator's screen and the terminal stays on the alternate one.
- `PresentationSize` (`SizeSettles`): `sendSize` reads the size before it takes
  `m.mu`; of two overlapping calls the older size may be applied, or sent, last.

Read off the code while modelling, allowed for by the properties: a cancellation that
comes between the look at `ctx` and the choice of the outcome's branch ends as
"Disconnected"; input read together with the detach key and before it is not
forwarded (`feed` returns no bytes for that read); a transport killed at the end of its grace
period makes a good detach return an error; a scroll region the session set is
not restored after a stay in isolation; `send` answers OK for input dropped at the
cap; `OverwriteID` removes the old record before the cap is checked; an
unterminated sequence holds all later output back, without a bound; a Device
Attributes query split across reads is not answered.

## Fairness

Safety runs assume none. The liveness runs assume weak fairness of what the Go
scheduler, the kernel or a timer drives: the pump's own steps and those of
`Session.run` (`outputDrainGrace` and `connDrainGrace` are timers, and a read or
write of the PTY returns once it is closed), reaping, the two steps of the kill
ladder after the mark, death by SIGKILL, and the scrollback's drain. Nothing is
assumed of commands (they may ignore input and SIGHUP and run for ever), of
clients, or of hung callers (`Slow`): a client that reads enters only as a
hypothesis of `ClientCatchesUp`, and a caller outside `Slow` takes its answer.
`Registry` assumes strong fairness of `Lock`: `flock` grants the lock to a waiter
in time, though other callers take it in between. `KeyScan` assumes that a running
timer fires. `TerminalAttach` assumes weak fairness of each goroutine of the client
and of `Bridge`, of the closing of the stream with its grace timer, and of the
daemon's reader; nobody has to type, to write output, to fail, or to end the
session. `AttachReturns` therefore starts from a cause of the end (`Over`), and asks
for a transport that can be killed and reaped: nothing in the code bounds the wait
for any other.

## Proofs

Each theorem holds for every value of the constants that satisfies the named
assumptions of the component's module; what a theorem assumes beyond them is said
below. None of the properties is inductive as it stands, so each proof has an
invariant of its own, which TLC checked on the run's instance before it was proved.

### Attach (`AttachProof`)

`TypeOK`, `StreamTiles`, `EndedIsLast`, `SnapshotAtBoundary` and `ScreenNeverGoesBack`,
for any set of clients, any positive backlog capacity, any bound on the output and any set of boundaries
that contains 0.

`StreamInv` adds, for every client that is connected and whose re-sync has not
failed, `Chain(c)`: what it shows, then what its writer holds, then a pending
snapshot, then its backlog form one chain in which every frame starts where the one
before ends (`InflightOK`, `BufOK`), and the chain's end is the terminal's position,
or, for a client `fanout` has still to serve, the start of the chunk being delivered
(`EndOK`). That last clause is what makes joining in the middle of a shutdown,
skipping forward and leaving harmless. It needs the pump's side (`PumpInv`): the
terminal stands at a boundary until EOF, and nothing is rendered once the session is
ending, so that an ended frame stands at the very end. `FreshIsEmpty` says a
connection that has not joined has no queue, `WriterHolds` ties the writer's program
counter to its frame.

The proof is split by party: each of `PumpSound`, `HandlerSound`, `WriterSound` and
`RunSound` shows that a client's chain survives the steps of one goroutine;
`ChainUntouched` covers the steps of other clients; `LinkedAppend` and `LinkedTail`
are the facts about appending to and taking from a linked backlog.

On top of it `BacklogIsBounded` counts: output stops at `Cap`, and `Extra(c)` says
which of the two other frames may already be queued. `NoSilentHangup` follows from
`ConnOK`, which ties a closed connection to where its handler and its writer stand.
`RefinesOutputStream` shows that every step of `Attach` is a step of `OutputStream`
or changes nothing it can see. It assumes `~SnapshotMayFail`: after a failed snapshot
the code drops the client's queue and lets live output go on (`Skipped`), which
`OutputStream` has no step for; the run makes the same assumption.

### Scrollback (`ScrollbackProof`)

`StoredInv`, `HistoryIsHonest`, `TailIsKept` and `CutsAtBoundaries`, for any head, tail
and chunk sizes, any boundaries that include 0, and storage that may fail. The
invariant (`DrainInv`) says what the drain leaves behind whenever it has released
the lock: the chunk being stored is a non-empty front of `chunkBuf` that ends at a
boundary (`FlushInv`), a store that is not busy has nothing pending (`IdleInv`, which
is why a snapshot that waited is current), and, until the backend fails, every list
starts and ends at boundaries and the tail either continues the head or holds
`TailSize` bytes (`BoundaryInv`, `KeptInv`).

### Boundary scanner (`VTScanProof`)

`CutIsExact`, `CutIsNearest` and `TrimIsSafe`, for streams of any length over any of the
byte classes, in reads of any size, and for every target and every amount to trim.
`Scanned(s, buf)` is the sequence of states `Advance` goes through. That it exists and
is determined is `Ladder`, proved once for any step function (`ScannedIs` and the turns
of `boundaryCut` are instances). `ScannerIsExact` is the heart: at every position the
scanner is at ground with nothing pending exactly where the reference, which looks back
for the last ESC, its introducer and the byte that ends its kind of sequence, sees a
boundary. `Tracks` is the strengthening it needs, as "at ground" alone says nothing
about the next byte: inside a sequence the state is one of its introducer's kind
(`KindStates`), outside the pending count is what the last lead byte still lacks
(`Missing`). `TracksNext` takes it over one byte.

`RenderInv` then says that the state `feedTerm` carries from read to read is the one a
single pass gives, and that no boundary is left unrendered; `SafeCutIs` is what a
read contributes. `boundaryCut` stops before the end of its buffer, so `Knows` says
what its loop knows after each turn: while it runs, the best boundary so far, and once
it has stopped, that no later boundary can be nearer.

### Session (`SessionProof`)

`TypeOK`, `OutcomeAgrees`, `RecordIsComplete`, `InputInOrder` and `SocketUntilRecord`, for
any callers with any operations and every failure. `LifeInv` ties the phase of
`Session.run` to the command, the pumps and the files. `ToldInv` says that whatever
reports an ended session, an answer on its way included, has the final exit status
and killed flag: the flag cannot change after `ended`, because the kill ladder marks
it under the same lock that `reap` takes. `QueueInv` has the bytes written and then
those queued numbered from one on, with the pump's copy at the front of the queue,
which is what makes it sound to remove the bytes after the write.

### Registry (`RegistryProof`)

`TypeOK` and `RetentionBounded` without a further assumption. `HistoryBesideRecord`
assumes `DistinctIds`, that no two starts ask for one id, and `Reachable` and
`CapRespected` also `Orderly`, that no `Start` is abandoned and no listing runs without
the lock. `RegistryRestart`, `RegistryTimeout` and `RegistryListing` are the
counterexamples without them, so these theorems say exactly how far the code's
promises reach; `RegistryFiles` checks the same with three
sessions, the proof has any finite number, any cap and any retention count.

`DiskInv` says per session whose files stand where, from the first `WriteFile` to the
end of the pruning (`FileOK`, `PruneOK`), and that what a daemon has listed had been
opened by its owner: it may be chosen while it is still being written, as its file time
may be older than other records' ends, but a writer does not bring back a record
that has been deleted, and a history goes only after its record (`VictimOK`).
Retention is the hard one: daemons choose their victims from directories read at
different moments, by dates that may not agree, and may fail or die before they
removed them. `RetainInv` does not speak of dates at all. It says that among any
daemons that have listed the records there is one (the last to do so) that has seen
the records of all the others, so that what it leaves is at most `Keep` records beside
those of daemons outside the set; it is closed under deaths because it speaks of
every subset. For the cap, `CountInv` says that while `Start` counts under the lock, each
active session is either counted already or still has its socket to be looked at
(`ScanOK`), and that the lock is held until a spawned daemon can be counted (`LockOK`).
`Least`, the least element of a set of naturals, is where induction enters.

### Attach client (`TerminalAttachProof`)

`NothingLeftBehind`, `NilMeansOver` and `OutcomeIsTrue`, for any routes, transports (also
those that cannot be killed), faults, pipe capacity and bounds. `AttachInv` ties the five goroutines together: which run in which part of
`runTerminalAttach` (`GoInv`), that the client's ends of the stream are open until
the client closes it, which before the join only a cancellation does (`CloseInv`),
what an error a goroutine holds says about what befell the attachment (`ErrInv`),
and that a loop which left without an error to return has a reason that is none
(`Justified` in `LoopInv`). The last is the argument behind
`withoutExpectedAttachShutdownErrors`: an error it drops can only come from the
teardown.

`OutcomeIsTrue` needs the frames as well as the errors. `TruthInv` adds to `AttachInv`
what travels from the session to the client, in two stretches when there is a
transport: `Far`, written by the session, and `Near`, passed on by the bridge.
`SessionInv` says what a session that has not answered and a client that has not asked
can have done. `OrderInv` has `FrameEnded` last in the stream, and nothing left behind
the bridge once it has passed it. `CountInv` balances the books: while the connections
are open, the frames the client handled and the frames still on the way are the frames
the session wrote. `LossInv` says that `FrameEnded` stays in the stream until the client
closes it, unless the user, the caller or a failure ended the attachment. `ReasonInv`
is why each goroutine has ended, and `VerdictInv` what the main loop may conclude from
it: `FrameCause` is all that can make the frame reader stop first. The first four are preserved together (`StreamStep`, one lemma per kind of step);
`ReasonStep` and `VerdictStep` use them and `AttachInv`.

### Detach key (`KeyScanProof`)

`InputForwarded` for any inputs, in reads of any length, with the timer at any moment,
and `DetachIsExact` for inputs in which every press writes its key code as 92
(`PlainKeypresses`, which TLC evaluates on the inputs of the run). The hypothesis is
what the code needs: `keypressWithMod` reads the number, so that `092`, or a number
that wraps in `uint32`, is the same key in one read; `ctrlBackslashPrefix` compares the
digits, so that the same key split over two reads is forwarded. Terminals write 92.

Parser and reference are brought together by `Parse`, a press in place: where its
fields start and end in the buffer. `ScannerAccepts` and `ScannerSound` show that
`keypressWithMod` succeeds exactly there, `PressIs` that the reference, asked of the bytes
cut out (`Spells`), says the same. `NoEscInside` is why looking at the last ESC is
enough: a press has no other ESC, so a press that is not complete must start at the
last one; and `ctrlBackslashPrefix` accepts every front of such a press.

`InputForwarded` is itself inductive with what the timer adds (`KeyInv`): what was sent
followed by what is held back is what was read, what is held is a beginning of the
key (`Fragment`), and the read that completes the key is dropped whole, so that a
detach loses what was held and that read, and nothing read before it. `NoneLost` is the
strengthening for the key: no byte that has been sent starts a press, in all that
will ever be typed, unless the timer released it. It speaks of input that has not been
read, which is what makes it inductive.

### Attach TUI (`PresentationProof`)

`ScreenSettles`, `TerminalLeftUsable` and `PreAttachSurvives`, for any modes, heights,
amount of output, number of resizes and number of failed writes (the run has one).
`ShowInv` has one part per concern. `LockInv` says who holds `m.mu` in which phase.
`ViewInv` has a view exactly on the alternate screen of the isolated presentation;
without one, entering it failed and the attachment is ending. `PaintInv` is the race of
the painter: a view that is not marked dirty has been painted, or the size the painter
read is the view's and the screen it dumped is the emulator's, except while the one
who changed the emulator still holds `m.mu` and has yet to mark the view (`Stale`).
`NativeInv` says that a native terminal lags behind the emulator by exactly the piece
the frame reader is about to forward, in its text, its screen and its modes.
`PreInv` has the terminal drawn on only after it was scrolled, and the hint recorded
wherever it stands; `ScreenInv` says which screen is active unless leaving the
alternate one failed. `CutInv`, proved on top, is why the earlier screen is scrolled away whole unless the
window has grown: while it only shrinks, a height that was read is never too small, and
nothing is drawn before the first `sendSize` has been applied (`Sized`).
The steps are proved by who takes them: the painter, a
`sendSize` and the window disturb only sizes and painting (`AsideKeeps`,
`AsidePaints`); the native writes share `ShownShows` and `FailShows`; `FinishGives`
establishes what is left, and `DoneStays` shows that nothing runs after it.

### Only model-checked

Liveness under fairness is outside the prover's reach: `ShutdownCompletes` (of `Attach`
and of `Session`), `ClientCatchesUp`, `SnapshotReturns`, `KillTerminates`,
`AcceptedIsAnswered`, `EveryStartReturns`, `EscapeIsForwarded` and `AttachReturns`. Every safety invariant of the runs is
a theorem as well. Induction over data, which the scanners need, is used as a fact
about sets: a set of naturals with 0 that is closed under successor is all of them
(`Induct`, from the least element that well-foundedness gives), so that what is proved
by induction is stated as membership in a set.

## Not modelled, and abstractions to know of

- Writing to the emulator never fails; its content is the position it was fed to.
- The daemon's window sizes: `applyMinSize` computes the minimum under `s.mu` and
  applies it after, so two resizes may apply in the other order. A module of this
  would state only that; it is a hazard without a property.
- Device Attributes answers: a pure scan of one read (`daemon/da.go`).
- Input typed by attached clients on the daemon's side goes through `queueInput`,
  which `Session` has.
- Of the attach client: validation of options; the classification of a failed
  attachment by the record or by the transport's stderr, which changes no state;
  widths, cursor positions, colours and wording; a terminal that does not know its
  size; the emulator failing to render. A write to a pipe is one message, so
  partial frames are not modelled: a torn frame reads as the end of the stream.
- Terminal primitives, directories, daemonization and the command line: wrappers of
  system calls and printing, with no state that outlives a call.
- The decoder of the scrollback may be closed while a late `Snapshot` decodes; the
  library's own locking is not modelled, only that the snapshot then has an error or
  the bytes.
- A failing `os.Remove` in `pruneRetention` for any reason but an absent file: the
  code joins the error and goes on with the next file, so a record could stay whose
  history went. Both lie in one directory; the model's removals succeed.
- A connection that stays open and is not read blocks its writer: the model's
  writer simply does not step. The size of socket buffers is not modelled.
- Compression of chunks and the fallback to raw chunks: both decode to the bytes.
- Cancellation of a request by its caller is the caller leaving its answer unread.
- Durations: a timer may fire at any moment after it is started.
- Malformed requests and unknown operations, which change no state.

## Plan

`listEnded` and the merged listing over `Registry`; the daemon's window sizes.
