# A TLA+ model of pulumilsp

pulumilsp is a language server: it loads a Pulumi workspace, runs `pulumi preview` whenever a
file is saved, and turns the policy violations found in the preview's gRPC log into diagnostics.
This directory holds TLA+ modules that model its concurrent core, TLC configurations that check
them on small instances, and proofs of the safety properties for every value of the constants.
Paths below are relative to `src/`; line numbers refer to the commit in this repository.

## 1. Inventory

| component | code | state | operations | how it interacts |
|---|---|---|---|---|
| connection, stream | `rpc/conn.go`, `stream.go`, `messages.go`, `wire.go`; `lsp/protocol.go` (`clientConn`, `cancelCall`) | `seq`, `pending` (ID to response channel), the two pipes | `Call`, `Notify`, `Run`, the replier, `headerStream.Write` | every other component sends through it; `Run` calls the handlers *in its own goroutine* |
| dispatch | `lsp/server.go`, `lsp/protocol.go`, `rpc/handler.go` | which request has been replied to | `ServerHandler`, `serverDispatch`, the replier | between `Run` and the server |
| server lifecycle | `server/initialize.go`, `server/server.go`, `cmd/pulumilsp/main.go` | `state`, `stateMu`, the exit code | `Initialize`, `Initialized`, `Shutdown`, `Exit`, the deferred `Shutdown` of `main` | starts `initializeView`; ends all work |
| view and snapshots | `server/view.go`, `snapshot.go`, `server.go` | `view`, `view.snapshot`, `refcount`, `snapshotWG` | `createView`, `View.Snapshot`, `Acquire`, `decref`, `invalidateViewLocked`, `View.shutdown` | every run holds a reference; `Shutdown` waits for all of them |
| initial load | `server/snapshot.go` | `initialWorkspaceLoad`, `initializationSema`, `initialized`, `initialErr`, `pulumicmdRunner` | `initialize`, `AwaitInitialized`, `initializeWorkspace`, `clone` | goroutine of `createView`; awaited by run 0 and by every document notification |
| document notifications | `server/textdocument*.go` | `lastModificationID`, `cancelPrevDiagnostics` | `didModifyFiles`, `updateViewsToDiagnose` | replaces the snapshot, cancels the previous run, starts the next |
| diagnostics runs | `server/diagnostics.go` | `diagnosticsSema`, `diagnosticsMu`, `diagnostics`, `criticalErrorStatus` | `diagnose`, `updateDiagnostics`, `updateCriticalErrorStatus` | calls the runner, the parser, the client |
| progress tracker | `server/progress.go` | `inProgress`, `supportsWorkDoneProgress` | `Start`, `End` | a request to the client for every work |
| preview runner, log forwarding | `pulumicommand/command.go`, `run.go` | two semaphores, the log file, `ResourceStore`, `done` | `Runner.Run`, `run`, `watchFile`, `processGrpcEvents`, `fileWatcher.Close` | external: the `pulumi` process and `nxadm/tail` |
| file cache | `server/snapshot.go` (`files`), `fs_overlay.go`, `file/file.go` | `Snapshot.files` | `ReadFile`, `mustReadFile`, `fileMap.clone` | read by runs and by `GetCapturesFromURI`, replaced by notifications |
| diagnostics of a preview | `server/diagnostics.go` `diagnose`, `diagnostic.go`, `run.go` handlers | the `ResourceStore` map, `fileCaptures` | the three event handlers, `diagnose`, `findCaptureWithStartLine` | fed by the log of a preview, asks the view for files |
| parser | `parser/parse.go` | a tree-sitter parser and query | `Parse`, `Close` | used by runs, closed by `Shutdown` |
| code actions, AI client | `server/textdocument_codeaction.go`, `ai/` | none | `ResolveCodeAction`, HTTP requests with a deadline | in the read loop; not advertised to clients |
| logger | `logger/`, `debug/` | a queue of 100 messages; the preformatted bytes and unopened groups of every logger | `WithGroup`, `WithAttrs`, `Handle`, `Log`, its goroutine | sends `window/logMessage`; called by all |
| VS Code extension, build files | `editors/vscode`, `projenrc*` | none | starts the server | `vscode-languageclient` |

**What is hard here.** One goroutine reads messages, runs every handler and is the only one that
takes in responses: whatever a handler waits for must not depend on a response. Snapshots live on
reference counts that are raised and lowered by up to five kinds of goroutine, and a wait group
over them is what `Shutdown` waits for. Runs of different notifications get the one diagnostics
slot in any order, are cancelled by contexts that reach some waits and not others, and publish
under a mutex. A preview is a process whose log is read by one goroutine, handed over an
unbuffered channel to a second, while a third waits for the first. `PROJECT.json` lists each
hazard at its line.

**What makes each component correct.**

- snapshots: counts equal the references that are out; the assertions `non-positive refs` never
  fail; a destroyed snapshot stays destroyed; a zero wait group means nothing is in use.
- session: no work after `shutdown` is answered; results of notifications appear in order (the
  initial run's do not); an update covers every file; the last save is published; a failed load is
  shown; `shutdown` is answered, under the conditions of section 3.
- connection: a response reaches its own caller; the read loop never blocks on a delivery; calls
  return; messages on the wire are whole.
- preview runner: a preview logs to the file that its run reads; no event is lost but possibly
  the last; a cancelled run leaves the queue; a run returns.
- lifecycle, progress: no call is replied to twice, and every call is replied to but for code
  actions and unknown methods; a handler returns, but for the waits of `Stuck`; what a run tells
  the client it has begun it ends, unless its preview is wedged; a `Shutdown` that has returned, the
  handler or the one that `main` defers, leaves no save's work open. The exit code promises less:
  when a panicked `Shutdown` has already set the state, `main`'s returns at once, and the process may
  exit 0 without anything having been shut down.
- file cache: a snapshot never changes what it has read; when all changes have been notified, the
  current one is up to date.
- diagnostics of a preview: the store says what the log says, in whatever order the log says it; a
  run reports all that the store has on the files it can parse, and panics for known reasons only.
- logger: nothing one logger is told gets into another; records are sent whole and in order; a
  full queue only delays.

## 2. Modules

```
Snapshots ----INSTANCE---- Session        Files ----INSTANCE---- Diagnose
    |                         |                                      |
SnapshotsProof            SessionProof                         DiagnoseProof
MCSnapshots               MCSession                            MCDiagnose

Server          Conn          PreviewRun          Logger
ServerProof     ConnProof     PreviewRunProof     LoggerProof
MCServer        MCConn        MCPreviewRun        MCLogger

Runner: the abstract runner, refined by PreviewRun, and as R by Session and Diagnose
```

### Snapshots

The lifetime of snapshots alone. A snapshot is its `sequenceID`; `held[h]` says which snapshot's
release function the place `h` of the program keeps. `CreateView` is `createView` (the load
goroutine and the caller get a reference each, `server.go:204` and `:209`), `Acquire` is
`View.Snapshot`, `Release` a call of the function that `Acquire` returned, `Replace` is the end of
`invalidateViewLocked`, `CloseView` is `View.shutdown`, `DropView` is `s.view = nil`. Each step is
one critical section of the code (`refMu`, `snapshotMu`). The module is the *abstract
specification* of snapshot handling: it says which steps are legal, not when they happen.

### Session

One session from the reply to `initialize` on. It instantiates Snapshots as `S` and uses its
actions, so the counts are part of its state.

- *The read loop* is `loop`: `ready` between messages, otherwise at a wait or between two steps
  that other goroutines can interleave with. `didModifyFiles` is `Modify` (up to the wait of
  `invalidateViewLocked`), `Invalidate` and `Schedule`; `Shutdown` is `Shutdown` (`View.shutdown`),
  `DropView` and `FinishShutdown` (`snapshotWG.Wait`).
- *The load goroutine* is `load`. `skipped` is a load cancelled before it took the semaphore: it
  returns before the deferred close of `initialWorkspaceLoad` exists.
- *The runs* are `pc`: run 0 is `initializeView`, run m the goroutine of the m-th notification.
  Their steps follow `diagnoseChangedView`, `diagnose` and `updateDiagnostics` from wait to wait.
- Locks and semaphores that only say who is where are read off the program counters:
  `diagnosticsSema` is `SlotFree`, `snapshotMu` `SnapshotMuFree`, `diagnosticsMu`
  `DiagnosticsMuFree`. `Cancelled` is the context of a run: `updateViewsToDiagnose` cancels the
  previous notification's, and nobody cancels the initial run's. `view.go:28` and `:43` are the
  two ways a view is gone, closed and dropped.
- A result is the number of the snapshot it was computed for. `latest[u]` is a history variable,
  the newest result that was ever sent for a file. `found[d]` are the files with
  diagnostics, `tracked` the keys of `server.diagnostics`, `recorded` and `shown` what was last
  stored and last sent for a file.
- Nil dereferences the code can reach are `Crash`; the process is gone then. `Shutdown` without a
  view panics after `state` was set (`server.go:270`).
- Assumption on the client: it sends document notifications only between `initialized` and
  `shutdown`, as the protocol asks. Its answers to progress requests come in any order and need
  the read loop. Error answers are Conn's subject.

### Conn

Goroutines that may call or notify once, the read loop, and the client. A message leaves as two
writes. `Call` is `TakeID`, `Register`, the writes, `AwaitResponse`, `Receive`, `Return`; `Run` is
`Read` and `Deliver`. `conn.pending` is `Registered`, read off the program counters because
register and deferred delete bracket a part of `Call`. The client answers calls in any order,
even cancelled ones. The `$/cancelRequest` of `cancelCall` carries no number: it encodes `&id` of an
interface that holds an `rpc.ID`, whose fields are unexported (`lsp/protocol.go:69`), so the client
cannot know what is cancelled.

### PreviewRun

`Runner.Run` with its two semaphores, `run`, the forwarder of `watchFile` and
`processGrpcEvents`. Lines are counted: written by the preview, taken by the forwarder, handled.
`Setup` to `StartPreview` are two steps because the name of the log file goes through the
environment that all previews of the stack share.

### Runner

The *abstract specification* of `Runner.Run`, for its callers: a call is waiting, running or
returned, one runs at a time, any may be refused, and the store that a call fills gets one event at
most after the call has returned. It is what three modules agree on. PreviewRun implements it
(`KeepsRunner`: `Stage` maps the program counter, `Owed` is what has been logged and not
handled when the call has returned). Session uses it: its runs never ask for more
than one preview at a time, and `Wedge` is a call that stays `running`. Diagnose fills one store by
it, with `HandleLateEvent` as `StoreLate`.

### Server

The process as the client sees it. The client is arbitrary here: any request or notification, at
any time, with parameters that can be decoded or not. One message is in hand (`req`), `replies`
counts what the replier has written for it, `loop` is where the read loop is with it.

- *Dispatch* is `Receive`, one action per handler, `Ignore` for the methods that are taken as
  handled without a reply, `Answer`, `NextMessage`. A panic of the read loop first runs the
  deferred close of `conn.done` (`LoopPanic`); any other panic ends the process (`Panic`).
- *`stateMu`* needs no owner but `leaked`: a lifecycle handler runs to its end in the read loop,
  and the error return of `Initialize` never unlocks.
- *Progress* is `work`: a `WorkDone` is being created by a request to the client, has begun, is a
  message, or has ended. Works are the runs, the error status of the workspace and the fix of a
  code action. `Created` needs a read loop that is back at reading.
- *Runs* have the steps in which they start or end progress or hold a snapshot; what they compute
  is Session's and Diagnose's subject. `DidModify` is both document notifications, which differ
  only in what runs after them: each cancels the run of the one before. `NoFile` is one that names
  a document without a file. `EndPreview` is the return of `Runner.Run`, and `Wedge` the `Close` of
  a cancelled run that waits for ever (`run.go:247-262`, finding 4), with the slot, the snapshot and
  the work it holds.
- *The end of the process* is a race: after a panic of the read loop the runtime
  (`FatalPanic`) and the deferred `Shutdown` of `main` (`MainShutdown`, `MainDropView`,
  `MainReturn`) both run, and the first decides the exit code.

### Files

The file cache: what is on disk, the notification in hand with the handle it has read
(`didModifyFiles` reads before it waits for the load), and the map of every snapshot. `OldFiles`
is what a clone leaves of its predecessor's map. A read that failed is a handle like any other.

### Diagnose

From the events of one preview to the diagnostics of every file, composed with Files (`F`).
`Handle` is what the three gRPC handlers do to the `ResourceStore`; the diagnostics of an
event are known by its place in the log, so that a property can tell which of them are lost.
`EndPreview` and `Close` are the two moments at which `run` reads the map (nil before the first
event) and `diagnose` begins. `Visit` is the body of its loop for any resource that is left, since
Go iterates over maps in any order: the position that is dereferenced for a log message, the
captures that are looked up in the view's *current* snapshot and kept for the file, the line
that is not found. `HandleLateEvent` is the one event that `processGrpcEvents` may still have in
hand: Go detects, or not, that the map is written during an iteration. `where` is where the
program creates every resource; events are built from it, so a log that no program can produce is
not considered. *Odd* events are those without a position or with one that is in no file
(`NoPosition`, `NoFile`), and those with an enforcement level that is none of the four (`known` are
the resources whose level is). A run also ends early: `Cancel` is its context, whose error makes
`ReadFile` fail and the file be skipped (`LookUpFails`), and `Shutdown` closes the view under it,
after which a lookup calls a nil release function (`LookUpPanics`, finding 2).

### Logger

Loggers are derived from each other by `WithGroup` and `WithAttrs` and go from goroutine to
goroutine in contexts. Their preformatted bytes are modelled as Go slices, an array in
`heap` with a length: `append` writes in place when there is room, and `RoomIn` is what
`slices.Clip` leaves. `Log` makes a record, `Enqueue` is the send on `logQueue`, `Take` and `Send`
are the one goroutine that `startLogSenderOnce` starts.

## 3. Runs

Passing runs:

| run | checks | instance |
|---|---|---|
| `snapshots` | `IInv` (types, exact counts, exact wait group), `RefsPositive`, `DrainedMeansUnheld`, `NeverRevived` | 4 symmetric holders, sequence IDs 0..3 |
| `session` | `TypeOK`, `HoldsWhileWorking`, `NoWorkAfterShutdown`, `SaveResultsInOrder`, `UpdateCoversAll`, `KeepsSnapshots` (refinement of Snapshots) | 2 notifications and run 0, 2 symmetric documents, work-done progress, wedged previews and panics allowed |
| `session_live` | `LastSavePublished`, `FailedLoadShown`, `LoadedShutdownReturns` | 2 notifications, 1 document, no work-done progress, no wedged preview, fairness |
| `server` | `TypeOK`, `RepliedOnce`, `WorksMatchRuns`, `DrainedMeansEnded`, `HandlersReturn`, `WorksEnd` | 2 notifications and the initial run; an arbitrary client with and without work-done progress and with and without a workspace; wedged previews; fairness |
| `diagnose` | `TypeOK`, `StoreMatchesLog`, `ReportsComplete`, `PanicExplained`, `ConsistentUnderRun`, `StableUnderRun` | 2 symmetric resources in 1 file of 2 versions, 3 events of which 1 is odd, 1 disturbance (the file changes, the run is cancelled or the view is shut down), 2 snapshots |
| `logger` | `TypeOK`, `LoggersIntact`, `RecordsComplete`, `InOrder`, `BurstSent` | 2 goroutines, 3 groups or attributes, 2 records each, a queue of 1, arrays with room for 1 more than needed; fairness |
| `conn` | `TypeOK`, `OwnResponse`, `LoopNeverBlocks`, `CallsReturn`, `LoopReturns` | 2 goroutines, one of them cancelled or notifying instead; 1 client request whose handler may call; error responses; fairness |
| `preview` | `TypeOK`, `OwnLog`, `KeepsRunner` (refinement of Runner), `CancelledLeavesQueue`, `RunReturns` | 2 runs that may be cancelled, 2 log lines each, fairness |

*Bounds.* `MaxMods` (notifications), `MaxSeq` (snapshots), `MaxRequests`, `MaxLines`, `MaxEvents`,
`MaxOdd`, `MaxChanges` (in Diagnose: of files, and cancellations and shutdowns counted with them), `MaxGiven`, `MaxRecords` and `MaxSpare` are the only caps. With two notifications and the initial run there are three runs: one in the slot, one
queued behind it, one being scheduled; a run can be cancelled, be overtaken by a later one and
meet shutdown at every point, and a save can be followed or preceded by an open. Two documents
let one be named by a notification and one be found by a preview only, and let an update be
interrupted between files. Two calls are what it takes to swap answers or to interleave two
frames. Two log lines let one be handled while the next is in the forwarder's hands. Four holders
exceed the two per run that any snapshot sees at once at a replacement. Notifications
beyond `MaxMods` are answered as if they changed nothing, so the client of Server never falls silent.
Three events are a registration, an analysis and a stack policy in any order, or two of one
kind with another between; two resources meet in one file, where one of the two versions has a
line that cannot be parsed for. One change lets a file be stale, not change back: that a file
that comes back is read again is shown by `ConsistentUnderRun` only through its theorem,
`CachesCatchUp`, for any number of changes. With two files the run exceeds its time; the proofs of section 4
cover any number. A queue of one is full as soon as the sender is busy.

*Deadlock* is not checked: every system modelled here may come to rest (the client need not send
anything).

*Fairness.* Weak fairness of every goroutine's steps, which is what the Go scheduler gives: a
goroutine that stays runnable runs. No lock or semaphore needs more, since the properties hold
whoever gets it. It also says that a preview and a load end, that the client answers
requests (`Answer`, `PeerAnswer`), and that the pipe takes what is written. Nothing forces the
client to send, and nothing forces a cancellation. Two are strongly fair. `Created`, the
client's answers to progress requests taken together: an answer needs the read loop between two messages, and since
messages are read in the order in which they arrive, no number of other messages keeps it from
being read. `Enqueue`, a goroutine at the full log queue: a Go channel serves those who wait in
turn. `Wedge` is a choice that nothing forces and nothing excludes. `WorksEnd` assumes that the read loop
keeps coming back and that the run is not `Blocked`, wedged itself or in the queue behind a wedged
run; `HandlersReturn` lists the waits that nothing ends (`Stuck`): a lifecycle request after
`stateMu` was leaked, a code action that waits for its own progress, and a `Shutdown` that waits for
a run whose progress only the read loop can start, for the run of a skipped load, or for a wedged
preview.

*What `session_live` leaves out.* With work-done progress or a wedged preview
`LoadedShutdownReturns` is false (findings), so this run excludes both, and says "Loaded" because a
load cancelled before it starts leaves run 0 waiting for ever (section 6).

### Findings

Each is a run that checks one statement the repository makes, and that TLC violates.

1. `shutdown_progress` - `Shutdown` "waits for all ongoing work to complete" in the read loop,
   and a run that waits for the answer to `window/workDoneProgress/create` waits for the read loop.
2. `panic_shutdown` - `View.Snapshot` promises an error for a view that is shut down, but a run
   that asks later finds `s.view` nil; `GetCapturesFromURI` calls a nil release function.
3. `frames` - `conn.write` takes no lock and a message is two writes, on a stream that
   "is not safe for concurrent use".
4. `preview_cancel` - a cancelled run stops `processGrpcEvents`; a forwarder that is sending then
   blocks, `done` is never closed, and neither `Close` nor `Run` returns.

## 4. Proofs

Proved for any finite set of holders and any bound on snapshots, from `HoldersAssumption`
and `MaxSeqAssumption` (`SnapshotsProof`):

- `CountsAlwaysExact`: `Spec => []IInv`. `IInv` is the inductive invariant: types;
  `CurrentIffOpen`; `NoneBeyond`, nothing counted beyond the current snapshot;
  `RefcountExact`, the count of a snapshot is the number of holders plus one for the view;
  `WGCountsLive`, the wait group counts the snapshots with a positive count. None of the results
  below is inductive alone: that a count is positive follows only from its being
  exact, and that a new snapshot starts from zero only from `NoneBeyond`.
- `NeverNonPositive` (`RefsPositive`), `WaitMeansUnheld` (`DrainedMeansUnheld`) and
  `DestroyedForever` (`NeverRevived`) follow from it.
- `WaitMeansHeld` is the converse of `WaitMeansUnheld`: after `View.shutdown` a wait group above
  zero means that somebody holds a snapshot, so `Shutdown` never waits for a lost count.

The lemmas count: adding or removing one holder changes the cardinality of `HoldersOf` by one, and
a snapshot that becomes or ceases to be live changes that of `Live` by one.

Proved for any number of notifications and any set of documents, from `MaxModsAssumption`
(`SessionProof`, which instantiates `SnapshotsProof` for the holders of a session, as `SP`):

- `SessionKeepsSnapshots` (`KeepsSnapshots`): a session refines Snapshots. The refinement mapping
  is the identity, so it comes down to a lemma about one step; with it everything proved about
  Snapshots holds of a session, in particular that a drained wait group means nothing is held.
- `SessionTypes`, `ReferencesMatchWork` (`HoldsWhileWorking`), `NothingWorksAfterShutdown`
  (`NoWorkAfterShutdown`), `ResultsInOrder` (`SaveResultsInOrder`) and `UpdatesComplete`
  (`UpdateCoversAll`).
- `SessionKeepsRunner` (`KeepsRunner` of Session): the runs of a session use the runner as Runner
  allows. `OneInSlot` shows that the diagnostics slot alone lets one preview in at a time; the
  runner's own semaphores are not needed for it.
- `NoOtherDeadlock`: a session that is not at rest can make a step, with three exceptions
  (`KnownWait`): `Shutdown` and a run whose progress request needs the read loop (finding 1), a
  preview that is never done (finding 4), and the initial run of a load that was cancelled before
  it began (section 6). This is what the liveness properties need besides fairness, and what needs
  all of the exact counts: a step that releases a reference is enabled only when the count is positive,
  and a drain ends because `WaitMeansHeld` leads to a holder that can move. The invariant for it is
  `WaitsForReason`. `ENABLED` is beyond the prover, so the guards are written out (`LoopCan`,
  `LoadCan`, `RunCan`, `AnswerCan`); TLC has found them equal to `ENABLED` of the actions in every
  state of the instances of `session` and `session_live`.

The inductive invariant `Inv` has five parts. `TypeOK` and `HoldsWhileWorking` (who holds a
reference is read off its program counter). `Phases`: the read loop, the view, the load and
`state` go together, and once shutdown has replied the view is dropped and the wait group zero.
It is inductive only with the facts from Snapshots: nobody who holds nothing can change the wait
group. `Order`: a run's snapshot is its notification's or a later one, and the newest that was ever
shown (`latest`) is no newer than the last notification, with one exception: a run that started
while the next notification was between replacing the snapshot and cancelling it. That exception is
why `SaveResultsInOrder` is not inductive alone. `Updates`: one run publishes at a time, and what it
has not to publish any more shows its result. TLC checks `HoldsWhileWorking` as it stands; the
remaining parts are lemmas of the proof.

Proved for any files, contents, resources and bounds, from Diagnose's assumptions
(`DiagnoseProof`):

- `DiagnoseTypes` (`TypeOK`), from which the rest starts.
- `RunKeepsFiles`: a run with everything around it refines Files (`KeepsFiles`). The mapping is
  the identity; the content is that `Remember` never writes what a snapshot has read already.
- `SnapshotsStable` (`StableUnderRun`) and `CachesCatchUp` (`ConsistentUnderRun`). The second is
  inductive with `FilesAgree`: a handle in hand, or in the current snapshot, of a file
  without an unread change is what is on disk.
- `PanicsExplained` (`PanicExplained`: a run that ends in a panic has one of the causes of `Panics` or
  `LateKey`), with `Undisturbed`: while no file has changed, whatever is cached, in the snapshot or
  in `captures`, comes from the content that the preview has executed. It rests on
  `StoreMatchesLog` too: the store knows the resources of the log (`Known`), so an event with a key
  that is new to the map is one on resources that nothing before it was about.
- `ReportsAreComplete` (`ReportsComplete`, for a run that is not cancelled), with `Before` (there are no reports before `diagnose`
  begins) and `AllSoFar`: the reports of a file are at any time all that is known of the resources
  *visited so far*, and a file that has not been read has had nothing to report. The disk may
  change and others may read meanwhile; what decides is that the snapshot's first read stays.
- `StoreFollowsLog` (`StoreMatchesLog`), for a log of any length. The property says what the list of
  a resource enumerates, in the order of the log, instead of selecting it from the log: so no
  induction over the log is needed, and one step appends one number to the list, empties it for a
  new `Analyze`, or leaves it. `LastsInLog` says that the last event of a kind is one of the log.
- `StoreFedByRunner` (`KeepsRunner` of Diagnose): what feeds the store, the late event included, is a
  call of Run as Runner promises it. With `RunnerRefined` this joins Diagnose to PreviewRun.

Proved for any number of runs and log lines, from `LinesAssumption` (`PreviewRunProof`):

- `PreviewTypes` (`TypeOK`), `LogsAreOwn` (`OwnLog`), `RunnerRefined` (`KeepsRunner`: PreviewRun
  implements Runner, a step for a step or a stutter) and `EventsHandled` (`AllButLastHandled`: of what
  a preview has written one line at most is not in the store when Run returns; the step of the
  refinement that maps to `Return` rests on the same facts).
  `OwnLog` follows from `OneInFlight` (the semaphore admits one run) and `LogsAgree` (whoever is
  about to start a preview is the one named in the environment that previews share).
  `AllButLastHandled` follows from `Counts` (a line that has been read is in the store, or in the
  forwarder's hands, or in the processor's) and `Stages` (a run is done only when its forwarder
  has stopped, or was never started).
- `CloseTerminates`: while `Close` waits, `Left` (a count of the steps the two goroutines still have
  to make) never grows, falls with each of their steps, and the next can always be made
  (`CloseMoves`, `CloseCountsDown`), unless the run was cancelled with the forwarder at the channel,
  the wait of finding 4. It is the part of `RunReturns` that is not fairness, for logs of any
  length.

Proved for any goroutines and any number of requests, from Conn's assumptions (`ConnProof`):

- `ConnTypes` (`TypeOK`), `ResponsesAreOwn` (`OwnResponse`) and `DeliveryNeverBlocks`
  (`LoopNeverBlocks`). The argument follows the number of a call: `Numbers` says it is given once,
  `AllOwned` that a message that bears it, wherever it is, comes from the goroutine that has it,
  and `Places` that it is at one of six places at most, and there once: being written, on the
  wire, owed by the client, in the inbox, in the read loop's hands, in the response channel. So a
  channel is empty when its one response is delivered, also when calls are cancelled between.
- `CallsNotForgotten` (`ExactlyOnce`): the number of a call that *waits* is at one of these places,
  and at exactly one, until the client was sent garbage (finding 3) or `Run` has panicked. `Places`
  gives "at most one"; "at least one" is `NeverLost`, with `WaitForCalls` (who waits has a
  number). The step that could break it is `Deliver`, which drops a response that nobody has
  registered for: a call that waits is still registered.

Proved for any number of notifications and any client, from `MaxModsAssumption` and `ClientAssumption`
(`ServerProof`):

- `ServerTypes` (`TypeOK`), `RepliesOnce` (`RepliedOnce`), `ProgressMatchesRuns`
  (`WorksMatchRuns`) and `ShutdownDrains` (`DrainedMeansEnded`). `Replies` says that a message has
  not been replied to while the loop is at it. `WorksFit` reads off a run's program counter
  whether it holds a snapshot and whether its work is open, and that the diagnostics slot admits
  one run: so a save whose work is open holds a snapshot, which is why a drained wait group means
  that its work has ended. `Begun` says which runs there can be, and `Ended` that a view that is
  gone stays unheld once the wait is over; it needs that only one of the read loop and `main`
  shuts down.
- `NoOtherDeadlock`: a server process that is not at rest can make a step of its own, whatever
  the client has sent, with five exceptions (`KnownWait`): a lifecycle request after `Initialize` has
  leaked `stateMu`, a code action that waits for its own progress, `Shutdown` and a run that waits for
  the read loop, the initial run of a skipped load, and a cancelled run whose preview is wedged
  (finding 4). As in a session the guards are written out,
  and TLC has found them equal to `ENABLED` on the instance of `server`.

Proved for any goroutines, capacity of the queue and number of loggers and records, from Logger's
assumptions (`LoggerProof`):

- `LoggerTypesHold` (`TypeOK`), `LoggersStayIntact` (`LoggersIntact`), `RecordsStayComplete`
  (`RecordsComplete`) and `RecordsInOrder` (`InOrder`). With the capacity clipped to the length
  `append` never writes to an array that exists, so the bytes of all other loggers are as they
  were. `Numbered` (of each goroutine, exactly the records after the last that was sent are on
  their way) and `Ordered` (those in hand come after those in the queue, and these after the one
  that is being sent) make the next record sent the next one made.

- `QueueNeverStuck`: whoever is at the queue, or in it, has room, a sender that is back, or one that
  is sending. It needs `Started` (nobody reaches the queue before the sender was started) and that
  the capacity is not zero, and is the part of `BurstSent` that is not fairness.

Only model-checked: the liveness properties, because the prover does neither fairness nor `ENABLED`
(`LastSavePublished`, `FailedLoadShown`, `LoadedShutdownReturns`, `CallsReturn`, `LoopReturns`,
`HandlersReturn`, `WorksEnd`, `BurstSent`, `CancelledLeavesQueue`, `RunReturns`). What safety can
say about them is proved: `NoOtherDeadlock` twice, `CallsNotForgotten`, `CloseTerminates`,
`WaitMeansHeld`, `QueueNeverStuck`. Every safety property of a passing run has a theorem. The
theorems without a run (`SessionKeepsRunner`, `StoreFedByRunner` and those just named) were model-checked
on the instances of the runs before they were proved.

## 5. Plan

All components that keep state are modelled, all safety properties of the runs are proved, and the
runner has an abstract specification that the three modules around it share. What is left is an
abstract connection (a call is open, answered or given up) that Conn refines and on which the
progress requests of Session and Server rest, and a measure like `Left` for a run that publishes.

## 6. Not checked, not modelled

Behaviours the modules have that a comment of the repository contradicts, found while stating the
properties named here, which exempt them and say so. They are disagreements like the findings of
section 3, without a run of their own:

- The initial run is never cancelled: when its preview is slower than that of a save it replaces the
  save's diagnostics by those of snapshot 0. A save is said to "cancel all still-running previous
  requests" because they "would be operating on stale data" (`server.go:250-251`), and a cancelled
  "snapshot background context" to mean that "we started diagnosing the next snapshot"
  (`diagnostics.go:109-110`). But no run has that context: a notification's has its own, and the
  initial run's is never cancelled, so the check lets it pass. `SaveResultsInOrder` leaves out the
  initial run's results, and only these: a save's are held against all that was sent before.
- `rpc/handler.go:31` says of the replier that it "must be called exactly once". Calls of
  `textDocument/codeAction` and of unknown methods get no reply (`lsp/server.go:112`, `:130`), because
  `serverDispatch` says it has handled them: `MethodNotFound`, "the standard method not found
  response" (`rpc/handler.go:38-41`), is never reached. `RepliedOnce` says what is left.
- `cancelCall` sends a cancel request that names no call (`lsp/protocol.go:69`), though the field is
  "The request id to cancel" (`:63`).

Other behaviours the modules have that may surprise, about which no comment or test says anything:

- A load that `View.shutdown` cancels before it took the semaphore never closes
  `initialWorkspaceLoad`: run 0 waits for it with an uncancellable context, and `Shutdown` for
  run 0 (`snapshot.go:76-79`, `server.go:273`).
- A run cancelled before its preview shows "Error loading workspace" (`diagnostics.go:188-195`).
- A `didOpen` cancels the run of the save before it and publishes nothing; `LastSavePublished`
  exempts it. The first save after a failed load ends the error status, because `clone` does not
  copy `initialErr`.
- A notification before the view exists dereferences nil (`server.go:238`). `Initialize` returns
  with `stateMu` locked when its options cannot be decoded (`initialize.go:31`). `Shutdown` without
  a view panics after it has set the state, and `main` may then exit 0 (`server.go:270`). `exit`
  after `shutdown` does nothing, and the end of the input is a panic of the read loop.
- An update cancelled between `f.viewDiagnostic =` and the write leaves a record of what was not
  sent (`diagnostics.go:123`); `UpdateCoversAll` says that the next whole update repairs it.
- Every error response of the client is undecodable (`wire.go`: an interface-typed field) and ends
  the process (`conn.go:136`); a handler that calls the client blocks the read loop
  (`textdocument_codeaction.go:52`, not advertised). `CallsReturn` and `LoopReturns` exempt both.
- `run` returns the store's map as it is before `Close` drains the log: nil when no event had been
  handled yet (`run.go:84`), and then nothing is reported (`ReportsComplete` says so).
- Many things end the process in `diagnose` (`Panics`, `LateKey`): a resource without a position
  (`diagnostics.go:205`); and for one that has diagnostics, a URI that is no file's
  (`lsp/server.go:18`), an enforcement level that is unknown (`diagnostics.go:290`), a line that is not
  that of a literal name, in the program or after an edit since the preview
  (`diagnostics.go:226-228`), and a view that is shut down (`server.go:46-47`, finding 2). A late event
  that adds a resource during the iteration is detected by the Go runtime.

Not modelled: the text of JSON values and headers, tree-sitter, the wording of diagnostics and of
prompts and how code is cut out of an AI service's answer (text processing without state), the
extension (it starts the server through a library) and the build files (generated); the events
between `pulumi` and its log file, which are the environment of PreviewRun and Diagnose.
