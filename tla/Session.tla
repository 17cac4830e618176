------------------------------- MODULE Session -------------------------------
(***************************************************************************)
(* One session of the language server, from the reply to "initialize" on:  *)
(* the read loop of rpc/conn.go, which runs every handler itself and is    *)
(* the only place where responses of the client are taken in; the          *)
(* goroutine of the initial workspace load; and the diagnostics runs, one  *)
(* for initializeView (run 0) and one for every document notification      *)
(* (run m, the m-th call of didModifyFiles).                               *)
(*                                                                         *)
(* A result is known by the sequenceID of the snapshot it was computed     *)
(* for.  The contexts, mutexes and semaphores of the code that hold no     *)
(* data of their own are read off the program counters: see Cancelled,     *)
(* SlotFree, SnapshotMuFree and DiagnosticsMuFree.  A panic of any         *)
(* goroutine ends the process: crashed.                                    *)
(***************************************************************************)
EXTENDS Integers, FiniteSets

CONSTANTS
  MaxMods,           \* bound: the number of document notifications
  URIs,              \* the documents of the workspace
  Kinds,             \* which notifications the client sends: "open", "save"
  SupportsProgress,  \* Tracker.supportsWorkDoneProgress
  LateLines,         \* a cancelled preview may leave log lines nobody reads
  LinesMatch         \* every diagnostic's line has a capture in the parsed file

ASSUME MaxModsAssumption == MaxMods \in Nat
ASSUME KindsAssumption   == Kinds \subseteq {"open", "save"}
ASSUME FlagsAssumption   == {SupportsProgress, LateLines, LinesMatch} \subseteq BOOLEAN

Mods == 1..MaxMods
Runs == 0..MaxMods

\* The places that keep the release function of a snapshot.
RunHolder(d)  == <<d, "run">>
FileHolder(d) == <<d, "file">>
Loader        == <<0, "load">>
Holders       == (Runs \X {"run", "file"}) \cup {Loader}

VARIABLES
  view, current, refcount, held, wg,  \* see Snapshots
  state,     \* server.state, from "initializing" on
  loop,      \* where the read loop is, see LoopStates
  lastMod,   \* server.lastModificationID
  cause,     \* the ModificationSource of every notification
  load,      \* the initial workspace load, see LoadStates
  pc,        \* where every diagnostics run is, see RunStates
  found,     \* the files a run has diagnostics for
  todo,      \* the files a run has still to parse, then to publish
  tracked,   \* DOMAIN of server.diagnostics
  recorded,  \* viewDiagnostic.snapshot of every file
  shown,     \* the snapshot of the last diagnostics sent for every file
  latest,    \* history: the newest snapshot whose diagnostics were ever sent
  critical,  \* server.criticalErrorStatus is not nil
  crashed    \* the process has panicked

snapVars == <<view, current, refcount, held, wg>>
loopVars == <<state, loop, lastMod, cause>>
runVars  == <<pc, found, todo>>
diagVars == <<tracked, recorded, shown, latest, critical>>
vars     == <<snapVars, loopVars, load, runVars, diagVars, crashed>>

S == INSTANCE Snapshots WITH MaxSeq <- MaxMods

States     == {"initializing", "initialized", "shutDown"}
\* "ready" for the next message, or in the middle of a handler: in
\* invalidateViewLocked "awaiting" the initial load, "replaced" the snapshot; in
\* Shutdown "closed" the view, "draining" snapshotWG.
LoopStates == {"ready", "awaiting", "replaced", "closed", "draining"}
LoadStates == {"none", "pending", "loading", "ok", "failed", "skipped"}
\* The states in which a run is inside diagnose, between taking and giving back
\* its diagnosticsSema slot.
SlotStates == {"checking", "starting", "previewing", "wedged", "capturing",
               "parsing", "reporting"}
\* The states in which a run has a snapshot.
WorkStates == SlotStates \cup {"creating", "awaiting", "queued", "updating", "publishing",
                               "ending"}
RunStates  == WorkStates \cup {"none", "spawned", "done"}

TypeOK ==
  /\ S!TypeOK
  /\ state \in States
  /\ loop \in LoopStates
  /\ lastMod \in 0..MaxMods
  /\ cause \in [Mods -> Kinds \cup {"none"}]
  /\ load \in LoadStates
  /\ pc \in [Runs -> RunStates]
  /\ found \in [Runs -> SUBSET URIs]
  /\ todo \in [Runs -> SUBSET URIs]
  /\ tracked \in SUBSET URIs
  /\ recorded \in [URIs -> S!Seqs \cup {S!NoSnap}]
  /\ shown \in [URIs -> S!Seqs \cup {S!NoSnap}]
  /\ latest \in [URIs -> S!Seqs \cup {S!NoSnap}]
  /\ critical \in BOOLEAN
  /\ crashed \in BOOLEAN

Init ==
  /\ S!Init
  /\ state = "initializing"
  /\ loop = "ready"
  /\ lastMod = 0
  /\ cause = [m \in Mods |-> "none"]
  /\ load = "none"
  /\ pc = [d \in Runs |-> "none"]
  /\ found = [d \in Runs |-> {}]
  /\ todo = [d \in Runs |-> {}]
  /\ tracked = {}
  /\ recorded = [u \in URIs |-> S!NoSnap]
  /\ shown = [u \in URIs |-> S!NoSnap]
  /\ latest = [u \in URIs |-> S!NoSnap]
  /\ critical = FALSE
  /\ crashed = FALSE

-----------------------------------------------------------------------------
(***************************************************************************)
(* What the code reads before it decides.  Each mutant before a definition *)
(* is a slip the code could have there.                                    *)
(***************************************************************************)
Cancelled_Never(d)   == FALSE
Cancelled_Current(d) == d # 0 /\ d <= lastMod
\* updateViewsToDiagnose cancels the context of the previous notification; the
\* context of the initial run is the read loop's and nobody cancels it.
Cancelled(d) == d # 0 /\ d < lastMod

\* view.initialWorkspaceLoad is closed: AwaitInitialized returns.
Loaded == load \in {"ok", "failed"}

InitialErr_Lost(s) == FALSE
\* Snapshot.InitializationError: clone copies the runner and initialized, not
\* initialErr, so that only the first snapshot can have one.
InitialErr(s) == s = 0 /\ load = "failed"

\* diagnosticsSema has room: New makes it with capacity concurrentAnalyses = 1.
SlotFree == \A d \in Runs : pc[d] \notin SlotStates

\* view.snapshotMu: invalidateViewLocked keeps it while it awaits the load.
SnapshotMuFree == loop # "awaiting"

DiagnosticsMuFree_Always == TRUE
\* diagnosticsMu: updateDiagnostics keeps it until everything is published.
DiagnosticsMuFree == \A d \in Runs : pc[d] # "publishing"

ToPublish_OnlyFound(d) == found[d]
\* updateDiagnostics: the files with diagnostics, and those without any whose
\* old ones must be cleared.
ToPublish(d) == found[d] \cup tracked

\* updateDiagnostics publishes the files with diagnostics first.
NextToPublish(d) == IF todo[d] \cap found[d] # {} THEN todo[d] \cap found[d] ELSE todo[d]

\* What follows Tracker.Start in a run: initializeView awaits the load before it
\* diagnoses, diagnoseChangedView diagnoses.
AfterStart(d) == IF d = 0 THEN "awaiting" ELSE "queued"

\* Tracker.Start: with work-done progress a request that the client answers,
\* otherwise a notification.
StartWork(d) == IF SupportsProgress THEN "creating" ELSE AfterStart(d)

AfterAcquire_Leaks(d) == IF cause[d] = "save" THEN StartWork(d) ELSE "done"
\* diagnoseChangedView: only a save goes on; release is deferred by then.
AfterAcquire(d) == IF cause[d] = "save" THEN StartWork(d) ELSE "ending"

Crash ==
  /\ crashed' = TRUE
  /\ UNCHANGED <<snapVars, loopVars, load, runVars, diagVars>>

GiveBack_Uncalled(h) ==
  held' = [held EXCEPT ![h] = S!NoSnap] /\ UNCHANGED <<view, current, refcount, wg>>
\* The release function kept at h is called.
GiveBack(h) == S!Release(h)

GoTo(d, p) == pc' = [pc EXCEPT ![d] = p]

\* updateCriticalErrorStatus: shows the first error, resolves it when there is
\* none, and then the run goes on at next. Showing one is a Tracker.Start; every
\* run that shows an error has nothing more to diagnose.
UpdateCritical(d, err, next) ==
  \/ /\ err /\ ~critical /\ SupportsProgress
     /\ GoTo(d, "reporting")
     /\ UNCHANGED critical
  \/ /\ ~(err /\ ~critical /\ SupportsProgress)
     /\ GoTo(d, next)
     /\ critical' = err

-----------------------------------------------------------------------------
(***************************************************************************)
(* The read loop.                                                          *)
(***************************************************************************)
\* Initialized: the view is made by a goroutine of its own, run 0.
Initialized ==
  /\ loop = "ready"
  /\ state = "initializing"
  /\ state' = "initialized"
  /\ GoTo(0, "spawned")
  /\ UNCHANGED <<snapVars, loop, lastMod, cause, load, found, todo, diagVars, crashed>>

\* didModifyFiles up to the wait in invalidateViewLocked. There is no view to
\* lock before initializeView has made it: a nil dereference.
Modify(kind, uri) ==
  /\ loop = "ready"
  /\ state = "initialized"
  /\ lastMod < MaxMods
  /\ DiagnosticsMuFree
  /\ IF view = "absent"
       THEN Crash
       ELSE /\ tracked' = tracked \cup {uri}
            /\ cause' = [cause EXCEPT ![lastMod + 1] = kind]
            /\ loop' = "awaiting"
            /\ UNCHANGED <<snapVars, state, lastMod, load, runVars,
                           recorded, shown, latest, critical, crashed>>

\* invalidateViewLocked once the load is over: the clone replaces the snapshot.
Invalidate ==
  /\ loop = "awaiting"
  /\ Loaded
  /\ S!Replace
  /\ loop' = "replaced"
  /\ UNCHANGED <<state, lastMod, cause, load, runVars, diagVars, crashed>>

\* updateViewsToDiagnose and the go statement of didModifyFiles.
Schedule ==
  /\ loop = "replaced"
  /\ lastMod' = lastMod + 1
  /\ GoTo(lastMod + 1, "spawned")
  /\ loop' = "ready"
  /\ UNCHANGED <<snapVars, state, cause, load, found, todo, diagVars, crashed>>

\* Shutdown and View.shutdown: s.view may be nil still, after the state is set.
Shutdown ==
  /\ loop = "ready"
  /\ state = "initialized"
  /\ state' = "shutDown"
  /\ IF view = "absent"
       THEN crashed' = TRUE /\ UNCHANGED <<snapVars, loop>>
       ELSE S!CloseView /\ loop' = "closed" /\ UNCHANGED crashed
  /\ UNCHANGED <<lastMod, cause, load, runVars, diagVars>>

\* Shutdown: s.view = nil.
DropView ==
  /\ loop = "closed"
  /\ S!DropView
  /\ loop' = "draining"
  /\ UNCHANGED <<state, lastMod, cause, load, runVars, diagVars, crashed>>

Drained_AtOnce == TRUE
\* snapshotWG.Wait returns.
Drained == wg = 0

\* Shutdown: the parser is closed and the reply sent.
FinishShutdown ==
  /\ loop = "draining"
  /\ Drained
  /\ loop' = "ready"
  /\ UNCHANGED <<snapVars, state, lastMod, cause, load, runVars, diagVars, crashed>>

-----------------------------------------------------------------------------
(***************************************************************************)
(* The goroutine of the initial workspace load.                            *)
(***************************************************************************)
\* Snapshot.initialize takes the semaphore, or returns because View.shutdown
\* has cancelled the load; with both ready, select takes either.
StartLoad ==
  /\ load = "pending"
  /\ \/ load' = "loading"
     \/ view \in {"closed", "dropped"} /\ load' = "skipped"
  /\ UNCHANGED <<snapVars, loopVars, runVars, diagVars, crashed>>

\* initializeWorkspace returns, and initialWorkspaceLoad is closed.
FinishLoad ==
  /\ load = "loading"
  /\ load' \in {"ok", "failed"}
  /\ UNCHANGED <<snapVars, loopVars, runVars, diagVars, crashed>>

\* The deferred bgRelease.
EndLoad ==
  /\ load \in {"ok", "failed", "skipped"}
  /\ GiveBack(Loader)
  /\ UNCHANGED <<loopVars, load, runVars, diagVars, crashed>>

-----------------------------------------------------------------------------
(***************************************************************************)
(* The diagnostics runs.                                                   *)
(***************************************************************************)
\* NewView, createView and the start of the load goroutine.
CreateView ==
  /\ pc[0] = "spawned"
  /\ S!CreateView(Loader, RunHolder(0))
  /\ load' = "pending"
  /\ GoTo(0, StartWork(0))
  /\ UNCHANGED <<loopVars, found, todo, diagVars, crashed>>

\* diagnoseChangedView: View.Snapshot returns an error once the view is closed;
\* after s.view = nil there is no view to ask.
GetSnapshot(d) ==
  /\ d # 0
  /\ pc[d] = "spawned"
  /\ SnapshotMuFree
  /\ \/ /\ S!Acquire(RunHolder(d))
        /\ GoTo(d, AfterAcquire(d))
        /\ UNCHANGED <<loopVars, load, found, todo, diagVars, crashed>>
     \/ /\ view = "closed"
        /\ GoTo(d, "done")
        /\ UNCHANGED <<snapVars, loopVars, load, found, todo, diagVars, crashed>>
     \/ /\ view = "dropped"
        /\ Crash

\* The client's answer to WorkDoneProgressCreate, taken in by the read loop.
WorkStarted(d) ==
  /\ pc[d] = "creating"
  /\ loop = "ready"
  /\ GoTo(d, AfterStart(d))
  /\ UNCHANGED <<snapVars, loopVars, load, found, todo, diagVars, crashed>>

\* initializeView: AwaitInitialized.
AwaitInitialized ==
  /\ pc[0] = "awaiting"
  /\ Loaded
  /\ GoTo(0, "queued")
  /\ UNCHANGED <<snapVars, loopVars, load, found, todo, diagVars, crashed>>

\* diagnose: a diagnostics slot, or the context.
TakeSlot(d) ==
  /\ pc[d] = "queued"
  /\ \/ SlotFree /\ GoTo(d, "checking")
     \/ Cancelled(d) /\ GoTo(d, "ending")
  /\ UNCHANGED <<snapVars, loopVars, load, found, todo, diagVars, crashed>>

\* diagnose: the initialization error is shown or resolved; without a runner
\* there is no preview.
CheckInitialized(d) ==
  /\ pc[d] = "checking"
  /\ IF Cancelled(d)
       THEN GoTo(d, "ending") /\ UNCHANGED critical
       ELSE UpdateCritical(d, InitialErr(held[RunHolder(d)]),
                           IF load = "ok" THEN "starting" ELSE "ending")
  /\ UNCHANGED <<snapVars, loopVars, load, found, todo, tracked, recorded, shown, latest,
                 crashed>>

\* Runner.Run: the preview starts, or the context is the error that is shown.
StartPreview(d) ==
  /\ pc[d] = "starting"
  /\ \/ GoTo(d, "previewing") /\ UNCHANGED critical
     \/ Cancelled(d) /\ UpdateCritical(d, TRUE, "ending")
  /\ UNCHANGED <<snapVars, loopVars, load, found, todo, tracked, recorded, shown, latest,
                 crashed>>

\* The progress request of updateCriticalErrorStatus has been answered.
ErrorShown(d) ==
  /\ pc[d] = "reporting"
  /\ loop = "ready"
  /\ critical' = TRUE
  /\ GoTo(d, "ending")
  /\ UNCHANGED <<snapVars, loopVars, load, found, todo, tracked, recorded, shown, latest,
                 crashed>>

\* Runner.Run returns: also a preview that failed or was cancelled has a result.
FinishPreview(d, files) ==
  /\ pc[d] = "previewing"
  /\ found' = [found EXCEPT ![d] = files]
  /\ todo' = [todo EXCEPT ![d] = files]
  /\ GoTo(d, IF files = {} THEN "updating" ELSE "capturing")
  /\ UNCHANGED <<snapVars, loopVars, load, diagVars, crashed>>

\* run: fileWatcher.Close waits for a log line that nobody receives any more.
Wedge(d) ==
  /\ LateLines
  /\ pc[d] = "previewing"
  /\ Cancelled(d)
  /\ GoTo(d, "wedged")
  /\ UNCHANGED <<snapVars, loopVars, load, found, todo, diagVars, crashed>>

\* GetCapturesFromURI asks the view for its snapshot. When there is none it
\* calls the nil release function, or has no view to ask.
GetFileSnapshot(d) ==
  /\ pc[d] = "capturing"
  /\ SnapshotMuFree
  /\ \/ /\ S!Acquire(FileHolder(d))
        /\ GoTo(d, "parsing")
        /\ UNCHANGED <<loopVars, load, found, todo, diagVars, crashed>>
     \/ /\ view \in {"closed", "dropped"}
        /\ Crash

\* GetCapturesFromURI parses one file and releases; diagnose skips a file that
\* cannot be read or parsed, and dereferences the capture it looks up for the
\* line of a diagnostic.
ParseFile(d, uri) ==
  /\ pc[d] = "parsing"
  /\ uri \in todo[d]
  /\ \/ /\ GiveBack(FileHolder(d))
        /\ todo' = [todo EXCEPT ![d] = @ \ {uri}]
        /\ found' \in {found, [found EXCEPT ![d] = @ \ {uri}]}
        /\ GoTo(d, IF todo[d] = {uri} THEN "updating" ELSE "capturing")
        /\ UNCHANGED <<loopVars, load, diagVars, crashed>>
     \/ /\ ~LinesMatch
        /\ Crash

\* updateDiagnostics takes diagnosticsMu and looks at the context.
BeginUpdate(d) ==
  /\ pc[d] = "updating"
  /\ DiagnosticsMuFree
  /\ IF Cancelled(d) \/ ToPublish(d) = {}
       THEN GoTo(d, "ending") /\ UNCHANGED <<todo, tracked>>
       ELSE /\ GoTo(d, "publishing")
            /\ todo' = [todo EXCEPT ![d] = ToPublish(d)]
            /\ tracked' = tracked \cup found[d]
  /\ UNCHANGED <<snapVars, loopVars, load, found, recorded, shown, latest, critical, crashed>>

Later(s, t) == IF s > t THEN s ELSE t

\* updateAndPublish: the result is recorded, then sent. A cancelled context
\* refuses the sending, or the reading of the file before; the remaining files
\* are left alone then.
Publish(d, uri) ==
  /\ pc[d] = "publishing"
  /\ uri \in NextToPublish(d)
  /\ \/ recorded' = [recorded EXCEPT ![uri] = held[RunHolder(d)]]
     \/ Cancelled(d) /\ UNCHANGED recorded
  /\ IF Cancelled(d)
       THEN /\ todo' = [todo EXCEPT ![d] = {}]
            /\ UNCHANGED <<shown, latest>>
       ELSE /\ todo' = [todo EXCEPT ![d] = @ \ {uri}]
            /\ shown' = [shown EXCEPT ![uri] = held[RunHolder(d)]]
            /\ latest' = [latest EXCEPT ![uri] = Later(@, held[RunHolder(d)])]
  /\ GoTo(d, IF todo'[d] = {} THEN "ending" ELSE "publishing")
  /\ UNCHANGED <<snapVars, loopVars, load, found, tracked, critical, crashed>>

\* The release function of the run is called.
EndRun(d) ==
  /\ pc[d] = "ending"
  /\ GiveBack(RunHolder(d))
  /\ GoTo(d, "done")
  /\ found' = [found EXCEPT ![d] = {}]
  /\ UNCHANGED <<loopVars, load, todo, diagVars, crashed>>

-----------------------------------------------------------------------------
\* What the server does by itself in the middle of a handler.
LoopStep == Invalidate \/ Schedule \/ DropView \/ FinishShutdown

LoadStep == StartLoad \/ FinishLoad \/ EndLoad

\* A run up to the first wait for something that only happens elsewhere.
RunStep(d) ==
  \/ d = 0 /\ (CreateView \/ AwaitInitialized)
  \/ GetSnapshot(d)
  \/ TakeSlot(d)
  \/ CheckInitialized(d)
  \/ StartPreview(d)
  \/ \E files \in SUBSET URIs : FinishPreview(d, files)
  \/ GetFileSnapshot(d)
  \/ \E u \in URIs : ParseFile(d, u)
  \/ BeginUpdate(d)
  \/ \E u \in URIs : Publish(d, u)
  \/ EndRun(d)

\* The client answers a request of a run.
Answer(d) == WorkStarted(d) \/ ErrorShown(d)

Next ==
  /\ ~crashed
  /\ \/ Initialized
     \/ \E kind \in Kinds, uri \in URIs : Modify(kind, uri)
     \/ Shutdown
     \/ LoopStep
     \/ LoadStep
     \/ \E d \in Runs : RunStep(d) \/ Answer(d) \/ Wedge(d)

Spec == Init /\ [][Next]_vars

\* Goroutines run, previews and the load end, and the client answers requests;
\* it need not send anything of its own.
Fairness ==
  /\ WF_vars(~crashed /\ LoopStep)
  /\ WF_vars(~crashed /\ LoadStep)
  /\ \A d \in Runs : WF_vars(~crashed /\ RunStep(d)) /\ WF_vars(~crashed /\ Answer(d))

FairSpec == Spec /\ Fairness

-----------------------------------------------------------------------------
\* Every goroutine keeps the release functions of exactly the snapshots it still
\* works with: no early return of a run leaks one (diagnostics.go:63-69,
\* server.go:46-50), none is called twice, and the load keeps its own
\* (server.go:204-207).
HoldsWhileWorking ==
  /\ \A d \in Runs : held[RunHolder(d)] # S!NoSnap <=> pc[d] \in WorkStates
  /\ \A d \in Runs : held[FileHolder(d)] # S!NoSnap <=> pc[d] = "parsing"
  /\ load \in {"pending", "loading"} => held[Loader] # S!NoSnap

Over == view = "dropped" /\ loop = "ready"

\* When Shutdown has closed the parser and replied, no run works any more and
\* the load goroutine is gone ("waits for all ongoing work to complete",
\* server.go:263-264): nothing acquires a snapshot behind the wait's back.
NoWorkAfterShutdown ==
  Over =>
    /\ \A d \in Runs : pc[d] \notin WorkStates
    /\ load \in {"ok", "failed", "skipped"}

\* Diagnostics of notifications reach the client in the order of their
\* snapshots, whatever order the runs get their slots in: once a snapshot's result
\* was sent for a file, no save sends one of an older snapshot for it, also when the
\* initial run's has been sent in between. That run, of snapshot 0, is left out: it
\* is never cancelled and may replace a save's result by its own, contrary to
\* server.go:250-252 and diagnostics.go:109-110, see the README.
SaveResultsInOrder ==
  [][\A u \in URIs : shown'[u] # shown[u] /\ shown'[u] # 0 => shown'[u] >= latest[u]]_vars

\* A run that publishes to the end leaves every document the server knows of
\* with this run's diagnostics, recorded and sent: none is forgotten, no two runs
\* mix (diagnostics.go:149, "clean up files that have no diagnostics"), and what
\* a cancelled update has recorded without sending it is gone.
UpdateCoversAll ==
  [][\A d \in Runs :
       pc[d] = "publishing" /\ pc'[d] = "ending" /\ ~Cancelled(d)
         => \A u \in tracked' : {recorded'[u], shown'[u]} = {held[RunHolder(d)]}]_vars

\* Every step of the session is a step of Snapshots, or leaves snapshots alone:
\* the handlers and runs keep the protocol of acquire and release.
KeepsSnapshots == S!Spec

\* The runs of a session use the runner as Runner allows it: the diagnostics slot
\* lets one of them in at a time, without a look at the runner's own semaphores
\* (diagnostics.go:165-175, :189). Events are PreviewRun's and Diagnose's subject.
RunnerStage(d) ==
  IF pc[d] \in {"previewing", "wedged"} THEN "running"
  ELSE IF pc[d] \in {"none", "spawned", "creating", "awaiting", "queued", "checking", "starting"} THEN "waiting"
  ELSE "returned"
R == INSTANCE Runner WITH stage  <- [d \in Runs |-> RunnerStage(d)],
                          stored <- [d \in Runs |-> 0],
                          owed   <- [d \in Runs |-> 0]
KeepsRunner == R!Spec

-----------------------------------------------------------------------------
\* A save that stays the last notification is eventually published (the initial
\* run may overwrite it later), unless the session ends, the process panics or the
\* workspace could not be loaded.
Published(m) == \A u \in tracked : shown[u] >= m
LastSavePublished ==
  \A m \in Mods :
    pc[m] = "spawned" /\ cause[m] = "save"
      ~> Published(m) \/ lastMod > m \/ state = "shutDown" \/ crashed \/ load = "failed"

\* A workspace that cannot be loaded is eventually shown to the user, by the
\* initial run; the next save resolves it, as clone forgets the error.
FailedLoadShown ==
  load = "failed" /\ pc[0] = "awaiting" ~> critical \/ state = "shutDown" \/ crashed

\* Shutdown, once the initial load is over, is eventually answered.
LoadedShutdownReturns == state = "shutDown" /\ Loaded ~> Over \/ crashed

-----------------------------------------------------------------------------
(***************************************************************************)
(* What a comment of the code promises and a run refutes: see the findings *)
(* in the README.                                                          *)
(***************************************************************************)
\* Whoever asks for a snapshot after the view is shut down gets an error
\* (view.go:65-66), not a panic.
NoPanicAfterShutdown == crashed => view \notin {"closed", "dropped"}
=============================================================================
