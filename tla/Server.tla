------------------------------- MODULE Server -------------------------------
(***************************************************************************)
(* The life of the server process and what it tells the client about work  *)
(* in progress: dispatch of requests and their replies (lsp/server.go),    *)
(* the states of server.state, the progress tracker (server/progress.go),  *)
(* and the end of the process (cmd/pulumilsp/main.go).                     *)
(*                                                                         *)
(* The client is arbitrary: it sends any request at any time, as often as  *)
(* it likes.  Snapshots and diagnostics are the subject of Session; here a *)
(* run is what it reports: run 0 belongs to initializeView, run m to the   *)
(* m-th document notification.                                             *)
(***************************************************************************)
EXTENDS Integers

CONSTANTS
  MaxMods,  \* bound: the document notifications the server takes notice of
  Roots,    \* may the client name a workspace in "initialize": subset of BOOLEAN
  Windows   \* its capability window.workDoneProgress: subset of BOOLEAN

ASSUME MaxModsAssumption == MaxMods \in Nat
ASSUME ClientAssumption   == Roots \subseteq BOOLEAN /\ Windows \subseteq BOOLEAN

Mods == 1..MaxMods
Runs == 0..MaxMods

\* What progress is reported for: every run, the error status of the workspace
\* (server.criticalErrorStatus), and the fix of a code action.
Status == -1
Fix    == -2
Works  == Runs \cup {Status, Fix}

VARIABLES
  state,     \* server.state
  leaked,    \* stateMu is locked and nobody will unlock it
  root,      \* rootURI is a file URI
  supports,  \* Tracker.supportsWorkDoneProgress
  view,      \* server.view: "none" yet, "open", "closed" by View.shutdown, "dropped"
  load,      \* the initial workspace load
  mods,      \* server.lastModificationID
  holders,   \* the runs that hold a snapshot
  pc,        \* where every run is, see RunStates
  work,      \* the WorkDone of every work, see WorkStates
  loop,      \* where the read loop is, see LoopStates
  req,       \* the method of the message in hand
  replies,   \* how often it has been replied to
  main,      \* where the main goroutine is
  exit       \* "running", or the exit code of the process

viewVars == <<view, load, mods, holders>>
loopVars == <<loop, req, replies>>
initVars == <<leaked, root, supports>>
vars     == <<state, initVars, viewVars, pc, work, loopVars, main, exit>>

States == {"created", "initializing", "initialized", "shutDown"}
Calls  == {"initialize", "shutdown", "codeAction", "resolve", "other"}
Changes == {"didOpen", "didSave"}
Notes  == {"initialized", "exit"} \cup Changes
\* Messages whose parameters are decoded before they are handled.
Decoded == {"initialize", "initialized", "codeAction", "resolve"} \cup Changes
\* In Shutdown, "closing" is between View.shutdown and s.view = nil, "draining"
\* waits for snapshotWG. "creating" and "fixing" are in ResolveCodeAction. A loop
\* that is "gone" has panicked and closed conn.done.
LoopStates == {"ready", "handling", "returning", "closing", "draining",
               "creating", "fixing", "gone"}
\* A goroutine is "spawned" by a save or "opening" by a didOpen. A run "starting"
\* or "reporting" waits for the client in Tracker.Start; "ending" and "ended" are
\* before and after the first of work.End and release.
SlotStates == {"checking", "previewing", "wedged", "reporting"}
WorkingStates == SlotStates \cup {"starting", "awaiting", "queued", "ending"}
RunStates  == WorkingStates \cup {"none", "spawned", "opening", "ended", "done"}
WorkStates == {"none", "creating", "begun", "message", "ended"}

TypeOK ==
  /\ state \in States
  /\ {leaked, root, supports} \subseteq BOOLEAN
  /\ view \in {"none", "open", "closed", "dropped"}
  /\ load \in {"none", "loading", "ok", "failed", "skipped"}
  /\ mods \in 0..MaxMods
  /\ holders \subseteq Runs
  /\ pc \in [Runs -> RunStates]
  /\ work \in [Works -> WorkStates]
  /\ loop \in LoopStates
  /\ req \in Calls \cup Notes \cup {"none"}
  /\ replies \in 0..1
  /\ main \in {"waiting", "closing", "draining"}
  /\ exit \in {"running", "0", "1", "2"}

Init ==
  /\ state = "created"
  /\ leaked = FALSE /\ root = FALSE /\ supports = FALSE
  /\ view = "none" /\ load = "none" /\ mods = 0 /\ holders = {}
  /\ pc = [d \in Runs |-> "none"]
  /\ work = [w \in Works |-> "none"]
  /\ loop = "ready" /\ req = "none" /\ replies = 0
  /\ main = "waiting"
  /\ exit = "running"

-----------------------------------------------------------------------------
(***************************************************************************)
(* The progress tracker.                                                   *)
(***************************************************************************)
\* Tracker.Start: with work-done progress a token is created by a request to the
\* client, otherwise a message is shown.
Start(w) == work' = [work EXCEPT ![w] = IF supports THEN "creating" ELSE "message"]

\* WorkDone.End: the progress or a message. The status and a fix may start anew.
End(w) == work' = [work EXCEPT ![w] = IF w \in Runs THEN "ended" ELSE "none"]

Open(w) == work[w] \in {"creating", "begun", "message"}

\* What a run does once its work has started: initializeView awaits the load.
AfterStart(d) == IF d = 0 THEN "awaiting" ELSE "queued"

GoTo(d, p) == pc' = [pc EXCEPT ![d] = p]

-----------------------------------------------------------------------------
(***************************************************************************)
(* The read loop: dispatch and replies.                                    *)
(***************************************************************************)
\* The replier writes a response to a call; a notification needs none.
Reply == replies' = IF req \in Calls THEN replies + 1 ELSE replies

\* The handler's result is replied and conn.Run goes on.
Answer == Reply /\ loop' = "returning" /\ UNCHANGED req

\* A panic of the read loop runs its deferred close of conn.done first; the message
\* in hand is lost.
LoopPanic == loop' = "gone" /\ req' = "none" /\ replies' = 0

\* A panic of any other goroutine ends the process.
Panic ==
  /\ exit' = "2"
  /\ UNCHANGED <<state, initVars, viewVars, pc, work, loopVars, main>>

\* serverDispatch: parameters that cannot be decoded are replied to with a parse
\* error.
Receive(method, decodes) ==
  /\ loop = "ready"
  /\ ~decodes => method \in Decoded
  /\ req' = method
  /\ loop' = IF decodes THEN "handling" ELSE "returning"
  /\ replies' = IF ~decodes /\ method \in Calls THEN 1 ELSE 0
  /\ UNCHANGED <<state, initVars, viewVars, pc, work, main, exit>>

Handles(method) == loop = "handling" /\ req = method

\* serverDispatch: textDocument/codeAction and every method it does not know are
\* taken as handled, without a reply.
Ignore ==
  /\ Handles("codeAction") \/ Handles("other")
  /\ loop' = "returning"
  /\ UNCHANGED <<state, initVars, viewVars, pc, work, req, replies, main, exit>>

\* conn.Run reads the next message.
NextMessage ==
  /\ loop = "returning"
  /\ loop' = "ready" /\ req' = "none" /\ replies' = 0
  /\ UNCHANGED <<state, initVars, viewVars, pc, work, main, exit>>

\* conn.Run: a read that fails is asserted away, at the end of the input too. An
\* error response of the client cannot be decoded, so it is a failed read.
EndOfInput ==
  /\ loop = "ready"
  /\ LoopPanic
  /\ UNCHANGED <<state, initVars, viewVars, pc, work, main, exit>>

-----------------------------------------------------------------------------
(***************************************************************************)
(* The handlers of the lifecycle.                                          *)
(***************************************************************************)
\* Initialize: only the first one is accepted.
Accepts == state = "created"

\* Initialize refuses, or fails to decode its options and returns with stateMu
\* locked, or sets up the server.
Initialize ==
  /\ Handles("initialize")
  /\ ~leaked
  /\ \/ ~Accepts /\ UNCHANGED <<state, initVars>>
     \/ Accepts /\ leaked' = TRUE /\ UNCHANGED <<state, root, supports>>
     \/ /\ Accepts
        /\ state' = "initializing"
        /\ supports' \in Windows
        /\ root' \in Roots
        /\ UNCHANGED leaked
  /\ Answer
  /\ UNCHANGED <<viewVars, pc, work, main, exit>>

\* Initialized: also without an "initialize" before. The view is made by a
\* goroutine of its own, run 0.
Initialized ==
  /\ Handles("initialized")
  /\ ~leaked
  /\ IF state \in {"created", "initializing"}
       THEN state' = "initialized" /\ GoTo(0, "spawned")
       ELSE UNCHANGED <<state, pc>>
  /\ Answer
  /\ UNCHANGED <<initVars, viewVars, work, main, exit>>

Loaded == load \in {"ok", "failed"}

\* DidOpen, DidSave: without a view a nil dereference, otherwise didModifyFiles
\* awaits the initial load and starts a goroutine; it also cancels the run before
\* (see Cancelled). Notifications beyond the bound are as if not sent.
DidModify ==
  /\ \E method \in Changes : Handles(method)
  /\ \/ /\ view # "open"
        /\ LoopPanic
        /\ UNCHANGED <<mods, pc>>
     \/ /\ view = "open" /\ Loaded
        /\ IF mods < MaxMods
             THEN /\ mods' = mods + 1
                  /\ GoTo(mods + 1, IF req = "didSave" THEN "spawned" ELSE "opening")
             ELSE UNCHANGED <<mods, pc>>
        /\ Answer
  /\ UNCHANGED <<state, initVars, view, load, holders, work, main, exit>>

\* mustReadFile: the assertion of DocumentURI.Path fails for a document that is no
\* file, before the view is looked at.
NoFile ==
  /\ \E method \in Changes : Handles(method)
  /\ LoopPanic
  /\ UNCHANGED <<state, initVars, viewVars, pc, work, main, exit>>

\* Shutdown and View.shutdown, with stateMu locked until the reply.
Shutdown ==
  /\ Handles("shutdown")
  /\ ~leaked
  /\ state' = "shutDown"
  /\ \/ state = "shutDown" /\ Answer /\ UNCHANGED view
     \/ /\ state # "shutDown"
        /\ IF view = "open"
             THEN view' = "closed" /\ loop' = "closing" /\ UNCHANGED <<req, replies>>
             ELSE LoopPanic /\ UNCHANGED view
  /\ UNCHANGED <<initVars, load, mods, holders, pc, work, main, exit>>

\* Shutdown: s.view = nil.
DropView ==
  /\ loop = "closing"
  /\ view' = "dropped"
  /\ loop' = "draining"
  /\ UNCHANGED <<state, initVars, load, mods, holders, pc, work, req, replies, main, exit>>

Drained_AtOnce == TRUE
\* snapshotWG is zero: the runs and the load goroutine have released.
Drained == holders = {} /\ load # "loading"

\* Shutdown: snapshotWG.Wait returns.
FinishShutdown ==
  /\ loop = "draining"
  /\ Drained
  /\ Answer
  /\ UNCHANGED <<state, initVars, viewVars, pc, work, main, exit>>

\* Exit: before shutdown it ends the process, after it it does nothing.
Exit ==
  /\ Handles("exit")
  /\ ~leaked
  /\ IF state # "shutDown"
       THEN exit' = "1" /\ UNCHANGED loopVars
       ELSE Answer /\ UNCHANGED exit
  /\ UNCHANGED <<state, initVars, viewVars, pc, work, main>>

-----------------------------------------------------------------------------
(***************************************************************************)
(* ResolveCodeAction.                                                      *)
(***************************************************************************)
RefuseFix_Twice == replies' = replies + 2 /\ loop' = "returning" /\ UNCHANGED req
\* serverDispatch: an error is replied, and that is all.
RefuseFix == Answer

\* ResolveCodeAction: without data a nil dereference, with data or diagnostics it
\* does not like an error, otherwise progress is started.
ResolveCodeAction ==
  /\ Handles("resolve")
  /\ \/ LoopPanic /\ UNCHANGED work
     \/ RefuseFix /\ UNCHANGED work
     \/ /\ Start(Fix)
        /\ loop' = IF supports THEN "creating" ELSE "fixing"
        /\ UNCHANGED <<req, replies>>
  /\ UNCHANGED <<state, initVars, viewVars, pc, main, exit>>

\* FixWithCopilot or FixWithOpenAI has returned: progress ends, and a fix, or an
\* error for any other answer, is replied.
EndFix ==
  /\ loop = "fixing"
  /\ End(Fix)
  /\ \/ Answer
     \/ RefuseFix
  /\ UNCHANGED <<state, initVars, viewVars, pc, main, exit>>

\* The service answers, with code or with something else.
ServiceAnswers == EndFix

TimesOut_Never == FALSE
\* The context of the HTTP request has a deadline, of 60 s for Copilot and of 30 s
\* for OpenAI.
TimesOut == loop = "fixing"

ServiceTimesOut == TimesOut /\ EndFix

-----------------------------------------------------------------------------
(***************************************************************************)
(* Runs.                                                                   *)
(***************************************************************************)
\* updateViewsToDiagnose cancels the run of the previous notification.
Cancelled(d) == d # 0 /\ d < mods

SlotFree == \A d \in Runs : pc[d] \notin SlotStates

\* initializeView: a root that is no file URI fails an assertion of NewView.
CreateView ==
  /\ pc[0] = "spawned"
  /\ IF root
       THEN /\ view' = "open" /\ load' = "loading" /\ holders' = holders \cup {0}
            /\ Start(0)
            /\ GoTo(0, IF supports THEN "starting" ELSE AfterStart(0))
            /\ UNCHANGED <<state, initVars, mods, loopVars, main, exit>>
       ELSE Panic

\* The load ends, or is cancelled by View.shutdown before it has begun.
EndLoad ==
  /\ load = "loading"
  /\ \/ load' \in {"ok", "failed"}
     \/ view # "open" /\ load' = "skipped"
  /\ UNCHANGED <<state, initVars, view, mods, holders, pc, work, loopVars, main, exit>>

\* diagnoseChangedView: an error from a closed view, a nil dereference after it.
\* The goroutine of a didOpen releases its snapshot at once.
GetSnapshot(d) ==
  /\ d # 0
  /\ pc[d] \in {"spawned", "opening"}
  /\ \/ /\ view = "open"
        /\ holders' = holders \cup {d}
        /\ \/ /\ pc[d] = "spawned"
              /\ Start(d)
              /\ GoTo(d, IF supports THEN "starting" ELSE AfterStart(d))
           \/ /\ pc[d] = "opening"
              /\ GoTo(d, "ended")
              /\ UNCHANGED work
        /\ UNCHANGED <<state, initVars, view, load, mods, loopVars, main, exit>>
     \/ /\ view = "closed"
        /\ GoTo(d, "done")
        /\ UNCHANGED <<state, initVars, viewVars, work, loopVars, main, exit>>
     \/ view = "dropped" /\ Panic

\* The client has created the token; progress begins. The read loop takes in its
\* response between two messages.
Created(w) ==
  /\ work[w] = "creating"
  /\ loop = "ready"
  /\ work' = [work EXCEPT ![w] = "begun"]
  /\ pc' = [d \in Runs |-> IF d = w THEN AfterStart(d)
                           ELSE IF w = Status /\ pc[d] = "reporting" THEN "ending"
                           ELSE pc[d]]
  /\ UNCHANGED <<state, initVars, viewVars, loopVars, main, exit>>

\* initializeView: AwaitInitialized returns.
AwaitInitialized ==
  /\ pc[0] = "awaiting"
  /\ Loaded
  /\ GoTo(0, "queued")
  /\ UNCHANGED <<state, initVars, viewVars, work, loopVars, main, exit>>

\* diagnose: the slot, or the context.
TakeSlot(d) ==
  /\ pc[d] = "queued"
  /\ \/ SlotFree /\ GoTo(d, "checking")
     \/ Cancelled(d) /\ GoTo(d, "ending")
  /\ UNCHANGED <<state, initVars, viewVars, work, loopVars, main, exit>>

\* updateCriticalErrorStatus: one status for the whole server, begun with the
\* first error and ended by the first run without one.
UpdateStatus(d, err, next) ==
  \/ /\ err /\ ~Open(Status)
     /\ Start(Status)
     /\ GoTo(d, IF supports THEN "reporting" ELSE next)
  \/ ~err /\ Open(Status) /\ End(Status) /\ GoTo(d, next)
  \/ err = Open(Status) /\ GoTo(d, next) /\ UNCHANGED work

\* diagnose up to Runner.Run: only the first snapshot has the error of the load.
Check(d) ==
  /\ pc[d] = "checking"
  /\ IF Cancelled(d)
       THEN GoTo(d, "ending") /\ UNCHANGED work
       ELSE UpdateStatus(d, d = 0 /\ load = "failed",
                         IF load = "ok" THEN "previewing" ELSE "ending")
  /\ UNCHANGED <<state, initVars, viewVars, loopVars, main, exit>>

\* Runner.Run returns a result, which is published or makes diagnose panic, or an
\* error that becomes the status.
EndPreview(d) ==
  /\ pc[d] = "previewing"
  /\ \/ /\ \/ GoTo(d, "ending") /\ UNCHANGED work
           \/ UpdateStatus(d, TRUE, "ending")
        /\ UNCHANGED <<state, initVars, viewVars, loopVars, main, exit>>
     \/ Panic

\* run: in a cancelled run fileWatcher.Close may wait for ever for a log line that
\* nobody receives any more.
Wedge(d) ==
  /\ pc[d] = "previewing"
  /\ Cancelled(d)
  /\ GoTo(d, "wedged")
  /\ UNCHANGED <<state, initVars, viewVars, work, loopVars, main, exit>>

EndsWorkFirst_Never(d) == FALSE
\* diagnoseChangedView ends its work before the deferred release; initializeView
\* the other way round.
EndsWorkFirst(d) == d # 0

EndWork_Skipped(d) == UNCHANGED work
EndWork(d) == End(d)

\* The two last steps of a run: work.End and release.
EndRun(d) ==
  /\ \/ pc[d] = "ending" /\ GoTo(d, "ended")
     \/ pc[d] = "ended"  /\ GoTo(d, "done")
  /\ IF (pc[d] = "ending") = EndsWorkFirst(d)
       THEN EndWork(d) /\ UNCHANGED holders
       ELSE holders' = holders \ {d} /\ UNCHANGED work
  /\ UNCHANGED <<state, initVars, view, load, mods, loopVars, main, exit>>

-----------------------------------------------------------------------------
(***************************************************************************)
(* The end of the process.                                                 *)
(***************************************************************************)
\* The Go runtime ends the process when the deferred calls of the panicking read
\* loop have run.
FatalPanic == loop = "gone" /\ Panic

\* main: conn.done is closed and the deferred Shutdown runs, in a race with the
\* runtime; a panic of it is recovered by panicHandler.
MainShutdown ==
  /\ main = "waiting"
  /\ loop = "gone"
  /\ ~leaked
  /\ state' = "shutDown"
  /\ IF state = "shutDown" THEN exit' = "0" /\ UNCHANGED <<view, main>>
     ELSE IF view = "open" THEN view' = "closed" /\ main' = "closing" /\ UNCHANGED exit
     ELSE exit' = "1" /\ UNCHANGED <<view, main>>
  /\ UNCHANGED <<initVars, load, mods, holders, pc, work, loopVars>>

MainDropView ==
  /\ main = "closing"
  /\ view' = "dropped"
  /\ main' = "draining"
  /\ UNCHANGED <<state, initVars, load, mods, holders, pc, work, loopVars, exit>>

MainReturn ==
  /\ main = "draining"
  /\ Drained
  /\ exit' = "0"
  /\ UNCHANGED <<state, initVars, viewVars, pc, work, loopVars, main>>

-----------------------------------------------------------------------------
LoopStep ==
  \/ Ignore \/ NextMessage
  \/ Initialize \/ Initialized \/ DidModify \/ Shutdown \/ DropView \/ FinishShutdown \/ Exit
  \/ ResolveCodeAction \/ ServiceTimesOut

RunStep(d) ==
  \/ d = 0 /\ (CreateView \/ EndLoad \/ AwaitInitialized)
  \/ GetSnapshot(d) \/ TakeSlot(d) \/ Check(d) \/ EndPreview(d) \/ EndRun(d)

MainStep == FatalPanic \/ MainShutdown \/ MainDropView \/ MainReturn

Next ==
  /\ exit = "running"
  /\ \/ \E method \in Calls \cup Notes, decodes \in BOOLEAN : Receive(method, decodes)
     \/ EndOfInput
     \/ LoopStep
     \/ NoFile
     \/ ServiceAnswers
     \/ \E w \in Works : Created(w)
     \/ \E d \in Runs : RunStep(d) \/ Wedge(d)
     \/ MainStep

Spec == Init /\ [][Next]_vars

\* Goroutines run, previews, the load and the deadline of a request end, and the
\* client answers. Strong fairness of its answers: they are read in the order in
\* which messages arrive, so no number of other messages keeps them from being read.
Fairness ==
  /\ WF_vars(exit = "running" /\ LoopStep)
  /\ WF_vars(exit = "running" /\ MainStep)
  /\ \A d \in Runs  : WF_vars(exit = "running" /\ RunStep(d))
  /\ SF_vars(exit = "running" /\ \E w \in Works : Created(w))

FairSpec == Spec /\ Fairness

-----------------------------------------------------------------------------
\* No call is replied to twice, and every call is replied to once, the error returns
\* of ResolveCodeAction and parse errors included, but for the two kinds that
\* serverDispatch takes as handled (lsp/server.go:112, :130). That is less than
\* rpc/handler.go:31 asks of every handler ("must be called exactly once"): for
\* these two the code does not keep it, see the README.
RepliedOnce ==
  /\ replies <= 1
  /\ loop = "returning" /\ req \in Calls /\ replies = 0 => req \in {"codeAction", "other"}

\* A run's work is open exactly while the run is at work, and of all runs only the
\* one in the diagnostics slot can be starting the error status (progress.go:40).
WorksMatchRuns ==
  /\ \A d \in Runs : Open(d) <=> pc[d] \in WorkingStates \/ (pc[d] = "ended" /\ d = 0)
  /\ work[Status] = "creating" <=> \E d \in Runs : pc[d] = "reporting"

\* When Shutdown has seen snapshotWG fall to zero nothing holds a snapshot any more,
\* and the progress of every save has been ended ("waits for all ongoing work to
\* complete", server.go:263-264): also in the deferred Shutdown of main, which races
\* with the runtime and then lets the process end with success (main.go:28-32).
DrainedMeansEnded ==
  view = "dropped" /\ loop # "draining" /\ (main = "draining" => exit = "0")
    => holders = {} /\ load # "loading" /\ \A d \in Mods : ~Open(d)

\* Every handler returns, but for the waits that nothing ends: a lifecycle request
\* after the one that left stateMu locked, the progress that a code action starts
\* from the read loop, and a shutdown that waits for a run whose progress only the
\* read loop can start, whose load was cancelled before it began, or whose preview
\* is never done (run.go:252).
Stuck ==
  \/ leaked /\ loop = "handling" /\ req \in {"initialize", "initialized", "shutdown", "exit"}
  \/ loop = "creating"
  \/ loop = "draining" /\ \/ load = "skipped"
                          \/ \E w \in Works : work[w] = "creating"
                          \/ \E d \in Runs : pc[d] = "wedged"
HandlersReturn == loop # "ready" ~> loop = "ready" \/ exit # "running" \/ Stuck

\* A run that is wedged, and one that waits for the slot which that run has.
Blocked(d) ==
  \E e \in Runs : pc[e] = "wedged" /\ (e = d \/ (pc[d] = "queued" /\ ~Cancelled(d)))

\* A progress that a run has begun is ended, as long as the read loop comes back and
\* while its run is not blocked: a save that is cancelled while it waits for the slot ends
\* its progress also when the run in the slot is wedged (diagnostics.go:166-170).
WorksEnd ==
  []<>(loop = "ready") =>
    \A d \in Runs : work[d] = "begun" ~> \/ work[d] = "ended"
                                         \/ exit # "running"
                                         \/ load = "skipped"
                                         \/ Blocked(d)
=============================================================================
