------------------------------ MODULE PreviewRun ------------------------------
(***************************************************************************)
(* Runner.Run of pulumicommand/command.go and run of pulumicommand/run.go: *)
(* the two semaphores in front of a preview; the preview process, which    *)
(* writes one line of its gRPC log after the other; the forwarder of       *)
(* watchFile, which tails the log into an unbuffered channel; and          *)
(* processGrpcEvents, which receives from it into the ResourceStore until  *)
(* the channel is closed or the context is cancelled.                      *)
(***************************************************************************)
EXTENDS Integers, FiniteSets

CONSTANTS
  Runs,         \* the calls of Run
  Cancellable,  \* those whose context may be cancelled
  MaxLines      \* bound: the log lines of one preview

ASSUME CancellableAssumption == Cancellable \subseteq Runs
ASSUME LinesAssumption       == MaxLines \in Nat

Nobody == "nobody"

VARIABLES
  pc,         \* where Run is, see RunStates
  env,        \* whose log file PULUMI_DEBUG_GRPC of the workspace names
  log,        \* whose log file the preview of a run writes
  written,    \* lines in the log file of a run
  read,       \* lines the forwarder of a run has taken from the tail
  forwarder,  \* "off", "reading" the tail, "sending", "stopped" (done closed)
  processor,  \* "off", "selecting", "handling" an event, "exited"
  handled,    \* events in the ResourceStore of a run
  cancelled   \* the runs whose context is cancelled

vars == <<pc, env, log, written, read, forwarder, processor, handled, cancelled>>

\* "idle" before the serialized semaphore, "serialized" before inFlight;
\* "setup", "previewing" and "closing" inside run; "done" after Run.
RunStates == {"idle", "serialized", "setup", "tailing", "previewing", "closing", "done"}

TypeOK ==
  /\ pc \in [Runs -> RunStates]
  /\ env \in Runs \cup {Nobody}
  /\ log \in [Runs -> Runs \cup {Nobody}]
  /\ written \in [Runs -> 0..MaxLines]
  /\ read \in [Runs -> 0..MaxLines]
  /\ handled \in [Runs -> 0..MaxLines]
  /\ \A r \in Runs : handled[r] <= read[r] /\ read[r] <= written[r]
  /\ forwarder \in [Runs -> {"off", "reading", "sending", "stopped"}]
  /\ processor \in [Runs -> {"off", "selecting", "handling", "exited"}]
  /\ cancelled \subseteq Cancellable

Init ==
  /\ pc = [r \in Runs |-> "idle"]
  /\ env = Nobody
  /\ log = [r \in Runs |-> Nobody]
  /\ written = [r \in Runs |-> 0]
  /\ read = [r \in Runs |-> 0]
  /\ handled = [r \in Runs |-> 0]
  /\ forwarder = [r \in Runs |-> "off"]
  /\ processor = [r \in Runs |-> "off"]
  /\ cancelled = {}

-----------------------------------------------------------------------------
\* The runs that hold inFlight, and those that hold serialized.
InFlight   == {r \in Runs : pc[r] \in {"setup", "tailing", "previewing", "closing"}}
Serialized == InFlight \cup {r \in Runs : pc[r] = "serialized"}

HasRoom_Two(holders) == Cardinality(holders) < 2
\* A semaphore of Runner.initialize: a channel of capacity one.
HasRoom(holders) == holders = {}

Refusable_Never(r) == FALSE
\* Run: the wait for a semaphore ends when the context is cancelled.
Refusable(r) == r \in cancelled

TailEnds_Never(r) == FALSE
\* The tail's Lines channel ends: StopAtEOF was called and the end reached.
TailEnds(r) == pc[r] = "closing" /\ read[r] = written[r]

Closed_AtOnce(r) == TRUE
\* fileWatcher.Close: the done channel is closed.
Closed(r) == forwarder[r] = "stopped"

GoTo(r, p) == pc' = [pc EXCEPT ![r] = p]

\* Run: one of the semaphores, or the context's error.
Enter(r, at, next, holders) ==
  /\ pc[r] = at
  /\ \/ HasRoom(holders) /\ GoTo(r, next)
     \/ Refusable(r) /\ GoTo(r, "done")
  /\ UNCHANGED <<env, log, written, read, forwarder, processor, handled, cancelled>>

TakeSerialized(r) == Enter(r, "idle", "serialized", Serialized)
TakeInFlight(r)   == Enter(r, "serialized", "setup", InFlight)

\* run: the log is tailed and the two goroutines start, or tailing fails. The
\* log file is named in the environment that all runs of the stack share.
Setup(r) ==
  /\ pc[r] = "setup"
  /\ \/ /\ GoTo(r, "tailing")
        /\ env' = r
        /\ forwarder' = [forwarder EXCEPT ![r] = "reading"]
        /\ processor' = [processor EXCEPT ![r] = "selecting"]
     \/ /\ GoTo(r, "done")
        /\ UNCHANGED <<env, forwarder, processor>>
  /\ UNCHANGED <<log, written, read, handled, cancelled>>

\* run: Stack.Preview starts a process with the workspace's environment.
StartPreview(r) ==
  /\ pc[r] = "tailing"
  /\ GoTo(r, "previewing")
  /\ log' = [log EXCEPT ![r] = env]
  /\ UNCHANGED <<env, written, read, forwarder, processor, handled, cancelled>>

\* The preview logs one more line.
WriteLine(r) ==
  /\ pc[r] = "previewing"
  /\ written[log[r]] < MaxLines
  /\ written' = [written EXCEPT ![log[r]] = @ + 1]
  /\ UNCHANGED <<pc, env, log, read, forwarder, processor, handled, cancelled>>

\* run: Preview returns, also when cancelled. The map that run returns is the
\* store's as it is now, before the deferred Close: it gets the events still to
\* be handled only if some event has made it already.
EndPreview(r) ==
  /\ pc[r] = "previewing"
  /\ GoTo(r, "closing")
  /\ UNCHANGED <<env, log, written, read, forwarder, processor, handled, cancelled>>

\* run: Close returns, and with it Run.
EndRun(r) ==
  /\ pc[r] = "closing"
  /\ Closed(r)
  /\ GoTo(r, "done")
  /\ UNCHANGED <<env, log, written, read, forwarder, processor, handled, cancelled>>

\* watchFile: the next line of the tail, to be sent to the receiver.
TakeLine(r) ==
  /\ forwarder[r] = "reading"
  /\ read[r] < written[r]
  /\ read' = [read EXCEPT ![r] = @ + 1]
  /\ forwarder' = [forwarder EXCEPT ![r] = "sending"]
  /\ UNCHANGED <<pc, env, log, written, processor, handled, cancelled>>

\* Mutant: the forwarder does not go on to the next line.
Send_Again(r) ==
  /\ forwarder[r] = "sending"
  /\ processor[r] = "selecting"
  /\ processor' = [processor EXCEPT ![r] = "handling"]
  /\ UNCHANGED <<pc, env, log, written, read, forwarder, handled, cancelled>>

\* watchFile and processGrpcEvents meet at the unbuffered channel.
Send(r) ==
  /\ forwarder[r] = "sending"
  /\ processor[r] = "selecting"
  /\ forwarder' = [forwarder EXCEPT ![r] = "reading"]
  /\ processor' = [processor EXCEPT ![r] = "handling"]
  /\ UNCHANGED <<pc, env, log, written, read, handled, cancelled>>

\* watchFile: the tail has ended; the channel and done are closed.
StopForwarder(r) ==
  /\ forwarder[r] = "reading"
  /\ TailEnds(r)
  /\ forwarder' = [forwarder EXCEPT ![r] = "stopped"]
  /\ UNCHANGED <<pc, env, log, written, read, processor, handled, cancelled>>

\* handleGrpcEvent: the event is in the store.
HandleEvent(r) ==
  /\ processor[r] = "handling"
  /\ handled' = [handled EXCEPT ![r] = @ + 1]
  /\ processor' = [processor EXCEPT ![r] = "selecting"]
  /\ UNCHANGED <<pc, env, log, written, read, forwarder, cancelled>>

\* processGrpcEvents: the channel is closed or the context cancelled.
StopProcessor(r) ==
  /\ processor[r] = "selecting"
  /\ forwarder[r] = "stopped" \/ r \in cancelled
  /\ processor' = [processor EXCEPT ![r] = "exited"]
  /\ UNCHANGED <<pc, env, log, written, read, forwarder, handled, cancelled>>

\* Somebody cancels the context of a run.
Cancel(r) ==
  /\ r \in Cancellable \ cancelled
  /\ pc[r] # "done"
  /\ cancelled' = cancelled \cup {r}
  /\ UNCHANGED <<pc, env, log, written, read, forwarder, processor, handled>>

RunStep(r) ==
  \/ TakeSerialized(r) \/ TakeInFlight(r) \/ Setup(r) \/ StartPreview(r)
  \/ EndPreview(r) \/ EndRun(r)

ForwarderStep(r) == TakeLine(r) \/ Send(r) \/ StopForwarder(r)

ProcessorStep(r) == HandleEvent(r) \/ StopProcessor(r)

Next ==
  \E r \in Runs :
    RunStep(r) \/ WriteLine(r) \/ ForwarderStep(r) \/ ProcessorStep(r) \/ Cancel(r)

Spec == Init /\ [][Next]_vars

\* Goroutines run and previews end.
FairSpec ==
  /\ Spec
  /\ \A r \in Runs :
       WF_vars(RunStep(r)) /\ WF_vars(ForwarderStep(r)) /\ WF_vars(ProcessorStep(r))

-----------------------------------------------------------------------------
\* A preview logs to the file that its own run tails: no other run changes the
\* shared environment between the naming of the file and the start of the
\* process (run.go:81-83).
OwnLog == \A r \in Runs : log[r] \in {r, Nobody}

\* When Run returns, cancelled or not, every event but the last is in the store:
\* the last may still be in the hands of the processor (run.go:247-262).
AllButLastHandled ==
  \A r \in Runs : pc[r] = "done" => handled[r] >= written[r] - 1

\* To its callers this is Runner: one preview at a time, and a returned run that
\* owes its store at most the one event in the hands of the processor, which comes
\* or not; lines that nobody has read when Run returns, or read for another run,
\* would be owed as well (command.go:34-59, run.go:84, :247-262).
Stage(r) ==
  IF pc[r] \in {"idle", "serialized"} THEN "waiting" ELSE IF pc[r] = "done" THEN "returned" ELSE "running"
Owed(r) == IF pc[r] = "done" THEN written[r] - handled[r] ELSE 0
R == INSTANCE Runner WITH stage  <- [r \in Runs |-> Stage(r)],
                          stored <- handled,
                          owed   <- [r \in Runs |-> Owed(r)]
KeepsRunner == R!Spec

\* A run whose context is cancelled does not wait for a preview of another,
\* however long that one is stuck.
CancelledLeavesQueue ==
  \A r \in Runs : pc[r] = "idle" /\ r \in cancelled ~> pc[r] # "idle"

\* Run returns and gives back both semaphores, unless it is cancelled: the
\* forwarder reaches the end of the log and closes done whatever the preview
\* wrote and however far the processor was behind.
RunReturns == \A r \in Runs : pc[r] = "previewing" ~> pc[r] = "done" \/ r \in cancelled

\* So does a cancelled run: Close tells the watcher to end, waits "for the done
\* event" (run.go:252), and the event comes.
CancelledRunReturns ==
  \A r \in Runs : pc[r] = "previewing" /\ r \in cancelled ~> pc[r] = "done"
=============================================================================
