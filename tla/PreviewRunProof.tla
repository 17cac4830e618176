--------------------------- MODULE PreviewRunProof ---------------------------
(***************************************************************************)
(* Safety of the preview runner, for any number of runs and log lines: a   *)
(* preview logs to its own run's file, Run is a Runner, so that when it    *)
(* returns all events but possibly the last are in the store, and Close    *)
(* has ever less to wait for.                                              *)
(***************************************************************************)
EXTENDS PreviewRun, TLAPS

\* The semaphore inFlight admits one run.
OneInFlight == \A r, s \in InFlight : r = s

\* Who is about to start a preview is named in the environment; a preview logs to
\* its own file.
LogsAgree ==
  \A r \in Runs :
    /\ log[r] \in {r, Nobody}
    /\ pc[r] = "tailing" => env = r
    /\ pc[r] = "previewing" => log[r] = r

\* Where the forwarder and the processor of a run are while Run goes on.
Stages ==
  \A r \in Runs :
    /\ pc[r] \in {"idle", "serialized", "setup"} =>
         forwarder[r] = "off" /\ processor[r] = "off" /\ written[r] = 0
    /\ pc[r] \in {"tailing", "previewing", "closing"} => forwarder[r] # "off"
    /\ pc[r] = "done" => forwarder[r] \in {"off", "stopped"}
    /\ forwarder[r] = "off" => written[r] = 0
    /\ forwarder[r] = "stopped" => pc[r] \in {"closing", "done"} /\ read[r] = written[r]

\* Every line that has been read is in the store or in one pair of hands.
Counts ==
  \A r \in Runs :
    read[r] = handled[r] + (IF processor[r] = "handling" THEN 1 ELSE 0)
                         + (IF forwarder[r] = "sending" THEN 1 ELSE 0)

Inv == TypeOK /\ OneInFlight /\ LogsAgree /\ Stages /\ Counts

LEMMA InitInv == Init => Inv
  BY LinesAssumption
  DEF Init, Inv, TypeOK, RunStates, OneInFlight, InFlight, LogsAgree, Stages, Counts

-----------------------------------------------------------------------------
(***************************************************************************)
(* The steps of Run.                                                       *)
(***************************************************************************)
\* A run gets the semaphore at, or is refused.
LEMMA EnterInv ==
  ASSUME Inv, NEW r \in Runs, TakeSerialized(r) \/ TakeInFlight(r)
  PROVE  Inv'
<1>1. UNCHANGED <<env, log, written, read, forwarder, processor, handled, cancelled>>
  BY DEF TakeSerialized, TakeInFlight, Enter
<1>2. PICK p \in {"serialized", "setup", "done"} :
        /\ pc' = [pc EXCEPT ![r] = p]
        /\ pc[r] \in {"idle", "serialized"}
        /\ p = "setup" => InFlight = {}
  BY DEF TakeSerialized, TakeInFlight, Enter, GoTo, HasRoom
<1>3. TypeOK'
  BY <1>1, <1>2 DEF Inv, TypeOK, RunStates
<1>4. OneInFlight'
  BY <1>2 DEF Inv, TypeOK, OneInFlight, InFlight
<1>5. LogsAgree'
  BY <1>1, <1>2 DEF Inv, TypeOK, LogsAgree
<1>6. Stages'
  BY <1>1, <1>2 DEF Inv, TypeOK, Stages
<1>7. Counts'
  BY <1>1 DEF Inv, Counts
<1> QED
  BY <1>3, <1>4, <1>5, <1>6, <1>7 DEF Inv

LEMMA SetupInv ==
  ASSUME Inv, NEW r \in Runs, Setup(r)
  PROVE  Inv'
<1>1. /\ pc[r] = "setup"
      /\ UNCHANGED <<log, written, read, handled, cancelled>>
  BY DEF Setup
<1>2. PICK p \in {"tailing", "done"} : pc' = [pc EXCEPT ![r] = p]
  BY DEF Setup, GoTo
<1>3. \/ /\ pc'[r] = "tailing" /\ env' = r
         /\ forwarder' = [forwarder EXCEPT ![r] = "reading"]
         /\ processor' = [processor EXCEPT ![r] = "selecting"]
      \/ pc'[r] = "done" /\ UNCHANGED <<env, forwarder, processor>>
  BY DEF Setup, GoTo, Inv, TypeOK
<1>4. TypeOK'
  BY <1>1, <1>2, <1>3 DEF Inv, TypeOK, RunStates
<1>5. OneInFlight'
  BY <1>1, <1>2 DEF Inv, TypeOK, OneInFlight, InFlight
<1>6. LogsAgree'
  <2>1. \A s \in Runs \ {r} : pc'[s] # "tailing"
    BY <1>1, <1>2 DEF Inv, TypeOK, OneInFlight, InFlight
  <2> QED
    BY <1>1, <1>2, <1>3, <2>1 DEF Inv, TypeOK, LogsAgree
<1>7. Stages'
  BY <1>1, <1>2, <1>3 DEF Inv, TypeOK, Stages
<1>8. Counts'
  BY <1>1, <1>3 DEF Inv, TypeOK, Stages, Counts
<1> QED
  BY <1>4, <1>5, <1>6, <1>7, <1>8 DEF Inv

\* From the naming of the log file to the end of Close.
LEMMA PreviewInv ==
  ASSUME Inv, NEW r \in Runs, StartPreview(r) \/ EndPreview(r) \/ EndRun(r)
  PROVE  Inv'
<1>1. UNCHANGED <<env, written, read, forwarder, processor, handled, cancelled>>
  BY DEF StartPreview, EndPreview, EndRun
<1>2. \/ /\ pc[r] = "tailing" /\ pc' = [pc EXCEPT ![r] = "previewing"]
         /\ log' = [log EXCEPT ![r] = env]
      \/ /\ pc[r] = "previewing" /\ pc' = [pc EXCEPT ![r] = "closing"]
         /\ UNCHANGED log
      \/ /\ pc[r] = "closing" /\ pc' = [pc EXCEPT ![r] = "done"]
         /\ forwarder[r] = "stopped"
         /\ UNCHANGED log
  BY DEF StartPreview, EndPreview, EndRun, GoTo, Closed
<1>3. TypeOK'
  BY <1>1, <1>2 DEF Inv, TypeOK, RunStates
<1>4. OneInFlight'
  BY <1>2 DEF Inv, TypeOK, OneInFlight, InFlight
<1>5. LogsAgree'
  BY <1>1, <1>2 DEF Inv, TypeOK, LogsAgree
<1>6. Stages'
  BY <1>1, <1>2 DEF Inv, TypeOK, Stages
<1>7. Counts'
  BY <1>1 DEF Inv, Counts
<1> QED
  BY <1>3, <1>4, <1>5, <1>6, <1>7 DEF Inv

-----------------------------------------------------------------------------
(***************************************************************************)
(* The preview, the forwarder and the processor: Run stays where it is.    *)
(***************************************************************************)
\* While Run stays, who is in flight and which file is whose stay as well.
LEMMA RunStays ==
  ASSUME Inv, UNCHANGED <<pc, env, log>>
  PROVE  OneInFlight' /\ LogsAgree'
  BY DEF Inv, OneInFlight, InFlight, LogsAgree

LEMMA WriteLineInv ==
  ASSUME Inv, NEW r \in Runs, WriteLine(r)
  PROVE  Inv'
<1>1. /\ pc[r] = "previewing" /\ log[r] = r /\ written[r] < MaxLines
      /\ written' = [written EXCEPT ![r] = @ + 1]
      /\ UNCHANGED <<pc, env, log, read, forwarder, processor, handled, cancelled>>
  BY DEF WriteLine, Inv, LogsAgree
<1>2. TypeOK'
  BY <1>1, LinesAssumption DEF Inv, TypeOK
<1>3. Stages'
  BY <1>1 DEF Inv, TypeOK, Stages
<1>4. Counts'
  BY <1>1 DEF Inv, Counts
<1> QED
  BY <1>1, <1>2, <1>3, <1>4, RunStays DEF Inv

LEMMA ForwarderInv ==
  ASSUME Inv, NEW r \in Runs, ForwarderStep(r)
  PROVE  Inv'
<1>1. UNCHANGED <<pc, env, log, written, handled, cancelled>>
  BY DEF ForwarderStep, TakeLine, Send, StopForwarder
<1>2. \/ /\ forwarder[r] = "reading" /\ read[r] < written[r]
         /\ read' = [read EXCEPT ![r] = @ + 1]
         /\ forwarder' = [forwarder EXCEPT ![r] = "sending"]
         /\ UNCHANGED processor
      \/ /\ forwarder[r] = "sending" /\ processor[r] = "selecting"
         /\ forwarder' = [forwarder EXCEPT ![r] = "reading"]
         /\ processor' = [processor EXCEPT ![r] = "handling"]
         /\ UNCHANGED read
      \/ /\ forwarder[r] = "reading" /\ pc[r] = "closing" /\ read[r] = written[r]
         /\ forwarder' = [forwarder EXCEPT ![r] = "stopped"]
         /\ UNCHANGED <<read, processor>>
  BY DEF ForwarderStep, TakeLine, Send, StopForwarder, TailEnds
<1>3. TypeOK'
  BY <1>1, <1>2, LinesAssumption DEF Inv, TypeOK
<1>4. Stages'
  BY <1>1, <1>2 DEF Inv, TypeOK, Stages
<1>5. Counts'
  BY <1>1, <1>2 DEF Inv, TypeOK, Counts
<1> QED
  BY <1>1, <1>3, <1>4, <1>5, RunStays DEF Inv

LEMMA ProcessorInv ==
  ASSUME Inv, NEW r \in Runs, ProcessorStep(r)
  PROVE  Inv'
<1>1. UNCHANGED <<pc, env, log, written, read, forwarder, cancelled>>
  BY DEF ProcessorStep, HandleEvent, StopProcessor
<1>2. \/ /\ processor[r] = "handling"
         /\ processor' = [processor EXCEPT ![r] = "selecting"]
         /\ handled' = [handled EXCEPT ![r] = @ + 1]
      \/ /\ processor[r] = "selecting"
         /\ processor' = [processor EXCEPT ![r] = "exited"]
         /\ UNCHANGED handled
  BY DEF ProcessorStep, HandleEvent, StopProcessor
<1>3. Counts'
  BY <1>1, <1>2 DEF Inv, TypeOK, Counts
<1>4. TypeOK'
  <2>1. \A s \in Runs : handled'[s] \in 0..MaxLines /\ handled'[s] <= read'[s]
    BY <1>1, <1>2, LinesAssumption DEF Inv, TypeOK, Counts
  <2> QED
    BY <1>1, <1>2, <2>1 DEF Inv, TypeOK
<1>5. Stages'
  BY <1>1, <1>2 DEF Inv, TypeOK, Stages
<1> QED
  BY <1>1, <1>3, <1>4, <1>5, RunStays DEF Inv

-----------------------------------------------------------------------------
LEMMA StepInv == Inv /\ [Next]_vars => Inv'
<1> SUFFICES ASSUME Inv, [Next]_vars PROVE Inv'
  OBVIOUS
<1>1. ASSUME NEW r \in Runs, RunStep(r) PROVE Inv'
  BY <1>1, EnterInv, SetupInv, PreviewInv DEF RunStep
<1>2. ASSUME NEW r \in Runs, Cancel(r) PROVE Inv'
  BY <1>2 DEF Cancel, Inv, TypeOK, OneInFlight, InFlight, LogsAgree, Stages, Counts
<1>3. CASE UNCHANGED vars
  BY <1>3 DEF vars, Inv, TypeOK, OneInFlight, InFlight, LogsAgree, Stages, Counts
<1> QED
  BY <1>1, <1>2, <1>3, WriteLineInv, ForwarderInv, ProcessorInv DEF Next

LEMMA AlwaysInv == Spec => []Inv
  BY InitInv, StepInv, PTL DEF Spec

\* Every variable of the runs keeps its type, and no count passes another.
THEOREM PreviewTypes == Spec => []TypeOK
<1>1. Inv => TypeOK
  BY DEF Inv
<1> QED
  BY <1>1, AlwaysInv, PTL

\* However many runs contend, a preview never logs to the file of another run
\* (run.go:81-83): the environment they share is written under inFlight only.
THEOREM LogsAreOwn == Spec => []OwnLog
<1>1. Inv => OwnLog
  BY DEF Inv, LogsAgree, OwnLog
<1> QED
  BY <1>1, AlwaysInv, PTL

\* When Run returns at most one event is not in the store (run.go:247-262): Close
\* has seen the forwarder at the end of the log, and a line that was sent is in the
\* hands of the processor.
THEOREM EventsHandled == Spec => []AllButLastHandled
<1>1. Inv => AllButLastHandled
  BY DEF Inv, TypeOK, Stages, Counts, AllButLastHandled
<1> QED
  BY <1>1, AlwaysInv, PTL

-----------------------------------------------------------------------------
(***************************************************************************)
(* The runner refines Runner.                                              *)
(***************************************************************************)
\* What a step of Run, which moves one program counter, is in Runner.
LEMMA RunStepRefines ==
  ASSUME Inv, NEW r \in Runs, RunStep(r)
  PROVE  R!Next \/ UNCHANGED R!vars
<1> USE DEF R!Next
<1>1. /\ UNCHANGED <<written, handled>>
      /\ \A s \in Runs \ {r} : Stage(s)' = Stage(s) /\ Owed(s)' = Owed(s)
      /\ \E p \in RunStates : pc' = [pc EXCEPT ![r] = p]
  <2>1. PICK p \in RunStates : pc' = [pc EXCEPT ![r] = p]
    BY DEF RunStep, TakeSerialized, TakeInFlight, Enter, Setup, StartPreview, EndPreview, EndRun,
       GoTo, RunStates
  <2>2. UNCHANGED <<written, handled>>
    BY DEF RunStep, TakeSerialized, TakeInFlight, Enter, Setup, StartPreview, EndPreview, EndRun
  <2>3. \A s \in Runs \ {r} : pc'[s] = pc[s]
    BY <2>1 DEF Inv, TypeOK
  <2> QED
    BY <2>1, <2>2, <2>3 DEF Stage, Owed
<1>2. PICK p \in RunStates : pc' = [pc EXCEPT ![r] = p] /\ pc'[r] = p
  BY <1>1 DEF Inv, TypeOK
<1>3. CASE Stage(r)' = Stage(r) /\ Owed(r)' = Owed(r)
  BY <1>1, <1>3 DEF R!vars
<1>4. CASE Stage(r) = "waiting" /\ pc'[r] = "done"
  <2>1. Owed(r)' = 0 /\ Owed(r) = 0 /\ Stage(r)' = "returned"
    <3>1. written[r] = 0 /\ handled[r] = 0
      BY <1>4 DEF Stage, Inv, TypeOK, Stages
    <3> QED
      BY <1>1, <1>4, <3>1 DEF Owed, Stage
  <2>2. R!Refuse(r)
    BY <1>1, <1>4, <2>1 DEF R!Refuse
  <2> QED
    BY <2>2
<1>5. CASE pc[r] = "serialized" /\ pc'[r] = "setup"
  <2>1. \A s \in Runs : Stage(s) # "running"
    <3>1. InFlight = {}
      BY <1>5 DEF RunStep, TakeSerialized, TakeInFlight, Enter, GoTo, HasRoom, Setup, StartPreview,
         EndPreview, EndRun, Inv, TypeOK
    <3> QED
      BY <3>1 DEF InFlight, Stage, Inv, TypeOK, RunStates
  <2>2. /\ Stage(r) = "waiting" /\ Stage(r)' = "running"
        /\ Owed(r) = 0 /\ Owed(r)' = 0
    BY <1>5 DEF Stage, Owed
  <2>3. R!Start(r)
    BY <1>1, <2>1, <2>2 DEF R!Start
  <2> QED
    BY <2>3
<1>6. CASE Stage(r) = "running" /\ pc'[r] = "done"
  <2>1. written[r] - handled[r] \in 0..1
    <3>1. CASE Setup(r)
      BY <3>1 DEF Setup, Inv, TypeOK, Stages
    <3>2. CASE EndRun(r)
      BY <3>2 DEF EndRun, Closed, Inv, TypeOK, Stages, Counts
    <3> QED
      BY <1>6, <3>1, <3>2 DEF RunStep, TakeSerialized, TakeInFlight, Enter, StartPreview, EndPreview,
         GoTo, Stage, Inv, TypeOK
  <2>2. Owed(r)' = written[r] - handled[r] /\ Stage(r)' = "returned"
    BY <1>1, <1>6 DEF Owed, Stage
  <2>3. R!Return(r)
    BY <1>1, <1>6, <2>1, <2>2 DEF R!Return
  <2> QED
    BY <2>3
<1>7. \/ Stage(r)' = Stage(r) /\ Owed(r)' = Owed(r)
      \/ Stage(r) = "waiting" /\ pc'[r] = "done"
      \/ pc[r] = "serialized" /\ pc'[r] = "setup"
      \/ Stage(r) = "running" /\ pc'[r] = "done"
  BY <1>1 DEF RunStep, TakeSerialized, TakeInFlight, Enter, Setup, StartPreview, EndPreview, EndRun,
     GoTo, Stage, Owed, Inv, TypeOK
<1> QED
  BY <1>3, <1>4, <1>5, <1>6, <1>7

\* An event that comes to the store of a returned run is the last of its log.
LEMMA HandleEventRefines ==
  ASSUME Inv, NEW r \in Runs, HandleEvent(r)
  PROVE  R!Next
<1>1. /\ processor[r] = "handling"
      /\ handled' = [handled EXCEPT ![r] = @ + 1]
      /\ UNCHANGED <<pc, written>>
  BY DEF HandleEvent
<1>2. \A s \in Runs : Stage(s)' = Stage(s)
  BY <1>1 DEF Stage
<1>3. \A s \in Runs \ {r} : Owed(s)' = Owed(s)
  BY <1>1 DEF Owed, Inv, TypeOK
<1>4. Stage(r) \in {"running", "returned"}
  BY <1>1 DEF Stage, Inv, TypeOK, RunStates, Stages
<1>5. CASE Stage(r) = "running"
  <2>1. Owed(r)' = Owed(r)
    BY <1>1, <1>5 DEF Owed, Stage
  <2>2. R!Store(r)
    BY <1>1, <1>2, <1>3, <1>5, <2>1 DEF R!Store
  <2> QED
    BY <2>2 DEF R!Next
<1>6. CASE Stage(r) = "returned"
  <2>1. pc[r] = "done"
    BY <1>6 DEF Stage
  <2>2. written[r] = handled[r] + 1
    BY <1>1, <2>1 DEF Inv, TypeOK, Stages, Counts
  <2>3. Owed(r) = 1 /\ Owed(r)' = 0
    BY <1>1, <2>1, <2>2 DEF Owed, Inv, TypeOK
  <2>4. R!StoreLate(r)
    BY <1>1, <1>2, <1>3, <1>6, <2>3 DEF R!StoreLate
  <2> QED
    BY <2>4 DEF R!Next
<1> QED
  BY <1>4, <1>5, <1>6

\* The preview only writes while its run goes on; the others do not show.
LEMMA OtherStepsRefine ==
  ASSUME Inv, NEW r \in Runs,
         WriteLine(r) \/ ForwarderStep(r) \/ StopProcessor(r) \/ Cancel(r)
  PROVE  UNCHANGED R!vars
<1>1. UNCHANGED <<pc, handled>>
  BY DEF WriteLine, ForwarderStep, TakeLine, Send, StopForwarder, StopProcessor, Cancel
<1>2. \A s \in Runs : Stage(s)' = Stage(s)
  BY <1>1 DEF Stage
<1>3. \A s \in Runs : pc[s] = "done" => written'[s] = written[s]
  BY DEF WriteLine, ForwarderStep, TakeLine, Send, StopForwarder, StopProcessor, Cancel, Inv,
     LogsAgree, TypeOK
<1>4. \A s \in Runs : Owed(s)' = Owed(s)
  BY <1>1, <1>3 DEF Owed
<1> QED
  BY <1>1, <1>2, <1>4 DEF R!vars

\* The two semaphores, the process, the two goroutines and Close are, to a caller and
\* to the store, a Runner: one preview at a time, and one event at most after Run has
\* returned (command.go:34-59, run.go:84, :247-262).
THEOREM RunnerRefined == Spec => KeepsRunner
<1>1. Init => R!Init
  BY DEF Init, R!Init, Stage, Owed
<1>2. Inv /\ [Next]_vars => [R!Next]_(R!vars)
  <2> SUFFICES ASSUME Inv, [Next]_vars PROVE R!Next \/ UNCHANGED R!vars
    OBVIOUS
  <2>1. CASE UNCHANGED vars
    BY <2>1 DEF vars, R!vars, Stage, Owed
  <2>2. ASSUME NEW r \in Runs, ProcessorStep(r) PROVE R!Next \/ UNCHANGED R!vars
    BY <2>2, HandleEventRefines, OtherStepsRefine DEF ProcessorStep
  <2> QED
    BY <2>1, <2>2, RunStepRefines, OtherStepsRefine DEF Next
<1> QED
  BY <1>1, <1>2, AlwaysInv, PTL DEF Spec, KeepsRunner, R!Spec

-----------------------------------------------------------------------------
(***************************************************************************)
(* What Close waits for comes in finitely many steps, unless the run was   *)
(* cancelled: the half of RunReturns that is not fairness.                 *)
(***************************************************************************)
\* There is a processor as long as there is a forwarder, and it goes away first only
\* when the context is cancelled.
Received ==
  \A r \in Runs :
    /\ forwarder[r] # "off" => processor[r] # "off"
    /\ processor[r] = "exited" => forwarder[r] = "stopped" \/ r \in cancelled

\* Close returns, or one of the two goroutines of r has something to do.
Moves(r) ==
  \/ Closed(r)
  \/ forwarder[r] = "reading" /\ (read[r] < written[r] \/ TailEnds(r))
  \/ forwarder[r] = "sending" /\ processor[r] = "selecting"
  \/ processor[r] = "handling"

\* The forwarder sends to a processor that a cancellation has sent home.
Abandoned(r) == r \in cancelled /\ forwarder[r] = "sending" /\ processor[r] = "exited"

\* The steps the goroutines of r have still to make when the preview has ended: a
\* line is taken, sent and handled, and both stop.
Left(r) ==
  3 * (written[r] - read[r])
    + (IF forwarder[r] = "sending" THEN 3 ELSE IF forwarder[r] = "reading" THEN 1 ELSE 0)
    + (IF processor[r] = "handling" THEN 2 ELSE IF processor[r] = "selecting" THEN 1 ELSE 0)

\* Close waits for nothing but the steps it counts (run.go:247-262), and only a
\* cancellation can take one of them away.
CloseMoves == \A r \in Runs : pc[r] = "closing" => Left(r) \in Nat /\ (Moves(r) \/ Abandoned(r))

\* While Close waits, whatever else goes on adds nothing to what it waits for, and
\* every step of one of the goroutines is one step less.
CloseCountsDown ==
  [][\A r \in Runs :
       pc[r] = "closing" =>
         /\ Left(r)' <= Left(r)
         /\ ForwarderStep(r) \/ ProcessorStep(r) => Left(r)' = Left(r) - 1]_vars

LEMMA ReceivedStep ==
  ASSUME Inv, Received, [Next]_vars
  PROVE  Received'
<1> SUFFICES ASSUME NEW s \in Runs
             PROVE  /\ forwarder'[s] # "off" => processor'[s] # "off"
                    /\ processor'[s] = "exited" => forwarder'[s] = "stopped" \/ s \in cancelled'
  BY DEF Received
<1> USE DEF Inv, TypeOK, Received
<1>1. CASE UNCHANGED vars
  BY <1>1 DEF vars
<1>2. ASSUME NEW r \in Runs, RunStep(r) PROVE Received'
  <2>1. CASE Setup(r)
    BY <2>1 DEF Setup
  <2>2. CASE UNCHANGED <<forwarder, processor, cancelled>>
    BY <2>2
  <2> QED
    BY <1>2, <2>1, <2>2 DEF RunStep, TakeSerialized, TakeInFlight, Enter, StartPreview, EndPreview,
       EndRun
<1>3. ASSUME NEW r \in Runs, ForwarderStep(r) PROVE Received'
  BY <1>3 DEF ForwarderStep, TakeLine, Send, StopForwarder
<1>4. ASSUME NEW r \in Runs, ProcessorStep(r) PROVE Received'
  BY <1>4 DEF ProcessorStep, HandleEvent, StopProcessor
<1>5. ASSUME NEW r \in Runs, WriteLine(r) \/ Cancel(r) PROVE Received'
  BY <1>5 DEF WriteLine, Cancel
<1> QED
  BY <1>1, <1>2, <1>3, <1>4, <1>5 DEF Next

\* A step of one of the goroutines of r.
LEMMA OwnStepCounts ==
  ASSUME Inv, NEW r \in Runs, ForwarderStep(r) \/ ProcessorStep(r)
  PROVE  Left(r)' = Left(r) - 1
<1> USE DEF Inv, TypeOK, Left
<1>1. CASE TakeLine(r)
  BY <1>1 DEF TakeLine
<1>2. CASE Send(r)
  BY <1>2 DEF Send
<1>3. CASE StopForwarder(r)
  BY <1>3 DEF StopForwarder
<1>4. CASE HandleEvent(r)
  BY <1>4 DEF HandleEvent
<1>5. CASE StopProcessor(r)
  BY <1>5 DEF StopProcessor
<1> QED
  BY <1>1, <1>2, <1>3, <1>4, <1>5 DEF ForwarderStep, ProcessorStep

\* Any other step, once the preview has ended: it has no line to add, and other
\* previews write to other logs.
LEMMA OtherStepCounts ==
  ASSUME Inv, NEW r \in Runs, pc[r] = "closing", [Next]_vars, ~ForwarderStep(r), ~ProcessorStep(r)
  PROVE  Left(r)' = Left(r)
<1> SUFFICES UNCHANGED <<written[r], read[r], forwarder[r], processor[r]>>
  BY DEF Left
<1> USE DEF Inv, TypeOK
<1>1. CASE UNCHANGED vars
  BY <1>1 DEF vars
<1>2. ASSUME NEW s \in Runs, RunStep(s)
      PROVE  UNCHANGED <<written[r], read[r], forwarder[r], processor[r]>>
  BY <1>2 DEF RunStep, TakeSerialized, TakeInFlight, Enter, Setup, StartPreview, EndPreview, EndRun
<1>3. ASSUME NEW s \in Runs, s # r, ForwarderStep(s) \/ ProcessorStep(s)
      PROVE  UNCHANGED <<written[r], read[r], forwarder[r], processor[r]>>
  BY <1>3 DEF ForwarderStep, TakeLine, Send, StopForwarder, ProcessorStep, HandleEvent, StopProcessor
<1>4. ASSUME NEW s \in Runs, WriteLine(s) \/ Cancel(s)
      PROVE  UNCHANGED <<written[r], read[r], forwarder[r], processor[r]>>
  BY <1>4 DEF WriteLine, Cancel, LogsAgree
<1> QED
  BY <1>1, <1>2, <1>3, <1>4 DEF Next

\* A run that waits in Close is not abandoned unless it was cancelled, and what it
\* waits for is a number of steps that only goes down and of which the next can
\* always be made. With fairness this is RunReturns; without the exemption it is the
\* wait that preview_cancel shows never to end.
THEOREM CloseTerminates == Spec => []CloseMoves /\ CloseCountsDown
<1>1. Init => Received
  BY DEF Init, Received
<1>2. Inv /\ Received /\ [Next]_vars => Received'
  BY ReceivedStep
<1>3. Inv /\ Received => CloseMoves
  <2> SUFFICES ASSUME Inv, Received, NEW r \in Runs, pc[r] = "closing"
               PROVE  Left(r) \in Nat /\ (Moves(r) \/ Abandoned(r))
    BY DEF CloseMoves
  <2>1. Left(r) \in Nat
    BY DEF Inv, TypeOK, Left
  <2>2. Moves(r) \/ Abandoned(r)
    BY DEF Inv, TypeOK, Stages, Received, Moves, Abandoned, Closed, TailEnds
  <2> QED
    BY <2>1, <2>2
<1>4. Inv /\ [Next]_vars
        => [\A r \in Runs :
              pc[r] = "closing" =>
                /\ Left(r)' <= Left(r)
                /\ ForwarderStep(r) \/ ProcessorStep(r) => Left(r)' = Left(r) - 1]_vars
  <2> SUFFICES ASSUME Inv, [Next]_vars, NEW r \in Runs, pc[r] = "closing"
               PROVE  /\ Left(r)' <= Left(r)
                      /\ ForwarderStep(r) \/ ProcessorStep(r) => Left(r)' = Left(r) - 1
    OBVIOUS
  <2>1. Left(r) \in Int
    BY DEF Inv, TypeOK, Left
  <2> QED
    BY <2>1, OwnStepCounts, OtherStepCounts
<1> QED
  BY <1>1, <1>2, <1>3, <1>4, AlwaysInv, PTL DEF Spec, CloseCountsDown
=============================================================================
