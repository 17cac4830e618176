----------------------------- MODULE SessionProof -----------------------------
(***************************************************************************)
(* For any number of notifications and any documents: every session keeps  *)
(* the protocol of Snapshots, each goroutine holds exactly the snapshots   *)
(* it works with, nothing works any more when shutdown has been answered,  *)
(* results are published whole and in order, and nothing waits for ever    *)
(* but in three waits that are known.                                      *)
(*                                                                         *)
(* The proofs about Snapshots hold for the holders of a session (SP).      *)
(***************************************************************************)
EXTENDS Session, FiniteSetTheorems, TLAPS

SP == INSTANCE SnapshotsProof WITH MaxSeq <- MaxMods

-----------------------------------------------------------------------------
(***************************************************************************)
(* The inductive invariant.                                                *)
(***************************************************************************)
\* How far the session, the read loop, the view and the load are goes together.
Phases ==
  /\ view = "absent" <=> load = "none"
  /\ view = "absent" => lastMod = 0 /\ loop = "ready"
  /\ view \in {"closed", "dropped"} => state = "shutDown"
  /\ state = "initializing" => pc[0] = "none"
  /\ loop \in {"awaiting", "replaced"} => state = "initialized" /\ lastMod < MaxMods
  /\ loop = "closed" => view = "closed"
  /\ loop = "draining" => view = "dropped"
  /\ Over => wg = 0

\* The newest snapshot that a notification has made: its run is scheduled, or not
\* yet.
Newest == IF loop = "replaced" THEN lastMod + 1 ELSE lastMod

\* A run works on its own notification's snapshot or a later one, and nothing
\* later than the last notification's was ever shown, unless its run came too early
\* and got the snapshot of the next, in which case it still has it or is done.
Order ==
  /\ view = "open" => current = Newest
  /\ \A d \in Runs : d > lastMod => pc[d] = "none"
  /\ held[RunHolder(0)] \in {S!NoSnap, 0}
  /\ \A d \in Mods : held[RunHolder(d)] # S!NoSnap => held[RunHolder(d)] \in d..Newest
  /\ \A u \in URIs : latest[u] > lastMod =>
       /\ latest[u] = Newest
       /\ lastMod \in Mods
       /\ held[RunHolder(lastMod)] = Newest \/ pc[lastMod] = "done"

\* One update at a time; what it has not to publish any more is published.
Updates ==
  /\ \A d, e \in Runs : pc[d] = "publishing" /\ pc[e] = "publishing" => d = e
  /\ \A d \in Runs : pc[d] = "publishing" =>
       \A u \in tracked \ todo[d] : recorded[u] = held[RunHolder(d)] /\ shown[u] = held[RunHolder(d)]

Inv == TypeOK /\ HoldsWhileWorking /\ Phases /\ Order /\ Updates

\* What holds of the snapshots of a session because it keeps their protocol.
SnapshotFacts == SP!TypeOK /\ SP!CurrentIffOpen /\ SP!DrainedMeansUnheld

-----------------------------------------------------------------------------
(***************************************************************************)
(* Holders.                                                                *)
(***************************************************************************)
\* There are finitely many holders: one load and two for every run.
LEMMA HoldersFinite == SP!IsFiniteSet(Holders)
<1>1. IsFiniteSet(Runs)
  BY FS_Interval, MaxModsAssumption DEF Runs
<1>2. IsFiniteSet({"run"} \cup {"file"})
  BY FS_AddElement, FS_Singleton
<1>3. IsFiniteSet(Runs \X ({"run"} \cup {"file"}))
  BY <1>1, <1>2, FS_Product
<1>4. IsFiniteSet((Runs \X ({"run"} \cup {"file"})) \cup {Loader})
  BY <1>3, FS_AddElement
<1>5. {"run"} \cup {"file"} = {"run", "file"}
  OBVIOUS
<1>6. IsFiniteSet(Holders)
  BY <1>4, <1>5 DEF Holders
<1> QED
  BY <1>6 DEF IsFiniteSet, SP!IsFiniteSet

\* The holders of a session are all different.
LEMMA HoldersDistinct ==
  /\ Loader \in Holders
  /\ \A d \in Runs : RunHolder(d) \in Holders /\ FileHolder(d) \in Holders
  /\ \A d \in Runs : RunHolder(d) # Loader /\ FileHolder(d) # Loader
  /\ \A d, e \in Runs : RunHolder(d) # FileHolder(e)
  /\ \A d, e \in Runs : d # e => RunHolder(d) # RunHolder(e) /\ FileHolder(d) # FileHolder(e)
  BY DEF Holders, RunHolder, FileHolder, Loader

LEMMA RunsAreNumbers == Runs \subseteq Int /\ 0 \in Runs /\ Mods = Runs \ {0}
  BY MaxModsAssumption DEF Runs, Mods

-----------------------------------------------------------------------------
(***************************************************************************)
(* Refinement of Snapshots.                                                *)
(***************************************************************************)
\* Every step of a session is a step of Snapshots or leaves snapshots alone.
LEMMA StepKeepsSnapshots == [Next]_vars => [S!Next]_(S!vars)
<1> SUFFICES ASSUME Next, snapVars' # snapVars PROVE S!Next
  BY DEF vars, snapVars, S!vars
<1> USE HoldersDistinct DEF GiveBack
<1>1. ASSUME NEW d \in Runs, RunStep(d) PROVE S!Next
  <2>1. CASE d = 0 /\ CreateView
    BY <2>1 DEF CreateView, S!Next
  <2>2. CASE GetSnapshot(d)
    BY <2>2 DEF GetSnapshot, Crash, snapVars, S!Next
  <2>3. CASE GetFileSnapshot(d)
    BY <2>3 DEF GetFileSnapshot, Crash, snapVars, S!Next
  <2>4. CASE \E u \in URIs : ParseFile(d, u)
    BY <2>4 DEF ParseFile, Crash, snapVars, S!Next
  <2>5. CASE EndRun(d)
    BY <2>5 DEF EndRun, snapVars, S!Next
  <2>6. CASE d = 0 /\ AwaitInitialized
    BY <2>6 DEF AwaitInitialized, snapVars
  <2>7. CASE TakeSlot(d) \/ CheckInitialized(d) \/ StartPreview(d)
    BY <2>7 DEF TakeSlot, CheckInitialized, StartPreview, snapVars
  <2>8. CASE \E files \in SUBSET URIs : FinishPreview(d, files)
    BY <2>8 DEF FinishPreview, snapVars
  <2>9. CASE BeginUpdate(d) \/ \E u \in URIs : Publish(d, u)
    BY <2>9 DEF BeginUpdate, Publish, snapVars
  <2> QED
    BY <1>1, <2>1, <2>2, <2>3, <2>4, <2>5, <2>6, <2>7, <2>8, <2>9 DEF RunStep
<1>2. ASSUME NEW d \in Runs, Answer(d) \/ Wedge(d) PROVE S!Next
  BY <1>2 DEF Answer, WorkStarted, ErrorShown, Wedge, snapVars
<1>3. CASE LoopStep
  BY <1>3 DEF LoopStep, Invalidate, Schedule, DropView, FinishShutdown, snapVars, S!Next
<1>4. CASE LoadStep
  BY <1>4 DEF LoadStep, StartLoad, FinishLoad, EndLoad, snapVars, S!Next
<1>5. CASE Initialized
  BY <1>5 DEF Initialized, snapVars
<1>6. CASE Shutdown
  BY <1>6 DEF Shutdown, Crash, snapVars, S!Next
<1>7. ASSUME NEW kind \in Kinds, NEW uri \in URIs, Modify(kind, uri) PROVE S!Next
  BY <1>7 DEF Modify, Crash, snapVars
<1> QED
  BY <1>1, <1>2, <1>3, <1>4, <1>5, <1>6, <1>7 DEF Next

\* The handlers and runs of every session acquire and release snapshots in the
\* order that Snapshots allows.
THEOREM SessionKeepsSnapshots == Spec => KeepsSnapshots
<1>1. Init => S!Init
  BY DEF Init
<1> QED
  BY <1>1, StepKeepsSnapshots, PTL DEF Spec, KeepsSnapshots, S!Spec

\* The two instances of Snapshots say the same.
LEMMA SameSnapshots == S!Spec => SP!Spec
<1> USE DEF S!NoSnap, SP!NoSnap, S!Seqs, SP!Seqs
<1>1. S!Init => SP!Init
  BY DEF S!Init, SP!Init
<1>2. [S!Next]_(S!vars) => [SP!Next]_(SP!vars)
  BY DEF S!Next, SP!Next, S!vars, SP!vars, S!CreateView, SP!CreateView, S!Acquire,
     SP!Acquire, S!Release, SP!Release, S!Replace, SP!Replace, S!CloseView, SP!CloseView,
     S!DropView, SP!DropView, S!DoneCalls, SP!DoneCalls, S!RefsAfterDrop, SP!RefsAfterDrop,
     S!RefsAtCreation, SP!RefsAtCreation, S!NewWG, SP!NewWG
<1> QED
  BY <1>1, <1>2, PTL DEF S!Spec, SP!Spec

LEMMA FactsHold == Spec => []SnapshotFacts
<1>1. MaxMods \in Nat
  BY MaxModsAssumption
<1>2. SP!Spec => []SP!IInv
  BY <1>1, HoldersFinite, SP!CountsAlwaysExact, PTL
<1>3. SP!Spec => []SP!DrainedMeansUnheld
  BY <1>1, HoldersFinite, SP!WaitMeansUnheld, PTL
<1>4. SP!IInv => SP!TypeOK /\ SP!CurrentIffOpen
  BY DEF SP!IInv
<1>5. SP!TypeOK /\ SP!CurrentIffOpen /\ SP!DrainedMeansUnheld => SnapshotFacts
  BY DEF SnapshotFacts
<1> QED
  BY <1>2, <1>3, <1>4, <1>5, SessionKeepsSnapshots, SameSnapshots, PTL DEF KeepsSnapshots

-----------------------------------------------------------------------------
(***************************************************************************)
(* Types.                                                                  *)
(***************************************************************************)
LEMMA TypeOKInit == Init => TypeOK
<1> SUFFICES ASSUME Init PROVE TypeOK
  OBVIOUS
<1>1. S!TypeOK
  BY MaxModsAssumption DEF Init, S!Init, S!TypeOK, S!Seqs, S!NoSnap, S!ViewStates
<1>2. pc \in [Runs -> RunStates]
  BY DEF Init, RunStates
<1>3. critical \in BOOLEAN /\ crashed \in BOOLEAN
  BY Zenon DEF Init
<1> QED
  BY <1>1, <1>2, <1>3, MaxModsAssumption DEF Init, TypeOK, States, LoopStates, LoadStates

\* The snapshot part of TypeOK comes with the refinement.
LEMMA TypeOKStep ==
  ASSUME TypeOK, Phases, SnapshotFacts', Next
  PROVE  TypeOK'
<1>1. S!TypeOK'
  BY DEF SnapshotFacts, S!TypeOK, SP!TypeOK, S!Seqs, SP!Seqs, S!NoSnap, SP!NoSnap,
     S!ViewStates, SP!ViewStates
<1>2. \A d \in Runs : held[RunHolder(d)] \in S!Seqs \cup {S!NoSnap}
  BY HoldersDistinct DEF TypeOK, S!TypeOK
<1>3. \A d \in Runs : {StartWork(d), AfterStart(d), AfterAcquire(d)} \subseteq RunStates
  BY DEF StartWork, AfterStart, AfterAcquire, RunStates, WorkStates
<1> USE <1>1, RunsAreNumbers, MaxModsAssumption DEF TypeOK, GoTo, RunStates, WorkStates, SlotStates
<1>4. CASE Initialized
  BY <1>4 DEF Initialized, diagVars, States
<1>5. ASSUME NEW kind \in Kinds, NEW uri \in URIs, Modify(kind, uri) PROVE TypeOK'
  BY <1>5 DEF Modify, Crash, loopVars, runVars, diagVars, LoopStates, Mods
<1>6. CASE Shutdown
  BY <1>6 DEF Shutdown, Crash, loopVars, runVars, diagVars, LoopStates, States
<1>7. CASE LoopStep
  <2>1. CASE Invalidate
    BY <2>1 DEF Invalidate, runVars, diagVars, LoopStates
  <2>2. CASE Schedule
    BY <2>2 DEF Schedule, diagVars, LoopStates, Phases, Runs
  <2>3. CASE DropView
    BY <2>3 DEF DropView, runVars, diagVars, LoopStates
  <2>4. CASE FinishShutdown
    BY <2>4 DEF FinishShutdown, runVars, diagVars, LoopStates
  <2> QED
    BY <1>7, <2>1, <2>2, <2>3, <2>4 DEF LoopStep
<1>8. CASE LoadStep
  BY <1>8 DEF LoadStep, StartLoad, FinishLoad, EndLoad, loopVars, runVars, diagVars,
     LoadStates
<1>9. ASSUME NEW d \in Runs, Answer(d) \/ Wedge(d) PROVE TypeOK'
  <2>1. CASE WorkStarted(d)
    BY <1>3, <2>1 DEF WorkStarted, loopVars, diagVars
  <2>2. CASE ErrorShown(d)
    BY <2>2 DEF ErrorShown, loopVars
  <2>3. CASE Wedge(d)
    BY <2>3 DEF Wedge, loopVars, diagVars
  <2> QED
    BY <1>9, <2>1, <2>2, <2>3 DEF Answer
<1>10. ASSUME NEW d \in Runs, RunStep(d) PROVE TypeOK'
  <2>1. CASE d = 0 /\ (CreateView \/ AwaitInitialized)
    BY <1>3, <2>1 DEF CreateView, AwaitInitialized, loopVars, diagVars, LoadStates
  <2>2. CASE GetSnapshot(d)
    BY <1>3, <2>2 DEF GetSnapshot, Crash, loopVars, runVars, diagVars
  <2>3. CASE TakeSlot(d)
    BY <2>3 DEF TakeSlot, loopVars, diagVars
  <2>4. CASE CheckInitialized(d) \/ StartPreview(d)
    BY <2>4 DEF CheckInitialized, StartPreview, UpdateCritical, InitialErr, loopVars
  <2>5. CASE \E files \in SUBSET URIs : FinishPreview(d, files)
    BY <2>5 DEF FinishPreview, loopVars, diagVars
  <2>6. CASE GetFileSnapshot(d)
    BY <2>6 DEF GetFileSnapshot, Crash, loopVars, runVars, diagVars
  <2>7. CASE \E u \in URIs : ParseFile(d, u)
    <3> PICK u \in URIs : ParseFile(d, u)
      BY <2>7
    <3>1. CASE Crash
      BY <3>1 DEF Crash, loopVars, runVars, diagVars
    <3>2. CASE ~Crash
      <4>1. found' \in [Runs -> SUBSET URIs]
        BY <3>2 DEF ParseFile
      <4> QED
        BY <3>2, <4>1 DEF ParseFile, loopVars, diagVars
    <3> QED
      BY <3>1, <3>2
  <2>8. CASE BeginUpdate(d)
    BY <2>8 DEF BeginUpdate, ToPublish, loopVars
  <2>9. CASE \E u \in URIs : Publish(d, u)
    BY <1>2, <2>9 DEF Publish, Later, loopVars
  <2>10. CASE EndRun(d)
    BY <2>10 DEF EndRun, loopVars, diagVars
  <2> QED
    BY <1>10, <2>1, <2>2, <2>3, <2>4, <2>5, <2>6, <2>7, <2>8, <2>9, <2>10 DEF RunStep
<1> QED
  BY <1>4, <1>5, <1>6, <1>7, <1>8, <1>9, <1>10 DEF Next

-----------------------------------------------------------------------------
(***************************************************************************)
(* The rest of the invariant, action by action.                            *)
(***************************************************************************)
Rest == HoldsWhileWorking /\ Phases /\ Order /\ Updates

LEMMA RestInit == Init => Rest
<1> SUFFICES ASSUME Init PROVE Rest
  OBVIOUS
<1> USE HoldersDistinct, RunsAreNumbers, MaxModsAssumption DEF Init, S!Init, S!NoSnap
<1>1. HoldsWhileWorking
  BY DEF HoldsWhileWorking, WorkStates, SlotStates
<1>2. Phases
  BY DEF Phases, Over
<1>3. Order
  BY DEF Order
<1>4. Updates
  BY DEF Updates
<1> QED
  BY <1>1, <1>2, <1>3, <1>4 DEF Rest

\* The states of a run that has a snapshot, is not parsing and not publishing.
PlainStates == WorkStates \ {"parsing", "publishing"}

\* A run that goes from one plain state to another, touching nothing that the
\* invariant relates, keeps it.
LEMMA PlainMove ==
  ASSUME Inv, TypeOK', NEW d \in Runs, NEW q \in PlainStates,
         pc[d] \in PlainStates, GoTo(d, q),
         UNCHANGED <<snapVars, loopVars, load, tracked, recorded, shown, latest>>,
         \A e \in Runs : e # d => todo'[e] = todo[e]
  PROVE  Rest'
<1> USE HoldersDistinct, RunsAreNumbers DEF GoTo, snapVars, loopVars, PlainStates, WorkStates,
        SlotStates, TypeOK, Inv
<1>1. HoldsWhileWorking'
  BY DEF HoldsWhileWorking
<1>2. Phases'
  BY DEF Phases, Over
<1>3. Order'
  BY DEF Order, Newest
<1>4. Updates'
  BY DEF Updates
<1> QED
  BY <1>1, <1>2, <1>3, <1>4 DEF Rest


\* The actions of the read loop.
LEMMA LoopKeepsRest ==
  ASSUME Inv, SnapshotFacts, TypeOK', ~Crash,
         Initialized \/ (\E kind \in Kinds, uri \in URIs : Modify(kind, uri)) \/ Shutdown
           \/ LoopStep
  PROVE  Rest'
<1> USE HoldersDistinct, RunsAreNumbers
    DEF Inv, GoTo, WorkStates, SlotStates, TypeOK, S!TypeOK, S!Seqs, S!NoSnap
<1>1. CASE Initialized
  <2>1. HoldsWhileWorking'
    BY <1>1 DEF Initialized, snapVars, Phases, HoldsWhileWorking
  <2>2. Phases'
    BY <1>1 DEF Initialized, snapVars, Phases, Over
  <2>3. Order'
    BY <1>1 DEF Initialized, snapVars, Phases, diagVars, Order, Newest
  <2>4. Updates'
    BY <1>1 DEF Initialized, snapVars, diagVars, Updates
  <2> QED
    BY <2>1, <2>2, <2>3, <2>4 DEF Rest
<1>2. ASSUME NEW kind \in Kinds, NEW uri \in URIs, Modify(kind, uri) PROVE Rest'
  <2>1. HoldsWhileWorking'
    BY <1>2 DEF Modify, snapVars, runVars, HoldsWhileWorking
  <2>2. Phases'
    BY <1>2 DEF Modify, snapVars, runVars, Phases, Over
  <2>3. Order'
    BY <1>2 DEF Modify, snapVars, runVars, Order, Newest
  <2>4. Updates'
    BY <1>2 DEF Modify, DiagnosticsMuFree, snapVars, runVars, Updates
  <2> QED
    BY <2>1, <2>2, <2>3, <2>4 DEF Rest
<1>3. CASE Shutdown
  <2>1. /\ state = "initialized" /\ state' = "shutDown" /\ loop = "ready"
        /\ \/ view = "absent" /\ UNCHANGED <<snapVars, loop>>
           \/ S!CloseView /\ loop' = "closed"
        /\ UNCHANGED <<lastMod, load, runVars, diagVars>>
    BY <1>3 DEF Shutdown
  <2>2. HoldsWhileWorking'
    BY <2>1 DEF S!CloseView, snapVars, runVars, HoldsWhileWorking
  <2>3. Phases'
    BY <2>1 DEF S!CloseView, snapVars, runVars, Phases, Over
  <2>4. Order'
    BY <2>1 DEF S!CloseView, snapVars, runVars, diagVars, Order, Newest
  <2>5. Updates'
    BY <2>1 DEF S!CloseView, snapVars, runVars, diagVars, Updates
  <2> QED
    BY <2>2, <2>3, <2>4, <2>5 DEF Rest
<1>4. CASE Invalidate
  <2>1. HoldsWhileWorking'
    BY <1>4 DEF Invalidate, S!Replace, runVars, HoldsWhileWorking
  <2>2. Phases'
    BY <1>4 DEF Invalidate, S!Replace, runVars, Phases, Over
  <2>3. Order'
    BY <1>4 DEF Invalidate, S!Replace, runVars, diagVars, Order, Newest
  <2>4. Updates'
    BY <1>4 DEF Invalidate, S!Replace, runVars, diagVars, Updates
  <2> QED
    BY <2>1, <2>2, <2>3, <2>4 DEF Rest
<1>5. CASE Schedule
  <2>1. pc[lastMod + 1] = "none" /\ lastMod + 1 \in Runs
    BY <1>5, MaxModsAssumption DEF Schedule, Order, Phases, Runs
  <2>2. HoldsWhileWorking'
    BY <1>5, <2>1 DEF Schedule, snapVars, HoldsWhileWorking
  <2>3. Phases'
    BY <1>5, <2>1 DEF Schedule, snapVars, Phases, Over
  <2>4. Order'
    BY <1>5, <2>1 DEF Schedule, snapVars, diagVars, Order, Newest
  <2>5. Updates'
    BY <1>5, <2>1 DEF Schedule, snapVars, diagVars, Updates
  <2> QED
    BY <2>2, <2>3, <2>4, <2>5 DEF Rest
<1>6. CASE DropView
  <2>1. HoldsWhileWorking'
    BY <1>6 DEF DropView, S!DropView, runVars, HoldsWhileWorking
  <2>2. Phases'
    BY <1>6 DEF DropView, S!DropView, runVars, Phases, Over
  <2>3. Order'
    BY <1>6 DEF DropView, S!DropView, runVars, diagVars, Order, Newest
  <2>4. Updates'
    BY <1>6 DEF DropView, S!DropView, runVars, diagVars, Updates
  <2> QED
    BY <2>1, <2>2, <2>3, <2>4 DEF Rest
<1>7. CASE FinishShutdown
  <2>1. HoldsWhileWorking'
    BY <1>7 DEF FinishShutdown, snapVars, runVars, HoldsWhileWorking
  <2>2. Phases'
    BY <1>7 DEF FinishShutdown, Drained, snapVars, runVars, Phases, Over
  <2>3. Order'
    BY <1>7 DEF FinishShutdown, snapVars, runVars, diagVars, Order, Newest
  <2>4. Updates'
    BY <1>7 DEF FinishShutdown, snapVars, runVars, diagVars, Updates
  <2> QED
    BY <2>1, <2>2, <2>3, <2>4 DEF Rest
<1> QED
  BY <1>1, <1>2, <1>3, <1>4, <1>5, <1>6, <1>7 DEF LoopStep

\* While a holder keeps a snapshot the session is not over.
LEMMA HeldMeansNotOver ==
  ASSUME Inv, SnapshotFacts, NEW h \in Holders, held[h] # S!NoSnap
  PROVE  ~Over
  BY DEF Inv, Phases, Over, SnapshotFacts, SP!DrainedMeansUnheld, S!NoSnap, SP!NoSnap

\* The actions of the load goroutine.
LEMMA LoadKeepsRest ==
  ASSUME Inv, SnapshotFacts, TypeOK', LoadStep
  PROVE  Rest'
<1> USE HoldersDistinct, RunsAreNumbers DEF Inv, TypeOK, S!TypeOK, S!Seqs, S!NoSnap
<1>1. CASE StartLoad \/ FinishLoad
  <2>1. HoldsWhileWorking'
    BY <1>1 DEF StartLoad, FinishLoad, snapVars, runVars, HoldsWhileWorking
  <2>2. Phases'
    BY <1>1 DEF StartLoad, FinishLoad, snapVars, loopVars, runVars, Phases, Over
  <2>3. Order'
    BY <1>1 DEF StartLoad, FinishLoad, snapVars, loopVars, runVars, diagVars, Order, Newest
  <2>4. Updates'
    BY <1>1 DEF StartLoad, FinishLoad, snapVars, runVars, diagVars, Updates
  <2> QED
    BY <2>1, <2>2, <2>3, <2>4 DEF Rest
<1>2. CASE EndLoad
  <2>1. ~Over
    BY <1>2, HeldMeansNotOver DEF EndLoad, GiveBack, S!Release
  <2>2. HoldsWhileWorking'
    BY <1>2 DEF EndLoad, GiveBack, S!Release, runVars, HoldsWhileWorking
  <2>3. Phases'
    BY <1>2, <2>1 DEF EndLoad, GiveBack, S!Release, loopVars, runVars, Phases, Over
  <2>4. Order'
    BY <1>2 DEF EndLoad, GiveBack, S!Release, loopVars, runVars, diagVars, Order, Newest
  <2>5. Updates'
    BY <1>2 DEF EndLoad, GiveBack, S!Release, runVars, diagVars, Updates
  <2> QED
    BY <2>2, <2>3, <2>4, <2>5 DEF Rest
<1> QED
  BY <1>1, <1>2 DEF LoadStep

\* The actions of a run that move it from one plain state to another.
LEMMA PlainActionsKeepRest ==
  ASSUME Inv, TypeOK', NEW d \in Runs,
         \/ WorkStarted(d) \/ (d = 0 /\ AwaitInitialized) \/ TakeSlot(d)
         \/ CheckInitialized(d) \/ StartPreview(d) \/ ErrorShown(d)
         \/ (\E files \in SUBSET URIs : FinishPreview(d, files)) \/ Wedge(d)
  PROVE  Rest'
<1>1. PICK q \in PlainStates : GoTo(d, q)
  <2>1. AfterStart(d) \in PlainStates
    BY DEF AfterStart, PlainStates, WorkStates, SlotStates
  <2> QED
    BY <2>1 DEF PlainStates, WorkStates, SlotStates, WorkStarted, AwaitInitialized, TakeSlot,
       CheckInitialized, UpdateCritical, StartPreview, ErrorShown, FinishPreview, Wedge
<1>2. pc[d] \in PlainStates
  BY DEF PlainStates, WorkStates, SlotStates, WorkStarted, AwaitInitialized, TakeSlot,
     CheckInitialized, StartPreview, ErrorShown, FinishPreview, Wedge
<1>3. UNCHANGED <<snapVars, loopVars, load, tracked, recorded, shown, latest>>
  BY DEF diagVars, WorkStarted, AwaitInitialized, TakeSlot, CheckInitialized, StartPreview,
     ErrorShown, FinishPreview, Wedge
<1>4. \A e \in Runs : e # d => todo'[e] = todo[e]
  BY DEF WorkStarted, AwaitInitialized, TakeSlot, CheckInitialized, StartPreview,
     ErrorShown, FinishPreview, Wedge, Inv, TypeOK
<1> QED
  BY <1>1, <1>2, <1>3, <1>4, PlainMove

\* The actions of a run that take a snapshot or give one back.
LEMMA HoldingActionsKeepRest ==
  ASSUME Inv, SnapshotFacts, TypeOK', ~Crash, NEW d \in Runs,
         \/ (d = 0 /\ CreateView) \/ GetSnapshot(d) \/ GetFileSnapshot(d)
         \/ (\E u \in URIs : ParseFile(d, u)) \/ EndRun(d)
  PROVE  Rest'
<1> USE HoldersDistinct, RunsAreNumbers
    DEF Inv, GoTo, GiveBack, WorkStates, SlotStates, TypeOK, S!TypeOK, S!Seqs, S!NoSnap
<1>1. CASE d = 0 /\ CreateView
  <2>1. /\ StartWork(0) \in WorkStates \ {"parsing", "publishing"}
        /\ S!CreateView(Loader, RunHolder(0))
        /\ pc' = [pc EXCEPT ![0] = StartWork(0)]
        /\ load' = "pending"
        /\ pc[0] = "spawned"
        /\ UNCHANGED <<loopVars, todo, diagVars>>
    BY <1>1 DEF CreateView, StartWork, AfterStart
  <2>2. HoldsWhileWorking'
    BY <2>1 DEF S!CreateView, HoldsWhileWorking
  <2>3. Phases'
    BY <2>1 DEF S!CreateView, loopVars, Phases, Over
  <2>4. Order'
    BY <2>1 DEF S!CreateView, loopVars, diagVars, Phases, Order, Newest
  <2>5. Updates'
    BY <2>1 DEF S!CreateView, diagVars, Updates
  <2> QED
    BY <2>2, <2>3, <2>4, <2>5 DEF Rest
<1>2. CASE GetSnapshot(d) /\ pc'[d] = "done"
  <2>1. /\ pc[d] = "spawned"
        /\ pc' = [pc EXCEPT ![d] = "done"]
        /\ UNCHANGED <<snapVars, loopVars, load, todo, diagVars>>
    BY <1>2 DEF GetSnapshot, AfterAcquire, StartWork, AfterStart
  <2>2. HoldsWhileWorking'
    BY <2>1 DEF snapVars, HoldsWhileWorking
  <2>3. Phases'
    BY <2>1 DEF snapVars, loopVars, Phases, Over
  <2>4. Order'
    BY <2>1 DEF snapVars, loopVars, diagVars, Order, Newest
  <2>5. Updates'
    BY <2>1 DEF snapVars, diagVars, Updates
  <2> QED
    BY <2>2, <2>3, <2>4, <2>5 DEF Rest
<1>3. CASE GetSnapshot(d) /\ pc'[d] # "done"
  <2>1. /\ d # 0
        /\ pc[d] = "spawned"
        /\ S!Acquire(RunHolder(d))
        /\ AfterAcquire(d) \in WorkStates \ {"parsing", "publishing"}
        /\ pc' = [pc EXCEPT ![d] = AfterAcquire(d)]
        /\ UNCHANGED <<loopVars, load, todo, diagVars>>
    BY <1>3 DEF GetSnapshot, AfterAcquire, StartWork, AfterStart
  <2>2. HoldsWhileWorking'
    BY <2>1 DEF S!Acquire, HoldsWhileWorking
  <2>3. Phases'
    BY <2>1 DEF S!Acquire, loopVars, Phases, Over
  <2>4. Order'
    BY <2>1 DEF S!Acquire, loopVars, diagVars, Phases, Order, Newest
  <2>5. Updates'
    BY <2>1 DEF S!Acquire, diagVars, Updates
  <2> QED
    BY <2>2, <2>3, <2>4, <2>5 DEF Rest
<1>4. CASE GetFileSnapshot(d)
  <2>1. /\ pc[d] = "capturing"
        /\ S!Acquire(FileHolder(d))
        /\ pc' = [pc EXCEPT ![d] = "parsing"]
        /\ UNCHANGED <<loopVars, load, todo, diagVars>>
    BY <1>4 DEF GetFileSnapshot
  <2>2. HoldsWhileWorking'
    BY <2>1 DEF S!Acquire, HoldsWhileWorking
  <2>3. Phases'
    BY <2>1 DEF S!Acquire, loopVars, Phases, Over
  <2>4. Order'
    BY <2>1 DEF S!Acquire, loopVars, diagVars, Order, Newest
  <2>5. Updates'
    BY <2>1 DEF S!Acquire, diagVars, Updates
  <2> QED
    BY <2>2, <2>3, <2>4, <2>5 DEF Rest
<1>5. ASSUME NEW u \in URIs, ParseFile(d, u) PROVE Rest'
  <2>1. PICK q \in {"updating", "capturing"} :
        /\ pc[d] = "parsing"
        /\ S!Release(FileHolder(d))
        /\ pc' = [pc EXCEPT ![d] = q]
        /\ \A e \in Runs : e # d => todo'[e] = todo[e]
        /\ UNCHANGED <<loopVars, load, diagVars>>
    BY <1>5 DEF ParseFile
  <2>2. ~Over
    BY <2>1, HeldMeansNotOver DEF S!Release
  <2>3. HoldsWhileWorking'
    BY <2>1 DEF S!Release, HoldsWhileWorking
  <2>4. Phases'
    BY <2>1, <2>2 DEF S!Release, loopVars, Phases, Over
  <2>5. Order'
    BY <2>1 DEF S!Release, loopVars, diagVars, Order, Newest
  <2>6. Updates'
    BY <2>1 DEF S!Release, diagVars, Updates
  <2> QED
    BY <2>3, <2>4, <2>5, <2>6 DEF Rest
<1>6. CASE EndRun(d)
  <2>1. /\ pc[d] = "ending"
        /\ S!Release(RunHolder(d))
        /\ pc' = [pc EXCEPT ![d] = "done"]
        /\ UNCHANGED <<loopVars, load, todo, diagVars>>
    BY <1>6 DEF EndRun
  <2>2. ~Over
    BY <2>1, HeldMeansNotOver DEF S!Release
  <2>3. HoldsWhileWorking'
    BY <2>1 DEF S!Release, HoldsWhileWorking
  <2>4. Phases'
    BY <2>1, <2>2 DEF S!Release, loopVars, Phases, Over
  <2>5. Order'
    BY <2>1 DEF S!Release, loopVars, diagVars, Order, Newest
  <2>6. Updates'
    BY <2>1 DEF S!Release, diagVars, Updates
  <2> QED
    BY <2>3, <2>4, <2>5, <2>6 DEF Rest
<1> QED
  BY <1>1, <1>2, <1>3, <1>4, <1>5, <1>6

\* The actions of a run that update and publish.
LEMMA PublishingActionsKeepRest ==
  ASSUME Inv, TypeOK', NEW d \in Runs, BeginUpdate(d) \/ \E u \in URIs : Publish(d, u)
  PROVE  Rest'
<1> USE HoldersDistinct, RunsAreNumbers
    DEF Inv, GoTo, WorkStates, SlotStates, TypeOK, S!TypeOK, S!Seqs, S!NoSnap
<1>1. CASE BeginUpdate(d)
  <2>1. /\ pc[d] = "updating"
        /\ DiagnosticsMuFree
        /\ UNCHANGED <<snapVars, loopVars, load, recorded, shown, latest>>
        /\ \/ pc' = [pc EXCEPT ![d] = "ending"] /\ UNCHANGED <<todo, tracked>>
           \/ /\ pc' = [pc EXCEPT ![d] = "publishing"]
              /\ todo' = [todo EXCEPT ![d] = found[d] \cup tracked]
              /\ tracked' = tracked \cup found[d]
    BY <1>1 DEF BeginUpdate, ToPublish
  <2>2. HoldsWhileWorking'
    BY <2>1 DEF snapVars, HoldsWhileWorking
  <2>3. Phases'
    BY <2>1 DEF snapVars, loopVars, Phases, Over
  <2>4. Order'
    BY <2>1 DEF snapVars, loopVars, Order, Newest
  <2>5. Updates'
    BY <2>1 DEF snapVars, DiagnosticsMuFree, Updates
  <2> QED
    BY <2>2, <2>3, <2>4, <2>5 DEF Rest
<1>2. ASSUME NEW u \in URIs, Publish(d, u) PROVE Rest'
  <2>1. /\ pc[d] = "publishing"
        /\ UNCHANGED <<snapVars, loopVars, load, tracked>>
    BY <1>2 DEF Publish
  <2>2. PICK q \in {"ending", "publishing"} :
          pc' = [pc EXCEPT ![d] = q] /\ (q = "publishing" => ~Cancelled(d))
    BY <1>2 DEF Publish
  <2>3. CASE Cancelled(d)
    <3>1. UNCHANGED <<shown, latest>> /\ pc' = [pc EXCEPT ![d] = "ending"]
      BY <1>2, <2>3 DEF Publish
    <3>2. \A e \in Runs : e # d => todo'[e] = todo[e]
      BY <1>2 DEF Publish
    <3>3. HoldsWhileWorking'
      BY <2>1, <3>1 DEF snapVars, HoldsWhileWorking
    <3>4. Phases'
      BY <2>1, <3>1 DEF snapVars, loopVars, Phases, Over
    <3>5. Order'
      BY <2>1, <3>1 DEF snapVars, loopVars, Order, Newest
    <3>6. Updates'
      BY <2>1, <3>1, <3>2 DEF snapVars, Updates
    <3> QED
      BY <3>3, <3>4, <3>5, <3>6 DEF Rest
  <2>4. CASE ~Cancelled(d)
    <3>1. /\ todo' = [todo EXCEPT ![d] = @ \ {u}]
          /\ recorded' = [recorded EXCEPT ![u] = held[RunHolder(d)]]
          /\ shown' = [shown EXCEPT ![u] = held[RunHolder(d)]]
          /\ latest' = [latest EXCEPT ![u] = Later(@, held[RunHolder(d)])]
      BY <1>2, <2>4 DEF Publish
    <3>2. d = 0 \/ d = lastMod
      BY <2>1, <2>4 DEF Cancelled, Order
    <3>3. held[RunHolder(d)] # S!NoSnap
      BY <2>1 DEF HoldsWhileWorking
    <3>4. HoldsWhileWorking'
      BY <2>1, <2>2 DEF snapVars, HoldsWhileWorking
    <3>5. Phases'
      BY <2>1, <2>2 DEF snapVars, loopVars, Phases, Over
    <3>6. Order'
      BY <2>1, <2>2, <3>1, <3>2, <3>3 DEF snapVars, loopVars, Order, Newest, Later
    <3>7. Updates'
      BY <2>1, <2>2, <3>1 DEF snapVars, Updates
    <3> QED
      BY <3>4, <3>5, <3>6, <3>7 DEF Rest
  <2> QED
    BY <2>3, <2>4
<1> QED
  BY <1>1, <1>2

\* A panic leaves everything else as it was.
LEMMA RestStep ==
  ASSUME Inv, SnapshotFacts, TypeOK', Next
  PROVE  Rest'
<1>1. CASE Crash
  BY <1>1 DEF Crash, snapVars, loopVars, runVars, diagVars, Inv, Rest, HoldsWhileWorking,
     Phases, Over, Order, Newest, Updates
<1>2. ASSUME ~Crash, NEW d \in Runs, RunStep(d) \/ Answer(d) \/ Wedge(d)
      PROVE  Rest'
  <2>1. CASE \/ WorkStarted(d) \/ (d = 0 /\ AwaitInitialized) \/ TakeSlot(d)
             \/ CheckInitialized(d) \/ StartPreview(d) \/ ErrorShown(d)
             \/ (\E files \in SUBSET URIs : FinishPreview(d, files)) \/ Wedge(d)
    BY <2>1, PlainActionsKeepRest
  <2>2. CASE \/ (d = 0 /\ CreateView) \/ GetSnapshot(d) \/ GetFileSnapshot(d)
             \/ (\E u \in URIs : ParseFile(d, u)) \/ EndRun(d)
    BY <1>2, <2>2, HoldingActionsKeepRest
  <2>3. CASE BeginUpdate(d) \/ \E u \in URIs : Publish(d, u)
    BY <2>3, PublishingActionsKeepRest
  <2> QED
    BY <1>2, <2>1, <2>2, <2>3 DEF RunStep, Answer
<1>3. CASE ~Crash /\ LoadStep
  BY <1>3, LoadKeepsRest
<1> QED
  BY <1>1, <1>2, <1>3, LoopKeepsRest DEF Next

LEMMA InvHolds == Spec => []Inv
<1>1. Init => Inv
  BY TypeOKInit, RestInit DEF Inv, Rest
<1>2. Inv /\ SnapshotFacts /\ SnapshotFacts' /\ [Next]_vars => Inv'
  <2> SUFFICES ASSUME Inv, SnapshotFacts, SnapshotFacts', [Next]_vars PROVE Inv'
    OBVIOUS
  <2>1. CASE Next
    <3>1. TypeOK'
      BY <2>1, TypeOKStep DEF Inv
    <3>2. Rest'
      BY <2>1, <3>1, RestStep
    <3> QED
      BY <3>1, <3>2 DEF Inv, Rest
  <2>2. CASE UNCHANGED vars
    BY <2>2 DEF vars, snapVars, loopVars, runVars, diagVars, Inv, TypeOK, S!TypeOK,
       HoldsWhileWorking, Phases, Over, Order, Newest, Updates
  <2> QED
    BY <2>1, <2>2
<1> QED
  BY <1>1, <1>2, FactsHold, PTL DEF Spec

-----------------------------------------------------------------------------
(***************************************************************************)
(* The theorems.                                                           *)
(***************************************************************************)
\* The variables of a session keep their types.
THEOREM SessionTypes == Spec => []TypeOK
<1>1. Inv => TypeOK
  BY DEF Inv
<1> QED
  BY <1>1, InvHolds, PTL

\* Every goroutine keeps the release functions of exactly the snapshots it works
\* with, whatever early return it takes (diagnostics.go:63-69, server.go:46-50).
THEOREM ReferencesMatchWork == Spec => []HoldsWhileWorking
<1>1. Inv => HoldsWhileWorking
  BY DEF Inv
<1> QED
  BY <1>1, InvHolds, PTL

\* Once Shutdown has replied no run is at work, and the load goroutine is gone
\* (server.go:263-274).
THEOREM NothingWorksAfterShutdown == Spec => []NoWorkAfterShutdown
<1>1. Inv /\ SnapshotFacts => NoWorkAfterShutdown
  <2> SUFFICES ASSUME Inv, SnapshotFacts, Over
               PROVE  (\A d \in Runs : pc[d] \notin WorkStates)
                        /\ load \in {"ok", "failed", "skipped"}
    BY DEF NoWorkAfterShutdown
  <2>1. \A h \in Holders : held[h] = S!NoSnap
    BY DEF Inv, Phases, Over, SnapshotFacts, SP!DrainedMeansUnheld, S!NoSnap, SP!NoSnap
  <2> QED
    BY <2>1, HoldersDistinct DEF Inv, HoldsWhileWorking, Phases, Over, TypeOK, LoadStates
<1> QED
  BY <1>1, InvHolds, FactsHold, PTL

\* Only a run that publishes leaves the publishing state, and only it shows
\* anything (updateDiagnostics).
LEMMA OnlyPublish ==
  ASSUME Inv, Next
  PROVE  /\ \A u \in URIs : shown'[u] # shown[u] => \E d \in Runs : Publish(d, u)
         /\ \A d \in Runs : pc[d] = "publishing" /\ pc'[d] # "publishing"
              => \E u \in URIs : Publish(d, u)
<1> USE RunsAreNumbers DEF Inv, TypeOK, GoTo
<1>1. CASE \E d \in Runs, u \in URIs : Publish(d, u)
  <2> PICK d \in Runs, u \in URIs : Publish(d, u)
    BY <1>1
  <2>1. \A e \in Runs : e # d => pc'[e] = pc[e]
    BY DEF Publish
  <2>2. \A v \in URIs : v # u => shown'[v] = shown[v]
    BY DEF Publish
  <2> QED
    BY <2>1, <2>2
<1>2. CASE ~\E d \in Runs, u \in URIs : Publish(d, u)
  <2>1. UNCHANGED shown
    <3>1. CASE \E d \in Runs : RunStep(d) \/ Answer(d) \/ Wedge(d)
      BY <1>2, <3>1 DEF RunStep, Answer, Wedge, CreateView, AwaitInitialized, GetSnapshot,
         TakeSlot, CheckInitialized, StartPreview, FinishPreview, GetFileSnapshot, ParseFile,
         BeginUpdate, EndRun, WorkStarted, ErrorShown, Crash, diagVars
    <3> QED
      BY <3>1 DEF Next, Initialized, Modify, Shutdown, LoopStep, Invalidate, Schedule, DropView,
         FinishShutdown, LoadStep, StartLoad, FinishLoad, EndLoad, Crash, diagVars
  <2>2. \A d \in Runs : pc[d] = "publishing" => pc'[d] = "publishing"
    <3>1. ASSUME NEW d \in Runs, RunStep(d) \/ Answer(d) \/ Wedge(d),
                 NEW e \in Runs, pc[e] = "publishing"
          PROVE  pc'[e] = "publishing"
      BY <1>2, <3>1 DEF RunStep, Answer, Wedge, CreateView, AwaitInitialized, GetSnapshot,
         TakeSlot, CheckInitialized, UpdateCritical, StartPreview, FinishPreview,
         GetFileSnapshot, ParseFile, BeginUpdate, EndRun, WorkStarted, ErrorShown, Crash, runVars
    <3>2. CASE Initialized
      BY <3>2 DEF Initialized, Phases
    <3>3. CASE Schedule
      BY <3>3 DEF Schedule, Order
    <3> QED
      BY <3>1, <3>2, <3>3 DEF Next, Modify, Shutdown, LoopStep, Invalidate, DropView,
         FinishShutdown, LoadStep, StartLoad, FinishLoad, EndLoad, Crash, runVars
  <2> QED
    BY <2>1, <2>2
<1> QED
  BY <1>1, <1>2

\* Once a snapshot's result was sent for a file, no save sends an older one for it;
\* only the initial run does, which nobody cancels (server.go:250-251).
THEOREM ResultsInOrder == Spec => SaveResultsInOrder
<1>1. ASSUME Inv, Next, NEW u \in URIs, shown'[u] # shown[u], shown'[u] # 0
      PROVE  shown'[u] >= latest[u]
  <2> USE HoldersDistinct, RunsAreNumbers DEF Inv, TypeOK, S!TypeOK, S!Seqs, S!NoSnap
  <2>1. PICK d \in Runs, v \in URIs : Publish(d, v)
    BY <1>1, OnlyPublish
  <2>2. ~Cancelled(d) /\ shown'[u] = held[RunHolder(d)] /\ pc[d] = "publishing"
    BY <1>1, <2>1 DEF Publish
  <2>3. held[RunHolder(d)] # S!NoSnap
    BY <1>1, <2>1, <2>2 DEF HoldsWhileWorking, WorkStates
  <2>4. d # 0
    BY <1>1, <2>2, <2>3 DEF Order
  <2>5. d <= lastMod
    BY <1>1, <2>2 DEF Order
  <2>6. d \in Mods /\ d \in Int /\ lastMod \in Int
    BY <1>1, <2>4
  <2>7. d = lastMod
    BY <2>2, <2>4, <2>5, <2>6 DEF Cancelled
  <2> QED
    BY <1>1, <2>2, <2>3, <2>6, <2>7, MaxModsAssumption DEF Order, Newest
<1>2. Inv /\ [Next]_vars
        => [\A u \in URIs : shown'[u] # shown[u] /\ shown'[u] # 0
              => shown'[u] >= latest[u]]_vars
  BY <1>1
<1> QED
  BY <1>2, InvHolds, PTL DEF Spec, SaveResultsInOrder

\* When a run that was not cancelled has published, every document the server
\* knows of has its diagnostics (diagnostics.go:149): no other run has published
\* in between, and no document has become known.
THEOREM UpdatesComplete == Spec => UpdateCoversAll
<1>1. ASSUME Inv, Next, NEW d \in Runs, pc[d] = "publishing", pc'[d] = "ending", ~Cancelled(d),
             NEW u \in tracked'
      PROVE  {recorded'[u], shown'[u]} = {held[RunHolder(d)]}
  <2> USE RunsAreNumbers DEF Inv, TypeOK
  <2>1. PICK v \in URIs : Publish(d, v)
    BY <1>1, OnlyPublish
  <2>2. /\ recorded' = [recorded EXCEPT ![v] = held[RunHolder(d)]]
        /\ shown' = [shown EXCEPT ![v] = held[RunHolder(d)]]
        /\ todo' = [todo EXCEPT ![d] = @ \ {v}]
        /\ tracked' = tracked
    BY <1>1, <2>1 DEF Publish
  <2>3. todo'[d] = {}
    BY <1>1, <2>1 DEF Publish, GoTo
  <2>4. u \in tracked \ todo[d] \/ u = v
    BY <2>2, <2>3
  <2>5. recorded'[u] = held[RunHolder(d)] /\ shown'[u] = held[RunHolder(d)]
    BY <1>1, <2>2, <2>4 DEF Updates
  <2> QED
    BY <2>5
<1>2. Inv /\ [Next]_vars
        => [\A d \in Runs :
              pc[d] = "publishing" /\ pc'[d] = "ending" /\ ~Cancelled(d)
                => \A u \in tracked' : {recorded'[u], shown'[u]} = {held[RunHolder(d)]}]_vars
  BY <1>1
<1> QED
  BY <1>2, InvHolds, PTL DEF Spec, UpdateCoversAll

-----------------------------------------------------------------------------
(***************************************************************************)
(* The runs of a session use the runner as Runner allows it.               *)
(***************************************************************************)
\* The diagnostics slot is one run's.
OneInSlot == \A d, e \in Runs : pc[d] \in SlotStates /\ pc[e] \in SlotStates => d = e

\* Whether a run has still to get to the runner, is in it, or has done with it.
BeforeRunner == {"none", "spawned", "creating", "awaiting", "queued", "checking", "starting"}
InRunner     == {"previewing", "wedged"}

\* A run may move from p to q.
MayMove(p, q) ==
  /\ q \in SlotStates => p \in SlotStates \/ SlotFree
  /\ q \in InRunner => p \in InRunner \/ p = "starting"
  /\ q \in BeforeRunner => p \in BeforeRunner

Moves(d) == \E q \in RunStates : pc' = [pc EXCEPT ![d] = q] /\ MayMove(pc[d], q)

LEMMA RunMoves ==
  ASSUME Inv, NEW d \in Runs, RunStep(d) \/ Answer(d) \/ Wedge(d)
  PROVE  Moves(d) \/ UNCHANGED pc
<1> USE DEF Moves, MayMove, RunStates, WorkStates, SlotStates, BeforeRunner, InRunner, GoTo
<1>1. CASE d = 0 /\ (CreateView \/ AwaitInitialized)
  BY <1>1 DEF CreateView, AwaitInitialized, StartWork, AfterStart
<1>2. CASE GetSnapshot(d)
  BY <1>2 DEF GetSnapshot, AfterAcquire, StartWork, AfterStart, Crash, runVars
<1>3. CASE TakeSlot(d)
  BY <1>3 DEF TakeSlot
<1>4. CASE CheckInitialized(d) \/ StartPreview(d)
  BY <1>4 DEF CheckInitialized, StartPreview, UpdateCritical
<1>5. CASE \E files \in SUBSET URIs : FinishPreview(d, files)
  <2>1. PICK q \in {"updating", "capturing"} : pc[d] = "previewing" /\ pc' = [pc EXCEPT ![d] = q]
    BY <1>5 DEF FinishPreview
  <2> QED
    BY <2>1
<1>6. CASE GetFileSnapshot(d)
  BY <1>6 DEF GetFileSnapshot, Crash, runVars
<1>7. CASE \E u \in URIs : ParseFile(d, u)
  BY <1>7 DEF ParseFile, Crash, runVars
<1>8. CASE BeginUpdate(d)
  BY <1>8 DEF BeginUpdate
<1>9. CASE \E u \in URIs : Publish(d, u)
  BY <1>9 DEF Publish
<1>10. CASE EndRun(d)
  BY <1>10 DEF EndRun
<1>11. CASE WorkStarted(d) \/ ErrorShown(d) \/ Wedge(d)
  BY <1>11 DEF WorkStarted, ErrorShown, Wedge, AfterStart
<1> QED
  BY <1>1, <1>2, <1>3, <1>4, <1>5, <1>6, <1>7, <1>8, <1>9, <1>10, <1>11 DEF RunStep, Answer

LEMMA StepMoves ==
  ASSUME Inv, Next
  PROVE  (\E d \in Runs : Moves(d)) \/ UNCHANGED pc
<1>1. CASE Initialized
  <2>1. pc[0] = "none" /\ pc' = [pc EXCEPT ![0] = "spawned"]
    BY <1>1 DEF Initialized, Inv, Phases, GoTo
  <2> QED
    BY <2>1, RunsAreNumbers DEF Moves, MayMove, RunStates, WorkStates, SlotStates, BeforeRunner, InRunner
<1>2. CASE Schedule
  <2>1. lastMod + 1 \in Runs
    BY <1>2, MaxModsAssumption DEF Schedule, Inv, Phases, TypeOK, Runs
  <2>2. pc[lastMod + 1] = "none" /\ pc' = [pc EXCEPT ![lastMod + 1] = "spawned"]
    BY <1>2, <2>1 DEF Schedule, Inv, Order, TypeOK, GoTo
  <2> QED
    BY <2>1, <2>2 DEF Moves, MayMove, RunStates, WorkStates, SlotStates, BeforeRunner, InRunner
<1>3. ASSUME NEW d \in Runs, RunStep(d) \/ Answer(d) \/ Wedge(d)
      PROVE  Moves(d) \/ UNCHANGED pc
  BY <1>3, RunMoves
<1>4. CASE \/ \E kind \in Kinds, uri \in URIs : Modify(kind, uri)
           \/ Shutdown \/ Invalidate \/ DropView \/ FinishShutdown \/ LoadStep
  BY <1>4 DEF Modify, Shutdown, Invalidate, DropView, FinishShutdown, LoadStep, StartLoad,
     FinishLoad, EndLoad, Crash, runVars
<1> QED
  BY <1>1, <1>2, <1>3, <1>4 DEF Next, LoopStep

LEMMA OneInSlotStep ==
  ASSUME Inv, OneInSlot, NEW d \in Runs, Moves(d)
  PROVE  OneInSlot'
<1>1. PICK q \in RunStates : pc' = [pc EXCEPT ![d] = q] /\ MayMove(pc[d], q)
  BY DEF Moves
<1>2. pc'[d] = q /\ \A e \in Runs \ {d} : pc'[e] = pc[e]
  BY <1>1 DEF Inv, TypeOK
<1> QED
  BY <1>1, <1>2 DEF OneInSlot, MayMove, SlotFree

\* What a move is in Runner.
LEMMA MoveOnRunner ==
  ASSUME Inv, OneInSlot, NEW d \in Runs, Moves(d)
  PROVE  R!Next \/ UNCHANGED R!vars
<1>1. PICK q \in RunStates : pc' = [pc EXCEPT ![d] = q] /\ MayMove(pc[d], q)
  BY DEF Moves
<1>2. pc'[d] = q /\ \A e \in Runs \ {d} : pc'[e] = pc[e]
  BY <1>1 DEF Inv, TypeOK
<1>3. \A e \in Runs \ {d} : RunnerStage(e)' = RunnerStage(e)
  BY <1>2 DEF RunnerStage
<1>4. CASE RunnerStage(d)' = RunnerStage(d)
  BY <1>3, <1>4 DEF R!vars
<1>5. CASE RunnerStage(d) = "waiting" /\ RunnerStage(d)' = "running"
  <2>1. pc[d] = "starting"
    BY <1>1, <1>2, <1>5 DEF RunnerStage, MayMove, InRunner
  <2>2. \A e \in Runs : RunnerStage(e) # "running"
    BY <1>5, <2>1 DEF OneInSlot, SlotStates, RunnerStage
  <2>3. R!Start(d)
    BY <1>3, <1>5, <2>2 DEF R!Start
  <2> QED
    BY <2>3 DEF R!Next
<1>6. CASE RunnerStage(d) = "waiting" /\ RunnerStage(d)' = "returned"
  <2>1. R!Refuse(d)
    BY <1>3, <1>6 DEF R!Refuse
  <2> QED
    BY <2>1 DEF R!Next
<1>7. CASE RunnerStage(d) = "running" /\ RunnerStage(d)' = "returned"
  <2> DEFINE owes == [e \in Runs |-> 0]
  <2>1. 0 \in 0..1 /\ owes = [owes EXCEPT ![d] = 0]
    OBVIOUS
  <2>2. R!Return(d)
    BY <1>3, <1>7, <2>1 DEF R!Return
  <2> QED
    BY <2>2 DEF R!Next
<1>8. \/ RunnerStage(d)' = RunnerStage(d)
      \/ RunnerStage(d) = "waiting" /\ RunnerStage(d)' = "running"
      \/ RunnerStage(d) = "waiting" /\ RunnerStage(d)' = "returned"
      \/ RunnerStage(d) = "running" /\ RunnerStage(d)' = "returned"
  <2>1. RunnerStage(d) = (IF pc[d] \in InRunner THEN "running"
                          ELSE IF pc[d] \in BeforeRunner THEN "waiting" ELSE "returned")
    BY DEF RunnerStage, InRunner, BeforeRunner
  <2>2. RunnerStage(d)' = (IF q \in InRunner THEN "running"
                           ELSE IF q \in BeforeRunner THEN "waiting" ELSE "returned")
    BY <1>2 DEF RunnerStage, InRunner, BeforeRunner
  <2> QED
    BY <1>1, <2>1, <2>2 DEF MayMove, InRunner, BeforeRunner
<1> QED
  BY <1>4, <1>5, <1>6, <1>7, <1>8

\* However notifications and their runs overlap, one preview runs at a time and no
\* run comes back to the runner (diagnostics.go:165-175, :189): the diagnostics slot
\* alone is enough for that, so that the session may count on Runner.
THEOREM SessionKeepsRunner == Spec => KeepsRunner
<1>1. Init => R!Init /\ OneInSlot
  BY DEF Init, R!Init, RunnerStage, OneInSlot, SlotStates
<1>2. Inv /\ OneInSlot /\ [Next]_vars => OneInSlot' /\ [R!Next]_(R!vars)
  <2> SUFFICES ASSUME Inv, OneInSlot, [Next]_vars
               PROVE  OneInSlot' /\ (R!Next \/ UNCHANGED R!vars)
    OBVIOUS
  <2>1. CASE UNCHANGED pc
    BY <2>1 DEF OneInSlot, R!vars, RunnerStage
  <2>2. ASSUME NEW d \in Runs, Moves(d) PROVE OneInSlot' /\ (R!Next \/ UNCHANGED R!vars)
    BY <2>2, OneInSlotStep, MoveOnRunner
  <2> QED
    BY <2>1, <2>2, StepMoves DEF vars, runVars
<1> QED
  BY <1>1, <1>2, InvHolds, PTL DEF Spec, KeepsRunner, R!Spec

-----------------------------------------------------------------------------
(***************************************************************************)
(* A session that has not come to rest has a step to make, but for three   *)
(* waits.  Can and the like are the guards of the actions, spelled out.    *)
(***************************************************************************)
CanAcquire(h)  == view = "open" /\ held[h] = S!NoSnap /\ refcount[current] > 0
CanGiveBack(h) == held[h] # S!NoSnap /\ refcount[held[h]] > 0

LoopCan ==
  \/ loop = "awaiting" /\ Loaded /\ view = "open" /\ current < MaxMods /\ refcount[current] > 0
  \/ loop = "replaced"
  \/ loop = "closed" /\ view = "closed"
  \/ loop = "draining" /\ Drained

LoadCan ==
  \/ load \in {"pending", "loading"}
  \/ load \in {"ok", "failed", "skipped"} /\ CanGiveBack(Loader)

RunCan(d) ==
  \/ /\ d = 0 /\ pc[d] = "spawned" /\ view = "absent"
     /\ held[Loader] = S!NoSnap /\ held[RunHolder(d)] = S!NoSnap
  \/ /\ d # 0 /\ pc[d] = "spawned" /\ SnapshotMuFree
     /\ CanAcquire(RunHolder(d)) \/ view \in {"closed", "dropped"}
  \/ d = 0 /\ pc[d] = "awaiting" /\ Loaded
  \/ pc[d] = "queued" /\ (SlotFree \/ Cancelled(d))
  \/ pc[d] \in {"checking", "starting", "previewing"}
  \/ /\ pc[d] = "capturing" /\ SnapshotMuFree
     /\ CanAcquire(FileHolder(d)) \/ view \in {"closed", "dropped"}
  \/ pc[d] = "parsing" /\ todo[d] # {} /\ CanGiveBack(FileHolder(d))
  \/ pc[d] = "updating" /\ DiagnosticsMuFree
  \/ pc[d] = "publishing" /\ NextToPublish(d) # {}
  \/ pc[d] = "ending" /\ CanGiveBack(RunHolder(d))

\* The client's answer to a run can be taken in.
AnswerCan(d) == pc[d] \in {"creating", "reporting"} /\ loop = "ready"

\* The waits that may have no end: Shutdown for a run that waits for the answer to a
\* progress request; a preview whose log nobody reads any more; the initial run for
\* a load that was cancelled before it began.
KnownWait ==
  \/ loop = "draining" /\ SupportsProgress /\ \E d \in Runs : pc[d] \in {"creating", "reporting"}
  \/ LateLines /\ \E d \in Runs : pc[d] = "wedged" /\ Cancelled(d)
  \/ load = "skipped" /\ pc[0] = "awaiting"

AtRest == loop = "ready" /\ \A d \in Runs : pc[d] \in {"none", "done"}

\* Nothing else ever waits for ever: not Shutdown for its runs, a notification for the
\* load, a run for the slot, a mutex or its file (server.go:165, :273; diagnostics.go:165-172,
\* :108; view.go:62).
NothingElseWaits ==
  LoopCan \/ LoadCan \/ (\E d \in Runs : RunCan(d) \/ AnswerCan(d)) \/ KnownWait \/ AtRest

\* Why a run is where it waits.
WaitsForReason ==
  /\ view = "absent" => held[Loader] = S!NoSnap
  /\ pc[0] \in {"none", "spawned"} <=> view = "absent"
  /\ load = "skipped" => view \in {"closed", "dropped"}
  /\ \A d \in Runs :
       /\ pc[d] = "awaiting" => d = 0
       /\ pc[d] \in {"creating", "reporting"} => SupportsProgress
       /\ pc[d] = "wedged" => LateLines /\ Cancelled(d)
       /\ pc[d] \in {"capturing", "parsing", "publishing"} => todo[d] # {}

LEMMA ReasonInit == Init => WaitsForReason
  BY HoldersDistinct, RunsAreNumbers DEF Init, WaitsForReason, S!Init

\* Every step but those of the runs.
LEMMA LoopKeepsReason ==
  ASSUME Inv, WaitsForReason,
         \/ Initialized \/ Shutdown \/ LoopStep \/ LoadStep
         \/ \E kind \in Kinds, uri \in URIs : Modify(kind, uri)
  PROVE  WaitsForReason'
<1> USE DEF Inv, TypeOK, WaitsForReason, Cancelled
<1>1. CASE Initialized
  <2>1. pc[0] = "none" /\ pc' = [pc EXCEPT ![0] = "spawned"]
        /\ UNCHANGED <<view, held, load, lastMod, todo>>
    BY <1>1 DEF Initialized, Phases, GoTo, snapVars
  <2> QED
    BY <2>1
<1>2. ASSUME NEW kind \in Kinds, NEW uri \in URIs, Modify(kind, uri) PROVE WaitsForReason'
  BY <1>2 DEF Modify, Crash, snapVars, runVars, loopVars
<1>3. CASE Shutdown
  BY <1>3 DEF Shutdown, Crash, snapVars, runVars, loopVars, S!CloseView
<1>4. CASE Invalidate
  BY <1>4 DEF Invalidate, runVars, S!Replace
<1>5. CASE DropView
  BY <1>5 DEF DropView, runVars, S!DropView
<1>6. CASE FinishShutdown
  BY <1>6 DEF FinishShutdown, runVars, snapVars
<1>7. CASE Schedule
  <2>1. lastMod + 1 \in Runs /\ lastMod + 1 # 0 /\ lastMod \in Int
    BY <1>7, MaxModsAssumption DEF Schedule, Phases, Runs
  <2>2. /\ pc' = [pc EXCEPT ![lastMod + 1] = "spawned"] /\ lastMod' = lastMod + 1
        /\ UNCHANGED <<view, held, load, todo>>
    BY <1>7 DEF Schedule, GoTo, snapVars
  <2>3. 0 \in Runs /\ Runs \subseteq Int
    BY RunsAreNumbers
  <2> QED
    BY <2>1, <2>2, <2>3
<1>8. CASE StartLoad \/ FinishLoad
  BY <1>8 DEF StartLoad, FinishLoad, snapVars, runVars, loopVars
<1>9. CASE EndLoad
  <2>1. UNCHANGED <<view, load, pc, todo, lastMod>> /\ held' = [held EXCEPT ![Loader] = S!NoSnap]
    BY <1>9 DEF EndLoad, GiveBack, S!Release, runVars, loopVars
  <2>2. Loader \in Holders /\ held \in [Holders -> S!Seqs \cup {S!NoSnap}]
    BY DEF Holders, S!TypeOK
  <2> QED
    BY <2>1, <2>2
<1> QED
  BY <1>1, <1>2, <1>3, <1>4, <1>5, <1>6, <1>7, <1>8, <1>9 DEF LoopStep, LoadStep

\* A step of a run that keeps its reason, or gets one, keeps all.
LEMMA RunKeepsReason ==
  ASSUME Inv, WaitsForReason, NEW d \in Runs, RunStep(d) \/ Answer(d) \/ Wedge(d)
  PROVE  WaitsForReason'
<1> USE DEF Inv, TypeOK, WaitsForReason, Cancelled, GoTo, snapVars, loopVars, runVars, StartWork,
            AfterStart
<1>1. 0 \in Runs
  BY RunsAreNumbers
<1>2. CASE d = 0 /\ CreateView
  <2>1. /\ pc[0] = "spawned" /\ pc' = [pc EXCEPT ![0] = StartWork(0)]
        /\ view' = "open" /\ load' = "pending" /\ UNCHANGED <<lastMod, todo>>
    BY <1>2 DEF CreateView, S!CreateView
  <2> QED
    BY <1>1, <1>2, <2>1
<1>3. CASE d = 0 /\ AwaitInitialized
  BY <1>1, <1>3 DEF AwaitInitialized
<1>4. CASE GetSnapshot(d)
  <2>1. CASE S!Acquire(RunHolder(d)) /\ GoTo(d, AfterAcquire(d)) /\ d # 0
             /\ UNCHANGED <<loopVars, load, found, todo, diagVars, crashed>>
    BY <1>1, <2>1 DEF S!Acquire, AfterAcquire
  <2>2. CASE UNCHANGED snapVars /\ UNCHANGED <<loopVars, load, todo>> /\ d # 0
             /\ (GoTo(d, "done") \/ UNCHANGED pc)
    BY <1>1, <2>2
  <2> QED
    BY <1>4, <2>1, <2>2 DEF GetSnapshot, Crash
<1>5. CASE TakeSlot(d)
  BY <1>1, <1>5 DEF TakeSlot
<1>6. CASE CheckInitialized(d) \/ StartPreview(d)
  <2>1. /\ pc[d] \in {"checking", "starting"}
        /\ \E q \in {"ending", "starting", "previewing", "reporting"} :
             /\ pc' = [pc EXCEPT ![d] = q]
             /\ q = "reporting" => SupportsProgress
        /\ UNCHANGED <<view, held, load, lastMod, todo>>
    BY <1>6 DEF CheckInitialized, StartPreview, UpdateCritical
  <2> QED
    BY <1>1, <2>1
<1>7. ASSUME NEW files \in SUBSET URIs, FinishPreview(d, files) PROVE WaitsForReason'
  BY <1>1, <1>7 DEF FinishPreview
<1>8. CASE GetFileSnapshot(d)
  <2>1. CASE S!Acquire(FileHolder(d)) /\ GoTo(d, "parsing") /\ pc[d] = "capturing"
             /\ UNCHANGED <<loopVars, load, todo>>
    BY <1>1, <2>1 DEF S!Acquire
  <2>2. CASE Crash
    BY <2>2 DEF Crash
  <2> QED
    BY <1>8, <2>1, <2>2 DEF GetFileSnapshot
<1>9. ASSUME NEW u \in URIs, ParseFile(d, u) PROVE WaitsForReason'
  <2>1. CASE /\ pc[d] = "parsing" /\ u \in todo[d]
             /\ GiveBack(FileHolder(d))
             /\ todo' = [todo EXCEPT ![d] = @ \ {u}]
             /\ GoTo(d, IF todo[d] = {u} THEN "updating" ELSE "capturing")
             /\ UNCHANGED <<loopVars, load>>
    <3>1. UNCHANGED view /\ held' = [held EXCEPT ![FileHolder(d)] = S!NoSnap]
      BY <2>1 DEF GiveBack, S!Release
    <3>2. held'[Loader] = held[Loader]
      BY <3>1, HoldersDistinct DEF S!TypeOK
    <3>3. todo[d] # {u} => todo[d] \ {u} # {}
      BY <2>1
    <3> QED
      BY <1>1, <2>1, <3>1, <3>2, <3>3
  <2>2. CASE Crash
    BY <2>2 DEF Crash
  <2> QED
    BY <1>9, <2>1, <2>2 DEF ParseFile
<1>10. CASE BeginUpdate(d)
  BY <1>1, <1>10 DEF BeginUpdate
<1>11. ASSUME NEW u \in URIs, Publish(d, u) PROVE WaitsForReason'
  <2>1. /\ pc[d] = "publishing"
        /\ \E t \in SUBSET URIs : todo' = [todo EXCEPT ![d] = t]
        /\ pc' = [pc EXCEPT ![d] = IF todo'[d] = {} THEN "ending" ELSE "publishing"]
        /\ UNCHANGED <<view, held, load, lastMod>>
    BY <1>11 DEF Publish
  <2> QED
    BY <1>1, <2>1
<1>12. CASE EndRun(d)
  <2>1. /\ UNCHANGED <<view, load, lastMod, todo>> /\ pc[d] = "ending"
        /\ held' = [held EXCEPT ![RunHolder(d)] = S!NoSnap] /\ pc' = [pc EXCEPT ![d] = "done"]
    BY <1>12 DEF EndRun, GiveBack, S!Release
  <2>2. held'[Loader] = held[Loader]
    BY <2>1, HoldersDistinct DEF S!TypeOK
  <2> QED
    BY <1>1, <2>1, <2>2
<1>13. CASE Answer(d)
  BY <1>1, <1>13 DEF Answer, WorkStarted, ErrorShown
<1>14. CASE Wedge(d)
  BY <1>1, <1>14 DEF Wedge
<1> QED
  BY <1>2, <1>3, <1>4, <1>5, <1>6, <1>7, <1>8, <1>9, <1>10, <1>11, <1>12, <1>13, <1>14 DEF RunStep

\* The snapshots' counts, as far as they decide who can go on.
CountFacts == SP!RefsPositive /\ SP!WaitedFor

LEMMA CountsHold == Spec => []CountFacts
<1>1. MaxMods \in Nat
  BY MaxModsAssumption
<1>2. SP!Spec => []SP!RefsPositive
  BY <1>1, HoldersFinite, SP!NeverNonPositive, PTL
<1>3. SP!Spec => []SP!WaitedFor
  BY <1>1, HoldersFinite, SP!WaitMeansHeld, PTL
<1>4. SP!RefsPositive /\ SP!WaitedFor => CountFacts
  BY DEF CountFacts
<1> QED
  BY <1>2, <1>3, <1>4, SessionKeepsSnapshots, SameSnapshots, PTL DEF KeepsSnapshots

\* Who holds a snapshot can give it back, and whoever asks for one is answered.
LEMMA SnapshotsInReach ==
  ASSUME Inv, CountFacts
  PROVE  /\ \A h \in Holders : held[h] # S!NoSnap => CanGiveBack(h)
         /\ view = "open" => refcount[current] > 0
  BY DEF CountFacts, SP!RefsPositive, SP!NoSnap, S!NoSnap, CanGiveBack

\* A run that waits for none of the others.
LEMMA RunGoesOn ==
  ASSUME Inv, WaitsForReason, CountFacts, loop \in {"ready", "draining"}, NEW d \in Runs,
         pc[d] \notin {"none", "done", "queued", "updating"}, ~LoadCan, load # "none" \/ d = 0
  PROVE  RunCan(d) \/ AnswerCan(d) \/ KnownWait
<1> USE DEF Inv, TypeOK, WaitsForReason
<1>1. SnapshotMuFree
  BY DEF SnapshotMuFree
<1>2. RunHolder(d) \in Holders /\ FileHolder(d) \in Holders
  BY DEF RunHolder, FileHolder, Holders
<1>3. /\ held[RunHolder(d)] # S!NoSnap <=> pc[d] \in WorkStates
      /\ held[FileHolder(d)] # S!NoSnap <=> pc[d] = "parsing"
  BY DEF HoldsWhileWorking
<1>4. view = "open" /\ held[RunHolder(d)] = S!NoSnap => CanAcquire(RunHolder(d))
  BY SnapshotsInReach DEF CanAcquire
<1>5. view = "open" /\ held[FileHolder(d)] = S!NoSnap => CanAcquire(FileHolder(d))
  BY SnapshotsInReach DEF CanAcquire
<1>6. view \in {"absent", "open", "closed", "dropped"}
  BY DEF S!TypeOK, S!ViewStates
<1>7. CASE pc[d] = "spawned"
  <2>1. CASE d = 0
    BY <1>3, <1>7, <2>1 DEF RunCan, WorkStates, SlotStates
  <2>2. CASE d # 0
    <3>1. view # "absent"
      BY <2>2 DEF Phases
    <3> QED
      BY <1>1, <1>3, <1>4, <1>6, <1>7, <2>2, <3>1 DEF RunCan, WorkStates, SlotStates
  <2> QED
    BY <2>1, <2>2
<1>8. CASE pc[d] \in {"creating", "reporting"}
  BY <1>8 DEF AnswerCan, KnownWait
<1>9. CASE pc[d] = "awaiting"
  <2>1. d = 0 /\ view # "absent"
    BY <1>9
  <2>2. load \in {"ok", "failed", "skipped"}
    BY <2>1 DEF Phases, LoadCan, LoadStates
  <2> QED
    BY <1>9, <2>1, <2>2 DEF RunCan, KnownWait, Loaded
<1>10. CASE pc[d] \in {"checking", "starting", "previewing"}
  BY <1>10 DEF RunCan
<1>11. CASE pc[d] = "wedged"
  BY <1>11 DEF KnownWait
<1>12. CASE pc[d] = "capturing"
  <2>1. view # "absent"
    BY <1>12 DEF Phases
  <2> QED
    BY <1>1, <1>3, <1>5, <1>6, <1>12, <2>1 DEF RunCan
<1>13. CASE pc[d] = "parsing"
  BY <1>2, <1>3, <1>13, SnapshotsInReach DEF RunCan
<1>14. CASE pc[d] = "publishing"
  BY <1>14 DEF RunCan, NextToPublish
<1>15. CASE pc[d] = "ending"
  BY <1>2, <1>3, <1>15, SnapshotsInReach DEF RunCan, WorkStates
<1> QED
  BY <1>7, <1>8, <1>9, <1>10, <1>11, <1>12, <1>13, <1>14, <1>15
  DEF RunStates, WorkStates, SlotStates

\* A run that waits for the slot or the mutex waits for one that does not.
LEMMA SomebodyGoesOn ==
  ASSUME Inv, WaitsForReason, CountFacts, loop \in {"ready", "draining"}, NEW d \in Runs,
         pc[d] \notin {"none", "done"}, ~LoadCan
  PROVE  (\E e \in Runs : RunCan(e) \/ AnswerCan(e)) \/ KnownWait
<1>1. \A e \in Runs : pc[e] # "none" => load # "none" \/ e = 0
  <2> SUFFICES ASSUME NEW e \in Runs, load = "none", e # 0 PROVE pc[e] = "none"
    OBVIOUS
  <2>1. lastMod = 0
    BY DEF Inv, Phases
  <2>2. e > lastMod
    BY <2>1, MaxModsAssumption DEF Runs
  <2> QED
    BY <2>2 DEF Inv, Order
<1>2. \A e \in Runs : pc[e] \notin {"none", "done", "queued", "updating"}
        => RunCan(e) \/ AnswerCan(e) \/ KnownWait
  BY <1>1, RunGoesOn
<1>3. CASE pc[d] = "queued"
  <2>1. CASE SlotFree
    BY <1>3, <2>1 DEF RunCan
  <2>2. CASE ~SlotFree
    BY <1>2, <2>2 DEF SlotFree, SlotStates
  <2> QED
    BY <2>1, <2>2
<1>4. CASE pc[d] = "updating"
  <2>1. CASE DiagnosticsMuFree
    BY <1>4, <2>1 DEF RunCan
  <2>2. CASE ~DiagnosticsMuFree
    BY <1>2, <2>2 DEF DiagnosticsMuFree
  <2> QED
    BY <2>1, <2>2
<1> QED
  BY <1>2, <1>3, <1>4

\* Whoever holds a snapshot that Shutdown waits for is one of the runs or the load.
LEMMA HolderIsRun ==
  ASSUME Inv, NEW h \in Holders, held[h] # S!NoSnap, h # Loader
  PROVE  \E d \in Runs : pc[d] \notin {"none", "done"}
<1>1. PICK d \in Runs : h = RunHolder(d) \/ h = FileHolder(d)
  BY DEF Holders, RunHolder, FileHolder
<1>2. pc[d] \in WorkStates
  BY <1>1 DEF Inv, HoldsWhileWorking, WorkStates, SlotStates
<1> QED
  BY <1>2 DEF WorkStates, SlotStates

LEMMA SomethingMoves ==
  ASSUME Inv, WaitsForReason, CountFacts
  PROVE  NothingElseWaits
<1> SUFFICES ASSUME ~LoopCan, ~LoadCan, ~AtRest
             PROVE  (\E d \in Runs : RunCan(d) \/ AnswerCan(d)) \/ KnownWait
  BY DEF NothingElseWaits
<1> USE DEF Inv, TypeOK
<1>1. CASE loop = "awaiting"
  <2>1. state = "initialized" /\ lastMod < MaxMods /\ view # "absent"
    BY <1>1 DEF Phases
  <2>2. view = "open"
    BY <2>1 DEF Phases, S!TypeOK, S!ViewStates
  <2>3. current = lastMod /\ refcount[current] > 0
    BY <1>1, <2>2, SnapshotsInReach DEF Order, Newest
  <2>4. Loaded
    BY <2>1, <2>2 DEF LoadCan, Loaded, LoadStates, Phases, WaitsForReason
  <2> QED
    BY <1>1, <2>1, <2>2, <2>3, <2>4 DEF LoopCan
<1>2. CASE loop \in {"replaced", "closed"}
  BY <1>2 DEF LoopCan, Phases
<1>3. CASE loop = "draining"
  <2>1. view = "dropped" /\ wg # 0
    BY <1>3 DEF LoopCan, Drained, Phases
  <2>2. PICK h \in Holders : held[h] # S!NoSnap
    BY <2>1 DEF CountFacts, SP!WaitedFor, SP!NoSnap, S!NoSnap
  <2>3. h # Loader
    BY <2>1, <2>2, SnapshotsInReach DEF LoadCan, LoadStates, Phases
  <2> QED
    BY <1>3, <2>2, <2>3, HolderIsRun, SomebodyGoesOn
<1>4. CASE loop = "ready"
  <2>1. PICK d \in Runs : pc[d] \notin {"none", "done"}
    BY <1>4 DEF AtRest
  <2> QED
    BY <1>4, <2>1, SomebodyGoesOn
<1> QED
  BY <1>1, <1>2, <1>3, <1>4 DEF LoopStates

\* For any number of notifications and documents, whenever the session is not at rest
\* something in it can move, or it is in one of the three waits that the README names;
\* all counts, semaphores and mutexes together never make another one. It is what
\* LastSavePublished, FailedLoadShown and LoadedShutdownReturns need besides fairness.
THEOREM NoOtherDeadlock == Spec => []NothingElseWaits
<1>1. Inv /\ WaitsForReason /\ [Next]_vars => WaitsForReason'
  <2> SUFFICES ASSUME Inv, WaitsForReason, [Next]_vars PROVE WaitsForReason'
    OBVIOUS
  <2>1. CASE UNCHANGED vars
    BY <2>1 DEF vars, snapVars, loopVars, runVars, WaitsForReason, Cancelled
  <2> QED
    BY <2>1, LoopKeepsReason, RunKeepsReason DEF Next
<1>2. Inv /\ WaitsForReason /\ CountFacts => NothingElseWaits
  BY SomethingMoves
<1> QED
  BY <1>1, <1>2, ReasonInit, InvHolds, CountsHold, PTL DEF Spec
=============================================================================
