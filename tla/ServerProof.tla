----------------------------- MODULE ServerProof -----------------------------
(***************************************************************************)
(* Safety of the server process, for any number of notifications and a     *)
(* client that sends what it likes: no call replied to twice, progress     *)
(* that matches the runs, no shutdown before the work has ended, and no    *)
(* deadlock but five waits that are known.                                 *)
(***************************************************************************)
EXTENDS Server, TLAPS

\* What the read loop does goes with the message in hand, and it has not been
\* replied to before it is done.
Replies ==
  /\ loop \in {"handling", "closing", "draining", "creating", "fixing"} => replies = 0
  /\ loop \in {"closing", "draining"} => req = "shutdown"
  /\ loop = "fixing" => req = "resolve"
  /\ RepliedOnce

\* The slot of the diagnostics admits one run.
InSlot(d) == pc[d] \in SlotStates

\* Runs, their work and their snapshots go together.
WorksFit ==
  /\ \A d \in Runs : /\ d \in holders <=> pc[d] \in WorkingStates \/ (pc[d] = "ended" /\ d # 0)
                     /\ work[d] = "creating" <=> pc[d] = "starting"
  /\ \A d, e \in Runs : InSlot(d) /\ InSlot(e) => d = e
  /\ WorksMatchRuns

\* The runs that there can be: the initial one with the view, and those of the
\* notifications so far.
Begun ==
  /\ state \in {"created", "initializing"} => pc[0] = "none"
  /\ pc[0] \in {"none", "spawned"} <=> view = "none"
  /\ view = "none" => load = "none"
  /\ \A d \in Mods : d > mods => pc[d] = "none"

\* Who shuts the view down, the read loop or main, and what is left when it has.
Ended ==
  /\ main # "waiting" => loop = "gone"
  /\ loop = "closing" \/ main = "closing" => view = "closed"
  /\ view = "dropped" /\ loop # "draining" /\ (main = "draining" => exit = "0")
       => holders = {} /\ load # "loading"

Inv == TypeOK /\ Replies /\ WorksFit /\ Begun /\ Ended

LEMMA InitInv == Init => Inv
<1> SUFFICES ASSUME Init PROVE Inv
  OBVIOUS
<1> USE MaxModsAssumption DEF Runs, Mods, Works, Status, Fix
<1>1. TypeOK
  <2>1. pc \in [Runs -> RunStates] /\ work \in [Works -> WorkStates]
    BY DEF Init, RunStates, WorkingStates, SlotStates, WorkStates
  <2>2. mods \in 0..MaxMods /\ holders \subseteq Runs /\ replies \in 0..1
    BY DEF Init
  <2>3. {leaked, root, supports} \subseteq BOOLEAN
    BY DEF Init
  <2> QED
    BY <2>1, <2>2, <2>3 DEF Init, TypeOK, States, LoopStates
<1>2. Replies /\ Begun /\ Ended
  BY DEF Init, Replies, RepliedOnce, Calls, Begun, Ended
<1>3. WorksFit
  BY DEF Init, WorksFit, WorkingStates, SlotStates, InSlot, WorksMatchRuns, Open
<1> QED
  BY <1>1, <1>2, <1>3 DEF Inv

-----------------------------------------------------------------------------
(***************************************************************************)
(* What stays when something is left alone.                                *)
(***************************************************************************)
LEMMA SameReplies ==
  ASSUME Inv, UNCHANGED loopVars
  PROVE  Replies'
  BY DEF Inv, Replies, RepliedOnce, loopVars

LEMMA SameWorks ==
  ASSUME Inv, UNCHANGED <<pc, work, holders>>
  PROVE  WorksFit'
  BY DEF Inv, WorksFit, InSlot, SlotStates, WorksMatchRuns, Open

\* Nothing is acquired or loaded, and nobody begins or ends to shut down.
LEMMA SameEnded ==
  ASSUME Inv, UNCHANGED <<view, main>>, exit = "running", exit' \in {"running", "1", "2"},
         loop' = "gone" \/ main' = "waiting", loop' # "closing" \/ loop = "closing",
         view = "dropped" => loop' = "draining" \/ loop # "draining",
         holders' \subseteq holders, load' # "loading" \/ load = "loading"
  PROVE  Ended'
  BY DEF Inv, Ended

-----------------------------------------------------------------------------
(***************************************************************************)
(* The read loop.                                                          *)
(***************************************************************************)
\* The loop goes from one message to the next, or ends.
LEMMA LoopInv ==
  ASSUME Inv, exit = "running",
         \/ \E method \in Calls \cup Notes, decodes \in BOOLEAN : Receive(method, decodes)
         \/ Ignore \/ NextMessage \/ EndOfInput
  PROVE  Inv'
<1>1. /\ UNCHANGED <<state, initVars, viewVars, pc, work, main, exit>>
      /\ loop \in {"ready", "handling", "returning"}
  BY DEF Receive, Ignore, NextMessage, EndOfInput, Handles
<1>2. /\ Replies' /\ replies' \in 0..1 /\ req' \in Calls \cup Notes \cup {"none"}
      /\ loop' \in {"handling", "returning", "ready", "gone"}
  <2>1. CASE \E method \in Calls \cup Notes, decodes \in BOOLEAN : Receive(method, decodes)
    <3>1. PICK method \in Calls \cup Notes, decodes \in BOOLEAN : Receive(method, decodes)
      BY <2>1
    <3>2. /\ req' = method /\ loop' = IF decodes THEN "handling" ELSE "returning"
          /\ replies' = IF ~decodes /\ method \in Calls THEN 1 ELSE 0
      BY <3>1 DEF Receive
    <3>3. CASE decodes
      BY <3>2, <3>3 DEF Replies, RepliedOnce
    <3>4. CASE ~decodes
      BY <3>2, <3>4 DEF Replies, RepliedOnce
    <3> QED
      BY <3>3, <3>4
  <2>2. CASE Ignore
    <3>1. req \in {"codeAction", "other"} /\ loop' = "returning" /\ UNCHANGED <<req, replies>>
      BY <2>2 DEF Ignore, Handles
    <3>2. replies' = 0
      BY <2>2, <3>1 DEF Ignore, Handles, Inv, Replies
    <3> QED
      BY <3>1, <3>2 DEF Replies, RepliedOnce, Calls
  <2>3. CASE NextMessage
    BY <2>3 DEF NextMessage, Replies, RepliedOnce
  <2>4. CASE EndOfInput
    BY <2>4 DEF EndOfInput, LoopPanic, Inv, TypeOK, Replies, RepliedOnce
  <2> QED
    BY <2>1, <2>2, <2>3, <2>4
<1>3. TypeOK'
  BY <1>1, <1>2 DEF Inv, TypeOK, LoopStates, initVars, viewVars
<1>4. WorksFit'
  BY <1>1, SameWorks DEF viewVars
<1>5. Begun'
  BY <1>1 DEF Inv, Begun, viewVars
<1>6. Ended'
  <2>1. main = "waiting"
    BY <1>1 DEF Inv, Ended, TypeOK
  <2> QED
    BY <1>1, <1>2, <2>1 DEF Inv, Ended, viewVars
<1> QED
  BY <1>2, <1>3, <1>4, <1>5, <1>6 DEF Inv

\* A handler is done with its message, or panics.
LEMMA AnswerReplies ==
  ASSUME Inv, Answer \/ LoopPanic,
         loop \in {"handling", "draining", "fixing"}, req \notin {"codeAction", "other"}
  PROVE  /\ Replies' /\ replies' \in 0..1 /\ req' \in {req, "none"}
         /\ loop' \in {"returning", "gone"}
<1>1. replies = 0 /\ req \in Calls \cup Notes \cup {"none"}
  BY DEF Inv, Replies, TypeOK
<1>2. CASE Answer
  BY <1>1, <1>2 DEF Answer, Reply, Replies, RepliedOnce
<1>3. CASE LoopPanic
  BY <1>1, <1>3 DEF LoopPanic, Replies, RepliedOnce
<1> QED
  BY <1>2, <1>3

\* The work of a fix is nobody's.
LEMMA FixWorks ==
  ASSUME Inv, UNCHANGED <<pc, holders>>, NEW s \in WorkStates, work' = [work EXCEPT ![Fix] = s]
  PROVE  WorksFit' /\ work' \in [Works -> WorkStates]
<1>1. Status # Fix /\ Fix \notin Runs /\ Status \in Works /\ Runs \subseteq Works
  BY MaxModsAssumption DEF Status, Fix, Runs, Works
<1>2. work \in [Works -> WorkStates]
  BY DEF Inv, TypeOK
<1>3. work'[Status] = work[Status] /\ \A d \in Runs : work'[d] = work[d]
  BY <1>1, <1>2
<1> QED
  BY <1>2, <1>3 DEF Inv, WorksFit, InSlot, SlotStates, WorksMatchRuns, Open

LEMMA InitializeInv ==
  ASSUME Inv, exit = "running", Initialize
  PROVE  Inv'
<1>1. /\ loop = "handling" /\ req = "initialize"
      /\ UNCHANGED <<viewVars, pc, work, main, exit>>
  BY DEF Initialize, Handles
<1>2. Replies' /\ replies' \in 0..1 /\ req' \in {req, "none"} /\ loop' \in {"returning", "gone"}
  BY <1>1, AnswerReplies DEF Initialize
<1>3. /\ {leaked, root, supports}' \subseteq BOOLEAN
      /\ \/ state' = state
         \/ state = "created" /\ state' = "initializing"
  <2>1. CASE UNCHANGED <<state, initVars>>
    BY <2>1 DEF initVars, Inv, TypeOK
  <2>2. CASE leaked' = TRUE /\ UNCHANGED <<state, root, supports>>
    BY <2>2 DEF Inv, TypeOK
  <2>3. CASE /\ Accepts /\ state' = "initializing" /\ supports' \in Windows
             /\ root' \in Roots /\ UNCHANGED leaked
    BY <2>3, ClientAssumption DEF Accepts, Inv, TypeOK
  <2> QED
    BY <2>1, <2>2, <2>3 DEF Initialize
<1>4. TypeOK'
  BY <1>1, <1>2, <1>3 DEF Inv, TypeOK, LoopStates, States, viewVars
<1>5. WorksFit'
  BY <1>1, SameWorks DEF viewVars
<1>6. Begun'
  BY <1>1, <1>3 DEF Inv, Begun, viewVars
<1>7. Ended'
  BY <1>1, <1>2 DEF Inv, Ended, viewVars
<1> QED
  BY <1>2, <1>4, <1>5, <1>6, <1>7 DEF Inv

\* A run that has not begun is spawned.
LEMMA SpawnWorks ==
  ASSUME Inv, NEW d \in Runs, NEW p \in {"spawned", "opening"},
         pc[d] = "none", pc' = [pc EXCEPT ![d] = p],
         UNCHANGED <<work, holders>>
  PROVE  WorksFit' /\ pc' \in [Runs -> RunStates]
<1>1. pc \in [Runs -> RunStates] /\ p \in RunStates
  BY DEF Inv, TypeOK, RunStates, WorkingStates, SlotStates
<1>2. pc'[d] = p /\ \A e \in Runs \ {d} : pc'[e] = pc[e]
  BY <1>1
<1> QED
  BY <1>1, <1>2 DEF Inv, WorksFit, WorkingStates, SlotStates, InSlot, WorksMatchRuns, Open

LEMMA InitializedInv ==
  ASSUME Inv, exit = "running", Initialized
  PROVE  Inv'
<1>1. /\ loop = "handling" /\ req = "initialized"
      /\ UNCHANGED <<initVars, viewVars, work, main, exit>>
  BY DEF Initialized, Handles
<1>2. Replies' /\ replies' \in 0..1 /\ req' \in {req, "none"} /\ loop' \in {"returning", "gone"}
  BY <1>1, AnswerReplies DEF Initialized
<1>3. 0 \in Runs
  BY MaxModsAssumption DEF Runs
<1>4. /\ WorksFit' /\ pc' \in [Runs -> RunStates] /\ state' \in States
      /\ \/ UNCHANGED <<state, pc>>
         \/ /\ state' = "initialized" /\ view = "none"
            /\ pc'[0] = "spawned" /\ \A d \in Runs \ {0} : pc'[d] = pc[d]
  <2>1. CASE state \in {"created", "initializing"}
    <3>1. pc[0] = "none" /\ view = "none"
      BY <2>1 DEF Inv, Begun
    <3>2. state' = "initialized" /\ pc' = [pc EXCEPT ![0] = "spawned"]
      BY <2>1 DEF Initialized, GoTo
    <3>3. WorksFit' /\ pc' \in [Runs -> RunStates]
      BY <1>1, <1>3, <3>1, <3>2, SpawnWorks DEF viewVars
    <3>4. pc'[0] = "spawned" /\ \A d \in Runs \ {0} : pc'[d] = pc[d]
      BY <1>3, <3>2 DEF Inv, TypeOK
    <3> QED
      BY <3>1, <3>2, <3>3, <3>4 DEF States
  <2>2. CASE state \notin {"created", "initializing"}
    <3>1. UNCHANGED <<state, pc>>
      BY <2>2 DEF Initialized
    <3> QED
      BY <1>1, <3>1, SameWorks DEF viewVars, Inv, TypeOK
  <2> QED
    BY <2>1, <2>2
<1>5. TypeOK'
  BY <1>1, <1>2, <1>4 DEF Inv, TypeOK, LoopStates, initVars, viewVars
<1>6. Begun'
  <2>1. \A d \in Mods : d \in Runs \ {0}
    BY MaxModsAssumption DEF Mods, Runs
  <2> QED
    BY <1>1, <1>4, <2>1 DEF Inv, Begun, viewVars
<1>7. Ended'
  BY <1>1, <1>2 DEF Inv, Ended, viewVars
<1> QED
  BY <1>2, <1>4, <1>5, <1>6, <1>7 DEF Inv

LEMMA DidModifyInv ==
  ASSUME Inv, exit = "running", DidModify
  PROVE  Inv'
<1>1. /\ loop = "handling" /\ req \in {"didOpen", "didSave"}
      /\ UNCHANGED <<state, initVars, view, load, holders, work, main, exit>>
  BY DEF DidModify, Handles, Changes
<1>2. Replies' /\ replies' \in 0..1 /\ req' \in {req, "none"} /\ loop' \in {"returning", "gone"}
  BY <1>1, AnswerReplies DEF DidModify
<1>3. /\ WorksFit' /\ pc' \in [Runs -> RunStates] /\ mods' \in 0..MaxMods
      /\ \/ UNCHANGED <<mods, pc>>
         \/ /\ mods' = mods + 1 /\ mods + 1 \in Mods
            /\ \A d \in Runs \ {mods + 1} : pc'[d] = pc[d]
  <2>1. CASE UNCHANGED <<mods, pc>>
    BY <1>1, <2>1, SameWorks DEF Inv, TypeOK
  <2>2. ASSUME NEW p \in {"spawned", "opening"},
               mods < MaxMods, mods' = mods + 1, GoTo(mods + 1, p)
        PROVE  /\ WorksFit' /\ pc' \in [Runs -> RunStates] /\ mods' \in 0..MaxMods
               /\ mods' = mods + 1 /\ mods + 1 \in Mods
               /\ \A d \in Runs \ {mods + 1} : pc'[d] = pc[d]
    <3>1. mods + 1 \in Mods /\ mods + 1 \in Runs /\ mods + 1 > mods
      BY <2>2, MaxModsAssumption DEF Inv, TypeOK, Mods, Runs
    <3>2. pc[mods + 1] = "none"
      BY <3>1 DEF Inv, Begun
    <3>3. WorksFit' /\ pc' \in [Runs -> RunStates]
      BY <1>1, <2>2, <3>1, <3>2, SpawnWorks DEF GoTo
    <3>4. \A d \in Runs \ {mods + 1} : pc'[d] = pc[d]
      BY <2>2 DEF GoTo, Inv, TypeOK
    <3>5. mods' \in 0..MaxMods
      BY <2>2, MaxModsAssumption DEF Inv, TypeOK
    <3> QED
      BY <2>2, <3>1, <3>3, <3>4, <3>5
  <2> QED
    BY <2>1, <2>2 DEF DidModify
<1>4. TypeOK'
  BY <1>1, <1>2, <1>3 DEF Inv, TypeOK, LoopStates, initVars
<1>5. Begun'
  <2>1. 0 \in Runs /\ 0 \notin Mods /\ Mods \subseteq Runs
    BY MaxModsAssumption DEF Mods, Runs
  <2>2. pc'[0] = pc[0]
    BY <1>3, <2>1
  <2>3. \A d \in Mods : d > mods' => pc'[d] = "none"
    <3> SUFFICES ASSUME NEW d \in Mods, d > mods' PROVE pc'[d] = "none"
      OBVIOUS
    <3>1. d > mods /\ (mods' = mods + 1 => d # mods + 1)
      BY <1>3 DEF Inv, TypeOK, Mods
    <3>2. pc[d] = "none"
      BY <3>1 DEF Inv, Begun
    <3> QED
      BY <1>3, <2>1, <3>1, <3>2
  <2> QED
    BY <1>1, <2>2, <2>3 DEF Inv, Begun
<1>6. Ended'
  BY <1>1, <1>2 DEF Inv, Ended
<1> QED
  BY <1>2, <1>3, <1>4, <1>5, <1>6 DEF Inv

LEMMA NoFileInv ==
  ASSUME Inv, exit = "running", NoFile
  PROVE  Inv'
<1>1. /\ loop = "handling" /\ req \in {"didOpen", "didSave"} /\ LoopPanic
      /\ UNCHANGED <<state, initVars, viewVars, pc, work, main, exit>>
  BY DEF NoFile, Handles, Changes
<1>2. Replies' /\ replies' \in 0..1 /\ req' \in {req, "none"} /\ loop' = "gone"
  BY <1>1, AnswerReplies DEF LoopPanic
<1>3. TypeOK'
  BY <1>1, <1>2 DEF Inv, TypeOK, LoopStates, initVars, viewVars
<1>4. WorksFit'
  BY <1>1, SameWorks DEF viewVars
<1>5. Begun'
  BY <1>1 DEF Inv, Begun, viewVars
<1>6. Ended'
  BY <1>1, <1>2 DEF Inv, Ended, viewVars
<1> QED
  BY <1>2, <1>3, <1>4, <1>5, <1>6 DEF Inv

LEMMA ShutdownInv ==
  ASSUME Inv, exit = "running", Shutdown
  PROVE  Inv'
<1>1. /\ loop = "handling" /\ req = "shutdown" /\ state' = "shutDown"
      /\ UNCHANGED <<initVars, load, mods, holders, pc, work, main, exit>>
      /\ \/ Answer /\ UNCHANGED view
         \/ LoopPanic /\ UNCHANGED view
         \/ view = "open" /\ view' = "closed" /\ loop' = "closing" /\ UNCHANGED <<req, replies>>
  BY DEF Shutdown, Handles
<1>2. /\ Replies' /\ replies' \in 0..1 /\ req' \in {req, "none"}
      /\ loop' \in {"returning", "gone", "closing"}
  <2>1. CASE Answer \/ LoopPanic
    BY <1>1, <2>1, AnswerReplies
  <2>2. CASE loop' = "closing" /\ UNCHANGED <<req, replies>>
    BY <1>1, <2>2 DEF Inv, TypeOK, Replies, RepliedOnce
  <2> QED
    BY <1>1, <2>1, <2>2
<1>3. main = "waiting"
  BY <1>1 DEF Inv, Ended
<1>4. view' = view \/ (view = "open" /\ view' = "closed")
  BY <1>1
<1>5. TypeOK'
  BY <1>1, <1>2, <1>4 DEF Inv, TypeOK, LoopStates, States, initVars
<1>6. WorksFit'
  BY <1>1, SameWorks
<1>7. Begun'
  BY <1>1, <1>4 DEF Inv, Begun
<1>8. Ended'
  BY <1>1, <1>3, <1>4 DEF Inv, Ended, Answer, LoopPanic
<1> QED
  BY <1>2, <1>5, <1>6, <1>7, <1>8 DEF Inv

LEMMA DropViewInv ==
  ASSUME Inv, exit = "running", DropView
  PROVE  Inv'
<1>1. /\ loop = "closing" /\ loop' = "draining" /\ view' = "dropped"
      /\ UNCHANGED <<state, initVars, load, mods, holders, pc, work, req, replies, main, exit>>
  BY DEF DropView
<1>2. Replies'
  BY <1>1 DEF Inv, Replies, RepliedOnce
<1>3. main = "waiting"
  BY <1>1 DEF Inv, Ended
<1>4. TypeOK'
  BY <1>1 DEF Inv, TypeOK, LoopStates, initVars
<1>5. WorksFit'
  BY <1>1, SameWorks
<1>6. Begun'
  BY <1>1 DEF Inv, Begun, Ended
<1>7. Ended'
  BY <1>1, <1>3 DEF Inv, Ended
<1> QED
  BY <1>2, <1>4, <1>5, <1>6, <1>7 DEF Inv

LEMMA FinishShutdownInv ==
  ASSUME Inv, exit = "running", FinishShutdown
  PROVE  Inv'
<1>1. /\ loop = "draining" /\ holders = {} /\ load # "loading" /\ Answer
      /\ UNCHANGED <<state, initVars, viewVars, pc, work, main, exit>>
  BY DEF FinishShutdown, Drained
<1>2. req = "shutdown"
  BY <1>1 DEF Inv, Replies
<1>3. Replies' /\ replies' \in 0..1 /\ req' \in {req, "none"} /\ loop' = "returning"
  BY <1>1, <1>2, AnswerReplies DEF Answer
<1>4. TypeOK'
  BY <1>1, <1>2, <1>3 DEF Inv, TypeOK, LoopStates, initVars, viewVars
<1>5. WorksFit'
  BY <1>1, SameWorks DEF viewVars
<1>6. Begun'
  BY <1>1 DEF Inv, Begun, viewVars
<1>7. Ended'
  BY <1>1, <1>3 DEF Inv, Ended, viewVars
<1> QED
  BY <1>3, <1>4, <1>5, <1>6, <1>7 DEF Inv

LEMMA ExitInv ==
  ASSUME Inv, exit = "running", Exit
  PROVE  Inv'
<1>1. /\ loop = "handling" /\ req = "exit" /\ exit' \in {"running", "1"}
      /\ UNCHANGED <<state, initVars, viewVars, pc, work, main>>
      /\ UNCHANGED loopVars \/ Answer
  BY DEF Exit, Handles
<1>2. /\ Replies' /\ replies' \in 0..1 /\ req' \in {req, "none"}
      /\ loop' \in {"handling", "returning", "gone"}
  <2>1. CASE UNCHANGED loopVars
    BY <1>1, <2>1, SameReplies DEF loopVars, Inv, TypeOK
  <2>2. CASE Answer
    BY <1>1, <2>2, AnswerReplies
  <2> QED
    BY <1>1, <2>1, <2>2
<1>3. TypeOK'
  BY <1>1, <1>2 DEF Inv, TypeOK, LoopStates, initVars, viewVars
<1>4. WorksFit'
  BY <1>1, SameWorks DEF viewVars
<1>5. Begun'
  BY <1>1 DEF Inv, Begun, viewVars
<1>6. Ended'
  BY <1>1, <1>2 DEF Inv, Ended, viewVars
<1> QED
  BY <1>2, <1>3, <1>4, <1>5, <1>6 DEF Inv

LEMMA ResolveCodeActionInv ==
  ASSUME Inv, exit = "running", ResolveCodeAction
  PROVE  Inv'
<1>1. /\ loop = "handling" /\ req = "resolve"
      /\ UNCHANGED <<state, initVars, viewVars, pc, main, exit>>
      /\ \/ (Answer \/ LoopPanic) /\ UNCHANGED work
         \/ Start(Fix) /\ loop' \in {"creating", "fixing"} /\ UNCHANGED <<req, replies>>
  BY DEF ResolveCodeAction, RefuseFix, Handles
<1>2. /\ Replies' /\ replies' \in 0..1 /\ req' \in {req, "none"}
      /\ loop' \in {"returning", "gone", "creating", "fixing"}
  <2>1. CASE Answer \/ LoopPanic
    BY <1>1, <2>1, AnswerReplies
  <2>2. CASE loop' \in {"creating", "fixing"} /\ UNCHANGED <<req, replies>>
    BY <1>1, <2>2 DEF Inv, TypeOK, Replies, RepliedOnce
  <2> QED
    BY <1>1, <2>1, <2>2
<1>3. WorksFit' /\ work' \in [Works -> WorkStates]
  <2>1. CASE UNCHANGED work
    BY <1>1, <2>1, SameWorks DEF viewVars, Inv, TypeOK
  <2>2. CASE Start(Fix)
    <3>1. PICK s \in WorkStates : work' = [work EXCEPT ![Fix] = s]
      BY <2>2 DEF Start, WorkStates
    <3> QED
      BY <1>1, <3>1, FixWorks DEF viewVars
  <2> QED
    BY <1>1, <2>1, <2>2
<1>4. TypeOK'
  BY <1>1, <1>2, <1>3 DEF Inv, TypeOK, LoopStates, initVars, viewVars
<1>5. Begun'
  BY <1>1 DEF Inv, Begun, viewVars
<1>6. Ended'
  BY <1>1, <1>2 DEF Inv, Ended, viewVars
<1> QED
  BY <1>2, <1>3, <1>4, <1>5, <1>6 DEF Inv

\* Also when the request times out.
LEMMA EndFixInv ==
  ASSUME Inv, exit = "running", EndFix
  PROVE  Inv'
<1>1. /\ loop = "fixing" /\ End(Fix) /\ Answer
      /\ UNCHANGED <<state, initVars, viewVars, pc, main, exit>>
  BY DEF EndFix, RefuseFix
<1>2. req = "resolve"
  BY <1>1 DEF Inv, Replies
<1>3. Replies' /\ replies' \in 0..1 /\ req' \in {req, "none"} /\ loop' = "returning"
  BY <1>1, <1>2, AnswerReplies DEF Answer
<1>4. WorksFit' /\ work' \in [Works -> WorkStates]
  <2>1. PICK s \in WorkStates : work' = [work EXCEPT ![Fix] = s]
    BY <1>1 DEF End, WorkStates
  <2> QED
    BY <1>1, <2>1, FixWorks DEF viewVars
<1>5. TypeOK'
  BY <1>1, <1>2, <1>3, <1>4 DEF Inv, TypeOK, LoopStates, initVars, viewVars
<1>6. Begun'
  BY <1>1 DEF Inv, Begun, viewVars
<1>7. Ended'
  BY <1>1, <1>3 DEF Inv, Ended, viewVars
<1> QED
  BY <1>3, <1>4, <1>5, <1>6, <1>7 DEF Inv

-----------------------------------------------------------------------------
(***************************************************************************)
(* Runs.                                                                   *)
(***************************************************************************)
\* What WorksFit says of one run, and of the error status.
Fits(d) ==
  /\ d \in holders <=> pc[d] \in WorkingStates \/ (pc[d] = "ended" /\ d # 0)
  /\ work[d] = "creating" <=> pc[d] = "starting"
  /\ Open(d) <=> pc[d] \in WorkingStates \/ (pc[d] = "ended" /\ d = 0)
StatusFits == work[Status] = "creating" <=> \E d \in Runs : pc[d] = "reporting"

LEMMA FitsParts ==
  ASSUME Inv
  PROVE  /\ \A d \in Runs : Fits(d)
         /\ StatusFits
         /\ \A d, e \in Runs : InSlot(d) /\ InSlot(e) => d = e
  BY DEF Inv, WorksFit, WorksMatchRuns, WorkingStates, SlotStates, Fits, StatusFits

LEMMA PartsFit ==
  ASSUME \A d \in Runs : Fits(d)',
         StatusFits',
         \A d, e \in Runs : InSlot(d)' /\ InSlot(e)' => d = e
  PROVE  WorksFit'
<1>1. /\ \A d \in Runs : /\ d \in holders' <=> pc'[d] \in WorkingStates \/ (pc'[d] = "ended" /\ d # 0)
                         /\ work'[d] = "creating" <=> pc'[d] = "starting"
                         /\ Open(d)' <=> pc'[d] \in WorkingStates \/ (pc'[d] = "ended" /\ d = 0)
      /\ work'[Status] = "creating" <=> \E d \in Runs : pc'[d] = "reporting"
  BY DEF Fits, StatusFits, WorkingStates, SlotStates
<1>2. WorksMatchRuns'
  BY <1>1 DEF WorksMatchRuns, WorkingStates, SlotStates
<1> QED
  BY <1>1, <1>2 DEF WorksFit

\* One run makes a step, and the others keep what they have.
LEMMA RunWorks ==
  ASSUME Inv, NEW d \in Runs,
         \A e \in Runs \ {d} : /\ pc'[e] = pc[e] /\ work'[e] = work[e]
                               /\ e \in holders' <=> e \in holders,
         Fits(d)', StatusFits',
         InSlot(d)' => InSlot(d) \/ \A e \in Runs : ~InSlot(e)
  PROVE  WorksFit'
<1>1. \A e \in Runs : Fits(e)'
  BY FitsParts DEF Fits, Open
<1>2. \A e, f \in Runs : InSlot(e)' /\ InSlot(f)' => e = f
  <2>1. \A e \in Runs \ {d} : InSlot(e)' => InSlot(e)
    BY DEF InSlot, SlotStates
  <2> QED
    BY <2>1, FitsParts
<1> QED
  BY <1>1, <1>2, PartsFit

\* The error status is as it was.
LEMMA SameStatus ==
  ASSUME Inv, NEW d \in Runs, work'[Status] = work[Status],
         \A e \in Runs \ {d} : pc'[e] = pc[e],
         pc[d] # "reporting", pc'[d] # "reporting"
  PROVE  StatusFits'
  BY FitsParts DEF StatusFits

\* A run that has begun goes on.
LEMMA RunInv ==
  ASSUME Inv, exit = "running", NEW d \in Runs,
         UNCHANGED <<state, initVars, view, load, mods, loopVars, main, exit>>,
         pc' \in [Runs -> RunStates], work' \in [Works -> WorkStates],
         holders' \subseteq holders \/ (view = "open" /\ holders' \subseteq Runs),
         \A e \in Runs \ {d} : pc'[e] = pc[e],
         pc[d] # "none", pc'[d] \notin {"none", "spawned"}, d = 0 => pc[d] # "spawned",
         WorksFit'
  PROVE  Inv'
<1>1. TypeOK'
  BY DEF Inv, TypeOK, initVars, loopVars
<1>2. Replies'
  BY SameReplies
<1>3. Begun'
  <2>1. 0 \in Runs /\ 0 \notin Mods /\ Mods \subseteq Runs
    BY MaxModsAssumption DEF Mods, Runs
  <2>2. pc'[0] \in {"none", "spawned"} <=> pc[0] \in {"none", "spawned"}
    BY <2>1
  <2>3. pc[0] = "none" => pc'[0] = "none"
    BY <2>1
  <2>4. \A e \in Mods : pc[e] = "none" => pc'[e] = "none"
    BY <2>1
  <2> QED
    BY <2>2, <2>3, <2>4 DEF Inv, Begun
<1>4. Ended'
  BY DEF Inv, Ended, loopVars
<1> QED
  BY <1>1, <1>2, <1>3, <1>4 DEF Inv

LEMMA RunsAreWorks == Runs \subseteq Works /\ 0 \in Runs /\ Status \in Works /\ Status \notin Runs
  BY MaxModsAssumption DEF Runs, Works, Status, Fix

\* A run that begins to work holds a snapshot and starts its progress.
LEMMA StartWorks ==
  ASSUME Inv, NEW d \in Runs, pc[d] = "spawned", holders' = holders \cup {d}, Start(d),
         GoTo(d, IF supports THEN "starting" ELSE AfterStart(d))
  PROVE  /\ WorksFit' /\ pc' \in [Runs -> RunStates] /\ work' \in [Works -> WorkStates]
         /\ pc'[d] \notin {"none", "spawned"} /\ \A e \in Runs \ {d} : pc'[e] = pc[e]
<1>1. pc \in [Runs -> RunStates] /\ work \in [Works -> WorkStates]
  BY DEF Inv, TypeOK
<1>2. AfterStart(d) \in {"awaiting", "queued"}
  BY DEF AfterStart
<1>3. PICK p \in {"starting", "awaiting", "queued"} :
        /\ pc' = [pc EXCEPT ![d] = p]
        /\ work' = [work EXCEPT ![d] = IF supports THEN "creating" ELSE "message"]
        /\ p = "starting" <=> supports = TRUE
  <2>1. supports \in BOOLEAN
    BY DEF Inv, TypeOK
  <2> QED
    BY <1>2, <2>1 DEF Start, GoTo
<1>4. pc' \in [Runs -> RunStates] /\ work' \in [Works -> WorkStates]
  BY <1>1, <1>3 DEF RunStates, WorkingStates, SlotStates, WorkStates
<1>5. /\ pc'[d] \in {"starting", "awaiting", "queued"}
      /\ work'[d] \in {"creating", "message"}
      /\ work'[d] = "creating" <=> pc'[d] = "starting"
  BY <1>1, <1>3, RunsAreWorks
<1>6. \A e \in Runs \ {d} : /\ pc'[e] = pc[e] /\ work'[e] = work[e]
                            /\ e \in holders' <=> e \in holders
  BY <1>1, <1>3, RunsAreWorks
<1>7. Fits(d)'
  BY <1>5 DEF Fits, WorkingStates, SlotStates, Open
<1>8. StatusFits'
  <2>1. work'[Status] = work[Status]
    BY <1>1, <1>3, RunsAreWorks
  <2> QED
    BY <1>5, <1>6, <2>1, SameStatus
<1>9. ~InSlot(d)'
  BY <1>5 DEF InSlot, SlotStates
<1> QED
  BY <1>4, <1>5, <1>6, <1>7, <1>8, <1>9, RunWorks

LEMMA PanicInv ==
  ASSUME Inv, exit = "running", Panic
  PROVE  Inv'
<1>1. /\ exit' = "2"
      /\ UNCHANGED <<state, initVars, viewVars, pc, work, loopVars, main>>
  BY DEF Panic
<1>2. TypeOK'
  BY <1>1 DEF Inv, TypeOK, initVars, viewVars, loopVars
<1>3. Replies' /\ WorksFit'
  BY <1>1, SameReplies, SameWorks DEF viewVars
<1>4. Begun' /\ Ended'
  BY <1>1 DEF Inv, Begun, Ended, viewVars, loopVars
<1> QED
  BY <1>2, <1>3, <1>4 DEF Inv

LEMMA CreateViewInv ==
  ASSUME Inv, exit = "running", CreateView
  PROVE  Inv'
<1>1. CASE Panic
  BY <1>1, PanicInv
<1>2. CASE root
  <2>1. /\ pc[0] = "spawned" /\ view' = "open" /\ load' = "loading"
        /\ holders' = holders \cup {0} /\ Start(0)
        /\ GoTo(0, IF supports THEN "starting" ELSE AfterStart(0))
        /\ UNCHANGED <<state, initVars, mods, loopVars, main, exit>>
    BY <1>2 DEF CreateView
  <2>2. /\ WorksFit' /\ pc' \in [Runs -> RunStates] /\ work' \in [Works -> WorkStates]
        /\ pc'[0] \notin {"none", "spawned"} /\ \A e \in Runs \ {0} : pc'[e] = pc[e]
    BY <2>1, RunsAreWorks, StartWorks
  <2>3. TypeOK'
    BY <2>1, <2>2, RunsAreWorks DEF Inv, TypeOK, initVars, loopVars
  <2>4. Replies'
    BY <2>1, SameReplies
  <2>5. Begun'
    <3>1. \A e \in Mods : e \in Runs \ {0}
      BY MaxModsAssumption DEF Mods, Runs
    <3> QED
      BY <2>1, <2>2, <3>1 DEF Inv, Begun
  <2>6. Ended'
    <3>1. view = "none"
      BY <2>1 DEF Inv, Begun
    <3> QED
      BY <2>1, <3>1 DEF Inv, Ended, loopVars
  <2> QED
    BY <2>2, <2>3, <2>4, <2>5, <2>6 DEF Inv
<1> QED
  BY <1>1, <1>2 DEF CreateView

LEMMA EndLoadInv ==
  ASSUME Inv, exit = "running", EndLoad
  PROVE  Inv'
<1>1. /\ load = "loading" /\ load' \in {"ok", "failed", "skipped"}
      /\ UNCHANGED <<state, initVars, view, mods, holders, pc, work, loopVars, main, exit>>
  BY DEF EndLoad
<1>2. TypeOK'
  BY <1>1 DEF Inv, TypeOK, initVars, loopVars
<1>3. Replies' /\ WorksFit'
  BY <1>1, SameReplies, SameWorks
<1>4. Begun' /\ Ended'
  BY <1>1 DEF Inv, Begun, Ended, loopVars
<1> QED
  BY <1>2, <1>3, <1>4 DEF Inv

LEMMA GetSnapshotInv ==
  ASSUME Inv, exit = "running", NEW d \in Runs, GetSnapshot(d)
  PROVE  Inv'
<1>1. d # 0 /\ pc[d] \in {"spawned", "opening"}
  BY DEF GetSnapshot
<1>2. CASE Panic
  BY <1>2, PanicInv
<1>3. CASE /\ view = "open"
           /\ holders' = holders \cup {d}
           /\ pc[d] = "spawned"
           /\ Start(d)
           /\ GoTo(d, IF supports THEN "starting" ELSE AfterStart(d))
           /\ UNCHANGED <<state, initVars, view, load, mods, loopVars, main, exit>>
  <2>1. /\ WorksFit' /\ pc' \in [Runs -> RunStates] /\ work' \in [Works -> WorkStates]
        /\ pc'[d] \notin {"none", "spawned"} /\ \A e \in Runs \ {d} : pc'[e] = pc[e]
    BY <1>1, <1>3, StartWorks
  <2>2. holders' \subseteq Runs
    BY <1>3 DEF Inv, TypeOK
  <2> QED
    BY <1>1, <1>3, <2>1, <2>2, RunInv
<1>4. CASE /\ view = "open"
           /\ holders' = holders \cup {d}
           /\ GoTo(d, "ended")
           /\ UNCHANGED <<state, initVars, view, load, mods, work, loopVars, main, exit>>
  <2>1. /\ pc' \in [Runs -> RunStates] /\ work' \in [Works -> WorkStates]
        /\ pc'[d] = "ended" /\ \A e \in Runs \ {d} : pc'[e] = pc[e]
    BY <1>4 DEF GoTo, Inv, TypeOK, RunStates, WorkingStates, SlotStates
  <2>2. Fits(d)'
    <3>1. Fits(d)
      BY FitsParts
    <3> QED
      BY <1>1, <1>4, <2>1, <3>1 DEF Fits, WorkingStates, SlotStates, Open
  <2>3. StatusFits'
    BY <1>1, <1>4, <2>1, SameStatus
  <2>4. ~InSlot(d)'
    BY <2>1 DEF InSlot, SlotStates
  <2>5. WorksFit'
    BY <1>4, <2>1, <2>2, <2>3, <2>4, RunWorks
  <2>6. holders' \subseteq Runs
    BY <1>4 DEF Inv, TypeOK
  <2> QED
    BY <1>1, <1>4, <2>1, <2>5, <2>6, RunInv
<1>5. CASE /\ GoTo(d, "done")
           /\ UNCHANGED <<state, initVars, viewVars, work, loopVars, main, exit>>
  <2>1. /\ pc' \in [Runs -> RunStates] /\ work' \in [Works -> WorkStates]
        /\ pc'[d] = "done" /\ \A e \in Runs \ {d} : pc'[e] = pc[e]
    BY <1>5 DEF GoTo, Inv, TypeOK, RunStates, WorkingStates, SlotStates
  <2>2. Fits(d)'
    <3>1. Fits(d)
      BY FitsParts
    <3> QED
      BY <1>1, <1>5, <2>1, <3>1 DEF Fits, WorkingStates, SlotStates, Open, viewVars
  <2>3. StatusFits'
    BY <1>1, <1>5, <2>1, SameStatus
  <2>4. ~InSlot(d)'
    BY <2>1 DEF InSlot, SlotStates
  <2>5. WorksFit'
    BY <1>5, <2>1, <2>2, <2>3, <2>4, RunWorks DEF viewVars
  <2> QED
    BY <1>1, <1>5, <2>1, <2>5, RunInv DEF viewVars
<1> QED
  BY <1>2, <1>3, <1>4, <1>5 DEF GetSnapshot

\* A run at work moves on, in a way that the error status fits.
LEMMA MoveInv ==
  ASSUME Inv, exit = "running", NEW d \in Runs, NEW p \in WorkingStates \ {"starting"},
         GoTo(d, p), pc[d] \in WorkingStates \ {"starting"},
         UNCHANGED <<state, initVars, viewVars, loopVars, main, exit>>,
         work' \in [Works -> WorkStates], \A e \in Runs : work'[e] = work[e],
         StatusFits',
         p \in SlotStates => InSlot(d) \/ \A e \in Runs : ~InSlot(e)
  PROVE  Inv'
<1>1. /\ pc' \in [Runs -> RunStates]
      /\ pc'[d] = p /\ \A e \in Runs \ {d} : pc'[e] = pc[e]
  BY DEF GoTo, Inv, TypeOK, RunStates, WorkingStates, SlotStates
<1>2. Fits(d)'
  <2>1. Fits(d)
    BY FitsParts
  <2> QED
    BY <1>1, <2>1 DEF Fits, WorkingStates, SlotStates, Open, viewVars
<1>3. InSlot(d)' => InSlot(d) \/ \A e \in Runs : ~InSlot(e)
  BY <1>1 DEF InSlot, SlotStates
<1>4. WorksFit'
  BY <1>1, <1>2, <1>3, RunWorks DEF viewVars
<1>5. pc[d] \notin {"none", "spawned"} /\ p \notin {"none", "spawned"}
  BY DEF WorkingStates, SlotStates
<1> QED
  BY <1>1, <1>4, <1>5, RunInv DEF viewVars

\* The status stays as it is when the run that moves is not at starting it.
LEMMA MoveStatus ==
  ASSUME Inv, NEW d \in Runs, NEW p, GoTo(d, p), UNCHANGED work,
         pc[d] # "reporting", p # "reporting"
  PROVE  /\ StatusFits'
         /\ work' \in [Works -> WorkStates] /\ \A e \in Runs : work'[e] = work[e]
<1>1. pc'[d] = p /\ \A e \in Runs \ {d} : pc'[e] = pc[e]
  BY DEF GoTo, Inv, TypeOK
<1> QED
  BY <1>1, SameStatus DEF Inv, TypeOK

LEMMA AwaitInitializedInv ==
  ASSUME Inv, exit = "running", AwaitInitialized
  PROVE  Inv'
<1>1. /\ pc[0] = "awaiting" /\ GoTo(0, "queued") /\ UNCHANGED work
      /\ UNCHANGED <<state, initVars, viewVars, loopVars, main, exit>>
  BY DEF AwaitInitialized
<1>2. /\ StatusFits'
      /\ work' \in [Works -> WorkStates] /\ \A e \in Runs : work'[e] = work[e]
  BY <1>1, RunsAreWorks, MoveStatus
<1>3. "queued" \in WorkingStates \ {"starting"} /\ pc[0] \in WorkingStates \ {"starting"}
  BY <1>1 DEF WorkingStates, SlotStates
<1> QED
  BY <1>1, <1>2, <1>3, RunsAreWorks, MoveInv DEF SlotStates

LEMMA TakeSlotInv ==
  ASSUME Inv, exit = "running", NEW d \in Runs, TakeSlot(d)
  PROVE  Inv'
<1>1. PICK p \in {"checking", "ending"} :
        /\ GoTo(d, p)
        /\ p = "checking" => SlotFree
  BY DEF TakeSlot
<1>2. /\ pc[d] = "queued" /\ UNCHANGED work
      /\ UNCHANGED <<state, initVars, viewVars, loopVars, main, exit>>
  BY DEF TakeSlot
<1>3. /\ StatusFits'
      /\ work' \in [Works -> WorkStates] /\ \A e \in Runs : work'[e] = work[e]
  BY <1>1, <1>2, MoveStatus
<1>4. p \in WorkingStates \ {"starting"} /\ pc[d] \in WorkingStates \ {"starting"}
  BY <1>2 DEF WorkingStates, SlotStates
<1>5. p \in SlotStates => \A e \in Runs : ~InSlot(e)
  BY <1>1 DEF SlotFree, SlotStates, InSlot
<1> QED
  BY <1>1, <1>2, <1>3, <1>4, <1>5, MoveInv

\* The run in the slot begins, ends or leaves the error status.
LEMMA UpdateStatusInv ==
  ASSUME Inv, exit = "running", NEW d \in Runs, pc[d] \in {"checking", "previewing"},
         NEW err \in BOOLEAN, NEW next \in {"previewing", "ending"},
         UpdateStatus(d, err, next),
         UNCHANGED <<state, initVars, viewVars, loopVars, main, exit>>
  PROVE  Inv'
<1>1. /\ InSlot(d) /\ pc[d] \in WorkingStates \ {"starting"}
      /\ work \in [Works -> WorkStates] /\ pc \in [Runs -> RunStates]
  BY DEF InSlot, SlotStates, WorkingStates, Inv, TypeOK
<1>2. \A e \in Runs : pc[e] # "reporting"
  BY <1>1, FitsParts DEF InSlot, SlotStates
<1>3. PICK p \in {"previewing", "ending", "reporting"} :
        /\ GoTo(d, p)
        /\ \/ UNCHANGED work /\ p # "reporting"
           \/ /\ work' = [work EXCEPT ![Status] = "creating"]
              /\ p = "reporting"
           \/ /\ work' = [work EXCEPT ![Status] = "message"]
              /\ p # "reporting"
           \/ /\ work' = [work EXCEPT ![Status] = "none"]
              /\ p # "reporting"
  <2>1. CASE Start(Status) /\ GoTo(d, IF supports THEN "reporting" ELSE next)
    <3>1. CASE supports
      BY <2>1, <3>1 DEF Start
    <3>2. CASE ~supports
      BY <2>1, <3>2 DEF Start
    <3> QED
      BY <3>1, <3>2
  <2>2. CASE End(Status) /\ GoTo(d, next)
    BY <2>2, RunsAreWorks DEF End
  <2>3. CASE UNCHANGED work /\ GoTo(d, next)
    BY <2>3
  <2> QED
    BY <2>1, <2>2, <2>3 DEF UpdateStatus
<1>4. /\ work' \in [Works -> WorkStates] /\ \A e \in Runs : work'[e] = work[e]
      /\ p \in WorkingStates \ {"starting"}
  BY <1>1, <1>3, RunsAreWorks DEF WorkStates, WorkingStates, SlotStates
<1>5. pc'[d] = p /\ \A e \in Runs \ {d} : pc'[e] = pc[e]
  BY <1>1, <1>3 DEF GoTo
<1>6. StatusFits'
  <2>1. CASE UNCHANGED work /\ p # "reporting"
    BY <1>2, <1>5, <2>1, SameStatus
  <2>2. CASE work' = [work EXCEPT ![Status] = "creating"] /\ p = "reporting"
    <3>1. work'[Status] = "creating" /\ pc'[d] = "reporting"
      BY <1>1, <1>5, <2>2, RunsAreWorks
    <3> QED
      BY <3>1 DEF StatusFits
  <2>3. CASE /\ \/ work' = [work EXCEPT ![Status] = "message"]
                \/ work' = [work EXCEPT ![Status] = "none"]
             /\ p # "reporting"
    <3>1. work'[Status] \in {"message", "none"}
      BY <1>1, <2>3, RunsAreWorks
    <3>2. \A e \in Runs : pc'[e] # "reporting"
      BY <1>2, <1>5, <2>3
    <3> QED
      BY <3>1, <3>2 DEF StatusFits
  <2> QED
    BY <1>3, <2>1, <2>2, <2>3
<1> QED
  BY <1>1, <1>3, <1>4, <1>6, MoveInv

LEMMA CheckInv ==
  ASSUME Inv, exit = "running", NEW d \in Runs, Check(d)
  PROVE  Inv'
<1>1. /\ pc[d] = "checking"
      /\ UNCHANGED <<state, initVars, viewVars, loopVars, main, exit>>
  BY DEF Check
<1>2. CASE Cancelled(d)
  <2>1. GoTo(d, "ending") /\ UNCHANGED work
    BY <1>2 DEF Check
  <2>2. /\ StatusFits'
        /\ work' \in [Works -> WorkStates] /\ \A e \in Runs : work'[e] = work[e]
    BY <1>1, <2>1, MoveStatus
  <2>3. "ending" \in WorkingStates \ {"starting"} /\ pc[d] \in WorkingStates \ {"starting"}
    BY <1>1 DEF WorkingStates, SlotStates
  <2> QED
    BY <1>1, <2>1, <2>2, <2>3, MoveInv DEF SlotStates
<1>3. CASE ~Cancelled(d)
  <2>1. PICK err \in BOOLEAN, next \in {"previewing", "ending"} : UpdateStatus(d, err, next)
    BY <1>3 DEF Check
  <2> QED
    BY <1>1, <2>1, UpdateStatusInv
<1> QED
  BY <1>2, <1>3

LEMMA EndPreviewInv ==
  ASSUME Inv, exit = "running", NEW d \in Runs, EndPreview(d)
  PROVE  Inv'
<1>1. pc[d] = "previewing"
  BY DEF EndPreview
<1>2. CASE /\ GoTo(d, "ending") /\ UNCHANGED work
           /\ UNCHANGED <<state, initVars, viewVars, loopVars, main, exit>>
  <2>1. /\ StatusFits'
        /\ work' \in [Works -> WorkStates] /\ \A e \in Runs : work'[e] = work[e]
    BY <1>1, <1>2, MoveStatus
  <2>2. "ending" \in WorkingStates \ {"starting"} /\ pc[d] \in WorkingStates \ {"starting"}
    BY <1>1 DEF WorkingStates, SlotStates
  <2> QED
    BY <1>1, <1>2, <2>1, <2>2, MoveInv DEF SlotStates
<1>3. CASE /\ UpdateStatus(d, TRUE, "ending")
           /\ UNCHANGED <<state, initVars, viewVars, loopVars, main, exit>>
  BY <1>1, <1>3, UpdateStatusInv
<1>4. CASE Panic
  BY <1>4, PanicInv
<1> QED
  BY <1>2, <1>3, <1>4 DEF EndPreview

LEMMA WedgeInv ==
  ASSUME Inv, exit = "running", NEW d \in Runs, Wedge(d)
  PROVE  Inv'
<1>1. /\ pc[d] = "previewing" /\ GoTo(d, "wedged") /\ UNCHANGED work
      /\ UNCHANGED <<state, initVars, viewVars, loopVars, main, exit>>
  BY DEF Wedge
<1>2. /\ StatusFits'
      /\ work' \in [Works -> WorkStates] /\ \A e \in Runs : work'[e] = work[e]
  BY <1>1, MoveStatus
<1>3. /\ "wedged" \in WorkingStates \ {"starting"} /\ pc[d] \in WorkingStates \ {"starting"}
      /\ InSlot(d)
  BY <1>1 DEF WorkingStates, SlotStates, InSlot
<1> QED
  BY <1>1, <1>2, <1>3, MoveInv

LEMMA EndRunInv ==
  ASSUME Inv, exit = "running", NEW d \in Runs, EndRun(d)
  PROVE  Inv'
<1>1. PICK p \in {"ended", "done"} :
        /\ GoTo(d, p)
        /\ pc[d] = IF p = "ended" THEN "ending" ELSE "ended"
  BY DEF EndRun
<1>2. /\ UNCHANGED <<state, initVars, view, load, mods, loopVars, main, exit>>
      /\ \/ (pc[d] = "ending" <=> d # 0) /\ End(d) /\ UNCHANGED holders
         \/ (pc[d] = "ending" <=> d = 0) /\ holders' = holders \ {d} /\ UNCHANGED work
  BY DEF EndRun, EndsWorkFirst, EndWork
<1>3. /\ pc' \in [Runs -> RunStates]
      /\ pc'[d] = p /\ \A e \in Runs \ {d} : pc'[e] = pc[e]
  BY <1>1 DEF GoTo, Inv, TypeOK, RunStates, WorkingStates, SlotStates
<1>4. /\ work' \in [Works -> WorkStates] /\ holders' \subseteq holders
      /\ work'[Status] = work[Status]
      /\ \A e \in Runs \ {d} : work'[e] = work[e] /\ (e \in holders' <=> e \in holders)
  <2>1. work \in [Works -> WorkStates]
    BY DEF Inv, TypeOK
  <2> QED
    BY <1>2, <2>1, RunsAreWorks DEF End, WorkStates
<1>5. Fits(d)'
  <2>1. Fits(d) /\ work \in [Works -> WorkStates]
    BY FitsParts DEF Inv, TypeOK
  <2>2. CASE (pc[d] = "ending" <=> d # 0) /\ End(d) /\ UNCHANGED holders
    <3>1. work'[d] = "ended"
      BY <2>1, <2>2, RunsAreWorks DEF End
    <3> QED
      BY <1>1, <1>3, <2>1, <2>2, <3>1 DEF Fits, WorkingStates, SlotStates, Open
  <2>3. CASE (pc[d] = "ending" <=> d = 0) /\ holders' = holders \ {d} /\ UNCHANGED work
    <3>1. d \notin holders'
      BY <2>3
    <3> QED
      BY <1>1, <1>3, <2>1, <2>3, <3>1 DEF Fits, WorkingStates, SlotStates, Open
  <2> QED
    BY <1>2, <2>2, <2>3
<1>6. StatusFits'
  BY <1>1, <1>3, <1>4, SameStatus
<1>7. ~InSlot(d)'
  BY <1>3 DEF InSlot, SlotStates
<1>8. WorksFit'
  BY <1>3, <1>4, <1>5, <1>6, <1>7, RunWorks
<1> QED
  BY <1>1, <1>2, <1>3, <1>4, <1>8, RunInv

\* The client's answer starts what has waited for it.
LEMMA CreatedInv ==
  ASSUME Inv, exit = "running", NEW w \in Works, Created(w)
  PROVE  Inv'
<1>1. /\ work[w] = "creating" /\ work' = [work EXCEPT ![w] = "begun"]
      /\ UNCHANGED <<state, initVars, viewVars, loopVars, main, exit>>
      /\ \A e \in Runs : pc'[e] = IF e = w THEN AfterStart(e)
                                  ELSE IF w = Status /\ pc[e] = "reporting" THEN "ending"
                                  ELSE pc[e]
  BY DEF Created
<1>2. work \in [Works -> WorkStates] /\ pc \in [Runs -> RunStates]
  BY DEF Inv, TypeOK
<1>3. CASE w \in Runs
  <2>1. w # Status /\ pc[w] = "starting"
    BY <1>1, <1>3, RunsAreWorks, FitsParts DEF Fits
  <2>2. pc'[w] \in {"awaiting", "queued"} /\ \A e \in Runs \ {w} : pc'[e] = pc[e]
    BY <1>1, <1>3, <2>1 DEF AfterStart
  <2>3. pc' \in [Runs -> RunStates]
    <3>1. pc' = [e \in Runs |-> IF e = w THEN AfterStart(e) ELSE pc[e]]
      BY <2>1 DEF Created
    <3> QED
      BY <1>2, <3>1 DEF AfterStart, RunStates, WorkingStates, SlotStates
  <2>4. /\ work' \in [Works -> WorkStates] /\ work'[w] = "begun"
        /\ work'[Status] = work[Status]
        /\ \A e \in Runs \ {w} : work'[e] = work[e]
    BY <1>1, <1>2, <1>3, <2>1, RunsAreWorks DEF WorkStates
  <2>5. Fits(w)'
    <3>1. Fits(w)
      BY <1>3, FitsParts
    <3> QED
      BY <1>1, <2>1, <2>2, <2>4, <3>1 DEF Fits, WorkingStates, SlotStates, Open, viewVars
  <2>6. StatusFits'
    BY <1>3, <2>1, <2>2, <2>4, SameStatus
  <2>7. ~InSlot(w)'
    BY <2>2 DEF InSlot, SlotStates
  <2>8. WorksFit'
    BY <1>1, <1>3, <2>2, <2>4, <2>5, <2>6, <2>7, RunWorks DEF viewVars
  <2> QED
    BY <1>1, <1>3, <2>1, <2>2, <2>3, <2>4, <2>8, RunInv DEF viewVars
<1>4. CASE w = Status
  <2>1. PICK d \in Runs : pc[d] = "reporting" /\ \A e \in Runs \ {d} : pc[e] # "reporting"
    BY <1>1, <1>4, FitsParts DEF StatusFits, InSlot, SlotStates
  <2>2. pc'[d] = "ending" /\ \A e \in Runs \ {d} : pc'[e] = pc[e]
    BY <1>1, <1>4, <2>1, RunsAreWorks
  <2>3. pc' = [e \in Runs |-> IF e = d THEN "ending" ELSE pc[e]]
    BY <1>4, <2>1, RunsAreWorks DEF Created
  <2>4. GoTo(d, "ending")
    BY <1>2, <2>1, <2>3 DEF GoTo
  <2>5. /\ work' \in [Works -> WorkStates] /\ work'[Status] = "begun"
        /\ \A e \in Runs : work'[e] = work[e]
    BY <1>1, <1>2, <1>4, RunsAreWorks DEF WorkStates
  <2>6. StatusFits'
    BY <2>1, <2>2, <2>5 DEF StatusFits
  <2>7. "ending" \in WorkingStates \ {"starting"} /\ pc[d] \in WorkingStates \ {"starting"}
    BY <2>1 DEF WorkingStates, SlotStates
  <2> QED
    BY <1>1, <2>4, <2>5, <2>6, <2>7, MoveInv DEF SlotStates
<1>5. CASE w = Fix
  <2>1. w \notin Runs /\ w # Status
    BY <1>5, MaxModsAssumption DEF Fix, Runs, Status
  <2>2. pc' = [e \in Runs |-> pc[e]]
    BY <2>1 DEF Created
  <2>3. UNCHANGED pc
    BY <1>2, <2>2
  <2>4. WorksFit' /\ work' \in [Works -> WorkStates]
    BY <1>1, <1>5, <2>3, FixWorks DEF viewVars, WorkStates
  <2>5. TypeOK'
    BY <1>1, <2>3, <2>4 DEF Inv, TypeOK, initVars, viewVars, loopVars
  <2>6. Replies'
    BY <1>1, SameReplies
  <2>7. Begun' /\ Ended'
    BY <1>1, <2>3 DEF Inv, Begun, Ended, viewVars, loopVars
  <2> QED
    BY <2>4, <2>5, <2>6, <2>7 DEF Inv
<1> QED
  BY <1>3, <1>4, <1>5 DEF Works

-----------------------------------------------------------------------------
(***************************************************************************)
(* The end of the process, and all steps together.                         *)
(***************************************************************************)
LEMMA MainInv ==
  ASSUME Inv, exit = "running", MainShutdown \/ MainDropView \/ MainReturn
  PROVE  Inv'
<1>1. UNCHANGED <<initVars, load, mods, holders, pc, work, loopVars>>
  BY DEF MainShutdown, MainDropView, MainReturn, viewVars
<1>2. loop = "gone" /\ loop' = "gone"
  BY <1>1 DEF MainShutdown, MainDropView, MainReturn, Inv, Ended, loopVars
<1>3. /\ state' \in {state, "shutDown"}
      /\ \/ UNCHANGED <<view, main>> /\ exit' \in {"0", "1"} /\ main = "waiting"
         \/ view = "open" /\ view' = "closed" /\ main' = "closing" /\ UNCHANGED exit
         \/ view = "closed" /\ view' = "dropped" /\ main' = "draining" /\ UNCHANGED exit
         \/ UNCHANGED <<view, main>> /\ exit' = "0" /\ holders = {} /\ load # "loading"
  <2>1. CASE MainShutdown
    BY <2>1 DEF MainShutdown
  <2>2. CASE MainDropView
    BY <2>2 DEF MainDropView, Inv, Ended
  <2>3. CASE MainReturn
    BY <2>3 DEF MainReturn, Drained, viewVars
  <2> QED
    BY <2>1, <2>2, <2>3
<1>4. TypeOK'
  BY <1>1, <1>3 DEF Inv, TypeOK, States, initVars, loopVars
<1>5. Replies' /\ WorksFit'
  BY <1>1, SameReplies, SameWorks
<1>6. Begun'
  BY <1>1, <1>3 DEF Inv, Begun
<1>7. Ended'
  BY <1>1, <1>2, <1>3 DEF Inv, Ended
<1> QED
  BY <1>4, <1>5, <1>6, <1>7 DEF Inv

LEMMA StepInv == Inv /\ [Next]_vars => Inv'
<1> SUFFICES ASSUME Inv, [Next]_vars PROVE Inv'
  OBVIOUS
<1>1. CASE UNCHANGED vars
  <2>1. TypeOK'
    BY <1>1 DEF vars, Inv, TypeOK, initVars, viewVars, loopVars
  <2>2. Replies' /\ WorksFit'
    BY <1>1, SameReplies, SameWorks DEF vars, viewVars
  <2>3. Begun' /\ Ended'
    BY <1>1 DEF vars, Inv, Begun, Ended, viewVars, loopVars
  <2> QED
    BY <2>1, <2>2, <2>3 DEF Inv
<1>2. CASE Next
  <2>1. exit = "running"
    BY <1>2 DEF Next
  <2>2. CASE \/ \E method \in Calls \cup Notes, decodes \in BOOLEAN : Receive(method, decodes)
             \/ EndOfInput
    BY <2>1, <2>2, LoopInv
  <2>3. CASE LoopStep \/ NoFile \/ ServiceAnswers
    BY <2>1, <2>3, LoopInv, InitializeInv, InitializedInv, DidModifyInv, NoFileInv,
       ShutdownInv, DropViewInv,
       FinishShutdownInv, ExitInv, ResolveCodeActionInv, EndFixInv
       DEF LoopStep, ServiceAnswers, ServiceTimesOut
  <2>4. CASE \E w \in Works : Created(w)
    BY <2>1, <2>4, CreatedInv
  <2>5. CASE \E d \in Runs : RunStep(d) \/ Wedge(d)
    <3>1. PICK d \in Runs : RunStep(d) \/ Wedge(d)
      BY <2>5
    <3> QED
      BY <2>1, <3>1, CreateViewInv, EndLoadInv, AwaitInitializedInv, GetSnapshotInv,
         TakeSlotInv, CheckInv, EndPreviewInv, WedgeInv, EndRunInv DEF RunStep
  <2>6. CASE MainStep
    BY <2>1, <2>6, PanicInv, MainInv DEF MainStep, FatalPanic
  <2> QED
    BY <1>2, <2>2, <2>3, <2>4, <2>5, <2>6 DEF Next
<1> QED
  BY <1>1, <1>2

LEMMA AlwaysInv == Spec => []Inv
<1> QED
  BY InitInv, StepInv, PTL DEF Spec

\* Every variable keeps its type: TypeOK in all runs of the server.
THEOREM ServerTypes == Spec => []TypeOK
<1>1. Inv => TypeOK
  BY DEF Inv
<1> QED
  BY <1>1, AlwaysInv, PTL

\* No call is replied to twice, and once the read loop is through with a call it has
\* been replied to, but for the two kinds that serverDispatch takes as handled without
\* a reply (lsp/server.go:112, :130), contrary to rpc/handler.go:31.
THEOREM RepliesOnce == Spec => []RepliedOnce
<1>1. Inv => RepliedOnce
  BY DEF Inv, Replies
<1> QED
  BY <1>1, AlwaysInv, PTL

\* A run's progress is open exactly while it is at work, and only the run in the
\* diagnostics slot can be starting the error status (server/progress.go:40).
THEOREM ProgressMatchesRuns == Spec => []WorksMatchRuns
<1>1. Inv => WorksMatchRuns
  BY DEF Inv, WorksFit
<1> QED
  BY <1>1, AlwaysInv, PTL

\* Shutdown, of the handler and of main, returns when nothing holds a snapshot and
\* the progress of every save has ended (server.go:263-264).
THEOREM ShutdownDrains == Spec => []DrainedMeansEnded
<1>1. Inv => DrainedMeansEnded
  <2> SUFFICES ASSUME Inv, view = "dropped", loop # "draining", main = "draining" => exit = "0"
               PROVE  holders = {} /\ load # "loading" /\ \A d \in Mods : ~Open(d)
    BY DEF DrainedMeansEnded
  <2>1. holders = {} /\ load # "loading"
    BY DEF Inv, Ended
  <2>2. \A d \in Mods : d \in Runs /\ d # 0
    BY MaxModsAssumption DEF Mods, Runs
  <2>3. \A d \in Mods : ~Open(d)
    BY <2>1, <2>2, FitsParts DEF Fits
  <2> QED
    BY <2>1, <2>3
<1> QED
  BY <1>1, AlwaysInv, PTL

-----------------------------------------------------------------------------
(***************************************************************************)
(* A process that has not come to rest has a step to make, but for five    *)
(* waits.  Can and the like are the guards of the actions, spelled out.    *)
(***************************************************************************)
LoopCan ==
  \/ /\ loop = "handling"
     /\ \/ req \in {"codeAction", "other", "resolve"}
        \/ req \in {"initialize", "initialized", "shutdown", "exit"} /\ ~leaked
        \/ req \in Changes /\ (view # "open" \/ Loaded)
  \/ loop \in {"returning", "closing", "fixing"}
  \/ loop = "draining" /\ Drained

RunCan(d) ==
  \/ d = 0 /\ (pc[d] = "spawned" \/ load = "loading" \/ (pc[d] = "awaiting" /\ Loaded))
  \/ d # 0 /\ pc[d] \in {"spawned", "opening"} /\ view # "none"
  \/ pc[d] = "queued" /\ (SlotFree \/ Cancelled(d))
  \/ pc[d] \in {"checking", "previewing", "ending", "ended"}

\* The client's answer to a progress request can be taken in.
AnswerCan(w) == work[w] = "creating" /\ loop = "ready"

\* The runtime, or main's deferred Shutdown.
MainCan == loop = "gone" \/ main = "closing" \/ (main = "draining" /\ Drained)

\* The waits that may have no end: a lifecycle request for a mutex that an earlier one
\* has left locked; a code action for its own progress; Shutdown for a run that waits for
\* the answer to a progress request; the initial run for a load that was cancelled
\* before it began; a cancelled run for a preview whose log nobody reads any more
\* (run.go:252).
KnownWait ==
  \/ leaked /\ loop = "handling" /\ req \in {"initialize", "initialized", "shutdown", "exit"}
  \/ loop = "creating"
  \/ loop = "draining" /\ \E w \in Works : work[w] = "creating"
  \/ load = "skipped" /\ pc[0] = "awaiting"
  \/ \E d \in Runs : pc[d] = "wedged" /\ Cancelled(d)

AtRest == loop = "ready" /\ \A d \in Runs : pc[d] \in {"none", "done"}

\* No other handler waits for ever, and no run: whatever the client sends, in whatever
\* order, a handler or a run that cannot go on waits for one that can.
NothingElseWaits ==
  \/ LoopCan \/ MainCan
  \/ (\E d \in Runs : RunCan(d)) \/ (\E w \in Works : AnswerCan(w))
  \/ KnownWait \/ AtRest

\* Why something is where it waits.
WaitsForReason ==
  /\ load = "skipped" => view \in {"closed", "dropped"}
  /\ load = "none" => view = "none"
  /\ view = "none" => mods = 0
  /\ loop = "handling" => req # "none"
  /\ \A d \in Runs : /\ pc[d] = "awaiting" => d = 0
                     /\ pc[d] = "opening" => d # 0
                     /\ pc[d] = "wedged" => Cancelled(d)

LEMMA ReasonInit == Init => WaitsForReason
  BY DEF Init, WaitsForReason

\* A step that leaves alone what is waited for, or nearly.
LEMMA LoopKeepsReason ==
  ASSUME Inv, WaitsForReason,
         \/ \E method \in Calls \cup Notes, decodes \in BOOLEAN : Receive(method, decodes)
         \/ EndOfInput \/ LoopStep \/ NoFile \/ ServiceAnswers \/ MainStep
  PROVE  WaitsForReason'
<1> USE DEF Inv, TypeOK, WaitsForReason, Cancelled, viewVars, Answer, LoopPanic, GoTo, Panic, loopVars
<1>1. "none" \notin Calls \cup Notes /\ 0 \in Runs
  BY RunsAreWorks DEF Calls, Notes, Changes
<1>2. ASSUME NEW method \in Calls \cup Notes, NEW decodes \in BOOLEAN, Receive(method, decodes)
      PROVE  WaitsForReason'
  BY <1>1, <1>2 DEF Receive
<1>3. CASE EndOfInput \/ Ignore \/ NextMessage \/ Initialize
  BY <1>3 DEF EndOfInput, Ignore, NextMessage, Initialize
<1>4. CASE Initialized
  BY <1>1, <1>4 DEF Initialized
<1>5. CASE DidModify \/ NoFile
  <2>1. /\ UNCHANGED <<view, load>> /\ loop' # "handling"
        /\ \/ UNCHANGED <<mods, pc>>
           \/ /\ view = "open" /\ mods' = mods + 1 /\ mods + 1 # 0
              /\ \E p \in {"spawned", "opening"} : pc' = [pc EXCEPT ![mods + 1] = p]
    BY <1>5, MaxModsAssumption DEF DidModify, NoFile
  <2>2. mods \in Int /\ Runs \subseteq Int
    BY MaxModsAssumption DEF Runs
  <2> QED
    BY <2>1, <2>2
<1>6. CASE Shutdown \/ DropView \/ FinishShutdown \/ Exit
  BY <1>6 DEF Shutdown, DropView, FinishShutdown, Exit, Ended
<1>7. CASE ResolveCodeAction \/ EndFix
  BY <1>7 DEF ResolveCodeAction, RefuseFix, EndFix
<1>8. CASE MainStep
  BY <1>8 DEF MainStep, FatalPanic, MainShutdown, MainDropView, MainReturn, Ended
<1> QED
  BY <1>2, <1>3, <1>4, <1>5, <1>6, <1>7, <1>8 DEF LoopStep, ServiceAnswers, ServiceTimesOut

LEMMA RunKeepsReason ==
  ASSUME Inv, WaitsForReason,
         (\E w \in Works : Created(w)) \/ (\E d \in Runs : RunStep(d) \/ Wedge(d))
  PROVE  WaitsForReason'
<1> USE DEF Inv, TypeOK, WaitsForReason, Cancelled, viewVars, GoTo, Panic, loopVars, AfterStart
<1>1. ASSUME NEW w \in Works, Created(w) PROVE WaitsForReason'
  BY <1>1 DEF Created
<1>2. ASSUME NEW d \in Runs, RunStep(d) \/ Wedge(d) PROVE WaitsForReason'
  <2>1. CASE d = 0 /\ CreateView
    <3>1. CASE root
      <4>1. /\ view' = "open" /\ load' = "loading" /\ UNCHANGED <<mods, loop, req>>
            /\ \E q \in {"starting", "awaiting"} : pc' = [pc EXCEPT ![0] = q]
        BY <2>1, <3>1 DEF CreateView
      <4> QED
        BY <4>1
    <3>2. CASE ~root
      BY <2>1, <3>2 DEF CreateView
    <3> QED
      BY <3>1, <3>2
  <2>2. CASE d = 0 /\ (EndLoad \/ AwaitInitialized)
    BY <2>2 DEF EndLoad, AwaitInitialized, Begun
  <2>3. CASE GetSnapshot(d)
    BY <2>3 DEF GetSnapshot
  <2>4. CASE TakeSlot(d)
    BY <2>4 DEF TakeSlot
  <2>5. CASE Check(d) \/ EndPreview(d)
    <3>1. /\ \/ UNCHANGED pc
             \/ \E q \in {"previewing", "reporting", "ending"} : pc' = [pc EXCEPT ![d] = q]
          /\ UNCHANGED <<view, load, mods, loop, req>>
      BY <2>5 DEF Check, EndPreview, UpdateStatus
    <3> QED
      BY <3>1
  <2>6. CASE EndRun(d) \/ Wedge(d)
    BY <2>6 DEF EndRun, Wedge
  <2> QED
    BY <1>2, <2>1, <2>2, <2>3, <2>4, <2>5, <2>6 DEF RunStep
<1> QED
  BY <1>1, <1>2

\* A run that is not through can go on, or waits for one that can, or for the client.
LEMMA RunGoesOn ==
  ASSUME Inv, WaitsForReason, loop \in {"ready", "draining"}, NEW d \in Runs,
         pc[d] \notin {"none", "done"}
  PROVE  \/ \E e \in Runs : RunCan(e)
         \/ \E w \in Works : AnswerCan(w)
         \/ KnownWait
<1> USE DEF Inv, TypeOK, WaitsForReason
<1>1. CASE pc[d] \in {"spawned", "opening"}
  <2>1. d # 0 => view # "none"
    BY <1>1, MaxModsAssumption DEF Begun, Runs, Mods
  <2> QED
    BY <1>1, <2>1 DEF RunCan
<1>2. \A e \in Runs : pc[e] \in {"starting", "reporting"}
        => KnownWait \/ \E w \in Works : AnswerCan(w)
  <2> SUFFICES ASSUME NEW e \in Runs, pc[e] \in {"starting", "reporting"}
               PROVE  \E w \in Works : work[w] = "creating"
    BY DEF KnownWait, AnswerCan
  <2>1. work[e] = "creating" \/ work[Status] = "creating"
    BY DEF WorksFit, WorksMatchRuns
  <2> QED
    BY <2>1, RunsAreWorks
<1>3. CASE pc[d] = "awaiting"
  <2>1. d = 0 /\ load # "none"
    BY <1>3 DEF Begun
  <2> QED
    BY <1>3, <2>1 DEF RunCan, KnownWait, Loaded
<1>4. CASE pc[d] = "queued"
  <2>1. CASE SlotFree
    BY <1>4, <2>1 DEF RunCan
  <2>2. ASSUME NEW e \in Runs, pc[e] \in SlotStates
        PROVE  \/ RunCan(e)
               \/ \E w \in Works : AnswerCan(w)
               \/ KnownWait
    BY <1>2, <2>2 DEF RunCan, SlotStates, KnownWait
  <2> QED
    BY <2>1, <2>2 DEF SlotFree
<1>5. CASE pc[d] \in {"checking", "previewing", "ending", "ended"}
  BY <1>5 DEF RunCan
<1>6. CASE pc[d] = "wedged"
  BY <1>6 DEF KnownWait
<1> QED
  BY <1>1, <1>2, <1>3, <1>4, <1>5, <1>6 DEF RunStates, WorkingStates, SlotStates

LEMMA SomethingMoves ==
  ASSUME Inv, WaitsForReason
  PROVE  NothingElseWaits
<1> SUFFICES ASSUME ~LoopCan, ~MainCan, ~AtRest
             PROVE  \/ \E d \in Runs : RunCan(d)
                    \/ \E w \in Works : AnswerCan(w)
                    \/ KnownWait
  BY DEF NothingElseWaits
<1> USE DEF Inv, TypeOK, WaitsForReason
<1>1. CASE load = "loading"
  BY <1>1, RunsAreWorks DEF RunCan
<1>2. CASE load # "loading" /\ loop = "handling"
  <2>1. req \in {"initialize", "initialized", "shutdown", "exit", "codeAction", "other", "resolve"}
        \/ req \in Changes
    BY <1>2 DEF Calls, Notes
  <2>2. req \in Changes => view # "open" \/ Loaded
    BY <1>2 DEF Loaded
  <2> QED
    BY <1>2, <2>1, <2>2 DEF LoopCan, KnownWait
<1>3. CASE load # "loading" /\ loop = "draining"
  <2>1. PICK d \in Runs : d \in holders
    BY <1>3 DEF LoopCan, Drained
  <2>2. pc[d] \notin {"none", "done"}
    BY <2>1 DEF WorksFit, WorkingStates, SlotStates
  <2> QED
    BY <1>3, <2>2, RunGoesOn
<1>4. CASE loop = "ready"
  <2>1. PICK d \in Runs : pc[d] \notin {"none", "done"}
    BY <1>4 DEF AtRest
  <2> QED
    BY <1>4, <2>1, RunGoesOn
<1>5. CASE loop \in {"returning", "closing", "fixing", "gone", "creating"}
  BY <1>5 DEF LoopCan, MainCan, KnownWait
<1> QED
  BY <1>1, <1>2, <1>3, <1>4, <1>5 DEF LoopStates

\* For any number of notifications and whatever the client sends, a server that is not at
\* rest can move, or is in one of the five waits that the README names: the half of
\* HandlersReturn and WorksEnd that is not fairness.
THEOREM NoOtherDeadlock == Spec => []NothingElseWaits
<1>1. Inv /\ WaitsForReason /\ [Next]_vars => WaitsForReason'
  <2> SUFFICES ASSUME Inv, WaitsForReason, [Next]_vars PROVE WaitsForReason'
    OBVIOUS
  <2>1. CASE UNCHANGED vars
    BY <2>1 DEF vars, viewVars, loopVars, WaitsForReason, Cancelled
  <2> QED
    BY <2>1, LoopKeepsReason, RunKeepsReason DEF Next
<1>2. Inv /\ WaitsForReason => NothingElseWaits
  BY SomethingMoves
<1> QED
  BY <1>1, <1>2, ReasonInit, AlwaysInv, PTL DEF Spec
=============================================================================
