------------------------------ MODULE Diagnose ------------------------------
(***************************************************************************)
(* From the events of one preview to the diagnostics of the files:         *)
(* ResourceStore and the gRPC event handlers of pulumicommand/run.go, and  *)
(* server.diagnose with GetCapturesFromURI and the parser, while the files *)
(* change and document notifications replace the snapshot (Files).         *)
(*                                                                         *)
(* A program creates every resource at some line of some file.  The        *)
(* diagnostics of an event are known by the event's place in the log.      *)
(***************************************************************************)
EXTENDS Integers, Sequences, FiniteSets

CONSTANTS
  URIs, Contents, Missing, Unread, MaxSeq,  \* see Files
  Resources,   \* URNs
  NoPosition,  \* a nil SourcePosition
  NoFile,      \* a SourcePosition whose URI is not "file://..."
  Creates,     \* the lines of every content that create a resource
  Literal,     \* those of them whose "new" expression has a literal name
  MaxEvents,   \* bound: the events of the preview
  MaxOdd,      \* bound: those of them that are odd
  MaxChanges   \* bound: disturbances during the run, see changes

ASSUME CodeAssumption ==
  /\ DOMAIN Creates = Contents /\ DOMAIN Literal = Contents
  /\ \A c \in Contents : Literal[c] \subseteq Creates[c]
ASSUME HandlesAssumption == {Missing, Unread} \cap Contents = {} /\ Missing # Unread
ASSUME PositionsAssumption ==
  {NoPosition, NoFile} \cap (URIs \X UNION {Creates[c] : c \in Contents}) = {} /\ NoPosition # NoFile
ASSUME BoundsAssumption  == {MaxSeq, MaxEvents, MaxOdd, MaxChanges} \subseteq Nat

VARIABLES
  disk, changed, notice, current, files,  \* see Files
  changes,   \* how often a file has changed, the view was shut down or the run cancelled
  ran,       \* the files that the preview has executed
  where,     \* where the program creates every resource
  calm,      \* no file has changed since the preview began
  log,       \* the events handled so far
  store,     \* ResourceStore.Resources: a function on the URNs it knows
  result,    \* what run has returned: "none" yet, the "nil" map or the "map"
  phase,     \* see Phases
  began,     \* the current snapshot when diagnose began to look at the result
  late,      \* an event has been handled after that
  closed,    \* the view has been shut down
  cancelled, \* the context of the run has been cancelled
  left,      \* the resources that diagnose has not come to
  captures,  \* fileCaptures: the lines captured in every file parsed so far
  reports    \* the diagnostics of every file

F == INSTANCE Files

fileVars    == <<disk, changed, notice, current, files>>
runVars     == <<ran, where, calm>>
storeVars   == <<log, store, result>>
endVars     == <<closed, cancelled>>
reportVars  == <<began, late, left, captures, reports>>
vars        == <<fileVars, changes, runVars, storeVars, endVars, phase, reportVars>>

Lines     == UNION {Creates[c] : c \in Contents}
Positions == URIs \X Lines
Phases    == {"previewing", "closing", "diagnosing", "done", "crashed"}
Infos     == [pos : Positions \cup {NoPosition, NoFile}, diags : Seq(1..Len(log))]

\* What the log has of an event: its method, the resources that it is about, where
\* it says they are, and those whose diagnostics in it have a known enforcement level.
Entries == [method : {"RegisterResource", "Analyze", "AnalyzeStack"}, urns : SUBSET Resources,
            pos : Positions \cup {NoPosition, NoFile}, known : SUBSET Resources]

Register(u, p)     == [method |-> "RegisterResource", urns |-> {u}, pos |-> p, known |-> {u}]
Analyze(u, K)      == [method |-> "Analyze", urns |-> {u}, pos |-> NoPosition, known |-> K]
AnalyzeStack(U, K) == [method |-> "AnalyzeStack", urns |-> U, pos |-> NoPosition, known |-> K]

\* The events that say something about a resource: others, without diagnostics or
\* impossible to decode, are ignored.
Events ==
  (UNION {{Register(u, p) : p \in {where[u], NoPosition, NoFile}} : u \in Resources})
    \cup (UNION {{Analyze(u, K) : K \in SUBSET {u}} : u \in Resources})
    \cup (UNION {{AnalyzeStack(U, K) : K \in SUBSET U} : U \in (SUBSET Resources) \ {{}}})

TypeOK ==
  /\ F!TypeOK
  /\ changes \in 0..MaxChanges
  /\ ran \in [URIs -> F!Handles]
  /\ where \in [Resources -> Positions]
  /\ {calm, late, closed, cancelled} \subseteq BOOLEAN
  /\ log \in Seq(Entries) /\ Len(log) <= MaxEvents
  /\ DOMAIN store \subseteq Resources
  /\ \A u \in DOMAIN store : store[u] \in Infos
  /\ result \in {"none", "nil", "map"}
  /\ phase \in Phases
  /\ began \in F!Seqs
  /\ left \subseteq DOMAIN store
  /\ DOMAIN captures \subseteq URIs
  /\ reports \in [URIs -> SUBSET [line : Lines, urn : Resources, event : 1..Len(log)]]

\* The preview begins with the files as they are, and no change left to notify.
Init ==
  /\ F!Init
  /\ \E u \in URIs : disk[u] \in Contents /\ Creates[disk[u]] # {}
  /\ changes = 0
  /\ ran = disk
  /\ where \in [Resources -> {p \in Positions : disk[p[1]] \in Contents /\ p[2] \in Creates[disk[p[1]]]}]
  /\ calm = TRUE
  /\ log = <<>> /\ store = <<>> /\ result = "none"
  /\ closed = FALSE /\ cancelled = FALSE
  /\ phase = "previewing"
  /\ began = 0 /\ late = FALSE /\ left = {} /\ captures = <<>>
  /\ reports = [u \in URIs |-> {}]

-----------------------------------------------------------------------------
(***************************************************************************)
(* The files, during the run.                                              *)
(***************************************************************************)
DiskChange(u, h) ==
  /\ changes < MaxChanges
  /\ F!DiskChange(u, h)
  /\ changes' = changes + 1
  /\ calm' = FALSE
  /\ UNCHANGED <<ran, where, storeVars, endVars, phase, reportVars>>

\* There is nothing to clone once the view is shut down.
Notification ==
  /\ ~closed
  /\ F!Replace \/ \E u \in URIs : F!MustReadFile(u)
  /\ UNCHANGED <<changes, runVars, storeVars, endVars, phase, reportVars>>

\* Other readers of the current snapshot: updateDiagnostics of another run.
OtherRead ==
  /\ \E u \in URIs : F!ReadFile(current, u)
  /\ UNCHANGED <<changes, runVars, storeVars, endVars, phase, reportVars>>

-----------------------------------------------------------------------------
(***************************************************************************)
(* The end of the run, while it diagnoses. What comes earlier makes no     *)
(* difference to it before.                                                *)
(***************************************************************************)
\* Shutdown sets the view's snapshot to nil. The run holds its own snapshot.
Shutdown ==
  /\ phase = "diagnosing"
  /\ changes < MaxChanges
  /\ changes' = changes + 1
  /\ ~closed
  /\ closed' = TRUE
  /\ UNCHANGED <<fileVars, runVars, storeVars, cancelled, phase, reportVars>>

\* A later notification cancels the run, or a save its snapshot.
Cancel ==
  /\ phase = "diagnosing"
  /\ changes < MaxChanges
  /\ changes' = changes + 1
  /\ ~cancelled
  /\ cancelled' = TRUE
  /\ UNCHANGED <<fileVars, runVars, storeVars, closed, phase, reportVars>>

-----------------------------------------------------------------------------
(***************************************************************************)
(* The resource store.                                                     *)
(***************************************************************************)
Info_Padded(u) ==
  IF u \in DOMAIN store THEN store[u] ELSE [pos |-> NoPosition, diags |-> <<0>>]
\* getOrCreateResourceInfo
Info(u) == IF u \in DOMAIN store THEN store[u] ELSE [pos |-> NoPosition, diags |-> <<>>]

NewDiags_Appended(e, old, n) == Append(old, n)
\* SetDiagnostics replaces what was there, AddDiagnostic appends to it.
NewDiags(e, old, n) ==
  IF e.method = "Analyze" THEN <<n>>
  ELSE IF e.method = "AnalyzeStack" THEN Append(old, n)
  ELSE old

\* handleRegisterResource, handleAnalyze, handleAnalyzeStack
Handle(e) ==
  /\ log' = Append(log, e)
  /\ store' = [u \in DOMAIN store \cup e.urns |->
       IF u \in e.urns
         THEN [pos   |-> IF e.method = "RegisterResource" THEN e.pos ELSE Info(u).pos,
               diags |-> NewDiags(e, Info(u).diags, Len(log) + 1)]
         ELSE store[u]]

\* Without a position in a file, or with a level that is unknown.
Odd(e) ==
  e.known # e.urns \/ (e.method = "RegisterResource" /\ e.pos \in {NoPosition, NoFile})

\* There may be another event.
InBounds(e) ==
  /\ Len(log) < MaxEvents
  /\ Odd(e) => Cardinality({i \in DOMAIN log : Odd(log[i])}) < MaxOdd

\* processGrpcEvents, while the preview runs and while Close drains its log.
HandleEvent(e) ==
  /\ phase \in {"previewing", "closing"}
  /\ InBounds(e)
  /\ Handle(e)
  /\ UNCHANGED <<fileVars, changes, runVars, result, endVars, phase, reportVars>>

\* run: the map is taken as it is when the preview ends, and is nil before the
\* first event.
EndPreview ==
  /\ phase = "previewing"
  /\ result' = IF store = <<>> THEN "nil" ELSE "map"
  /\ phase' = "closing"
  /\ UNCHANGED <<fileVars, changes, runVars, log, store, endVars, reportVars>>

\* run returns and diagnose begins.
Close ==
  /\ phase = "closing"
  /\ phase' = "diagnosing"
  /\ began' = current
  /\ left' = IF result = "map" THEN DOMAIN store ELSE {}
  /\ UNCHANGED <<fileVars, changes, runVars, storeVars, endVars, late, captures, reports>>

\* The last event of the log may still be in the hands of processGrpcEvents, with
\* nothing to keep it from the map that diagnose iterates: a key that is added
\* then is seen, or not, or ends the process.
HandleLateEvent(e) ==
  /\ phase = "diagnosing"
  /\ ~late
  /\ InBounds(e)
  /\ Handle(e)
  /\ late' = TRUE
  /\ \/ left' = left /\ phase' = phase
     \/ /\ result = "map" /\ ~(e.urns \subseteq DOMAIN store)
        /\ \/ left' = left \cup (e.urns \ DOMAIN store) /\ phase' = phase
           \/ left' = left /\ phase' = "crashed"
  /\ UNCHANGED <<fileVars, changes, runVars, result, endVars, began, captures, reports>>

-----------------------------------------------------------------------------
(***************************************************************************)
(* diagnose.                                                               *)
(***************************************************************************)
\* GetCapturesFromFile: the query matches "new" expressions with a literal name;
\* without one it is an error, as for a file that cannot be read.
Captures(h) == IF h \in Contents THEN Literal[h] ELSE {}

\* What Snapshot.ReadFile of the current snapshot returns, and what it leaves.
Read(u) == IF files[current][u] = Unread THEN disk[u] ELSE files[current][u]

Remember(u) ==
  IF files[current][u] = Unread THEN F!ReadFile(current, u) ELSE UNCHANGED fileVars

Merge_Overwrites(old, new) == new
\* The diagnostics of several resources of one file are appended to each other.
Merge(old, new) == old \cup new

Found_ZeroBased(line, lines) == line + 1 \in lines
\* findCaptureWithStartLine, for lines that count from one.
Found(line, lines) == line \in lines

\* What diagnose reports of a resource.
Reports(u, p) ==
  {[line |-> p[2], urn |-> u, event |-> store[u].diags[i]] : i \in DOMAIN store[u].diags}

Crash == phase' = "crashed" /\ UNCHANGED <<captures, reports>>

\* Some diagnostic of the resource has a level that is none of the four.
Unknown(u) == \E i \in DOMAIN store[u].diags : u \notin log[store[u].diags[i]].known

\* GetCapturesFromURI for the first resource of a file: the view's current snapshot
\* is asked, whichever snapshot is diagnosed. The result is used for the others.
LookUp(p, lines) ==
  IF p[1] \in DOMAIN captures
    THEN lines = captures[p[1]] /\ UNCHANGED fileVars
    ELSE ~closed /\ lines = Captures(Read(p[1])) /\ Remember(p[1])

\* Of a view that has been shut down the release function is nil, which panics when
\* it is called; a URI that is no file's fails an assertion when the file is read.
LookUpPanics(p) == p # NoFile => closed /\ p[1] \notin DOMAIN captures

\* The read of a file that the snapshot has not read may end in the context's error:
\* the run goes on with the next resource.
LookUpFails(p) ==
  /\ cancelled /\ ~closed
  /\ p # NoFile => p[1] \notin DOMAIN captures /\ files[current][p[1]] = Unread

\* diagnose, for one resource of the map. The position is dereferenced for the log
\* before anything is asked about it; a file without captures is passed over; the
\* capture of the line is dereferenced, found or not; a level that is unknown fails.
Visit(u) ==
  /\ phase = "diagnosing"
  /\ u \in left
  /\ left' = left \ {u}
  /\ LET p == store[u].pos IN
       \/ p = NoPosition /\ Crash /\ UNCHANGED fileVars
       \/ /\ p # NoPosition /\ store[u].diags = <<>>
          /\ UNCHANGED <<fileVars, phase, captures, reports>>
       \/ /\ p # NoPosition /\ store[u].diags # <<>>
          /\ \/ LookUpPanics(p) /\ Crash /\ UNCHANGED fileVars
             \/ LookUpFails(p) /\ UNCHANGED <<fileVars, phase, captures, reports>>
             \/ /\ p # NoFile
                /\ \E lines \in {Captures(h) : h \in F!Handles} :
                     /\ LookUp(p, lines)
                     /\ IF lines = {} THEN UNCHANGED <<phase, captures, reports>>
                        ELSE IF ~Found(p[2], lines) \/ Unknown(u) THEN Crash
                        ELSE /\ captures' = [v \in DOMAIN captures \cup {p[1]} |->
                                               IF v = p[1] THEN lines ELSE captures[v]]
                             /\ reports' = [reports EXCEPT ![p[1]] = Merge(@, Reports(u, p))]
                             /\ UNCHANGED phase
  /\ UNCHANGED <<changes, runVars, storeVars, endVars, began, late>>

Finish ==
  /\ phase = "diagnosing"
  /\ left = {}
  /\ phase' = "done"
  /\ UNCHANGED <<fileVars, changes, runVars, storeVars, endVars, reportVars>>

-----------------------------------------------------------------------------
Next ==
  /\ phase \notin {"done", "crashed"}
  /\ \/ \E u \in URIs, h \in F!Handles : DiskChange(u, h)
     \/ Notification
     \/ OtherRead
     \/ Shutdown
     \/ Cancel
     \/ \E e \in Events : HandleEvent(e) \/ HandleLateEvent(e)
     \/ EndPreview
     \/ Close
     \/ \E u \in Resources : Visit(u)
     \/ Finish

Spec == Init /\ [][Next]_vars

-----------------------------------------------------------------------------
\* The store says of every resource what the log says: the position of its last
\* registration, and the diagnostics of its last Analyze with those that stack
\* policies added after it, in whatever order the events came (run.go:119-154).
EventsOf(u, methods) == {i \in DOMAIN log : log[i].method \in methods /\ u \in log[i].urns}
LastOf(u, method) ==
  LET I == EventsOf(u, {method}) IN IF I = {} THEN 0 ELSE CHOOSE i \in I : \A j \in I : j <= i
Valid(u) == {i \in EventsOf(u, {"Analyze", "AnalyzeStack"}) : i >= LastOf(u, "Analyze")}
\* The elements of a sequence of events are those of a set, in the order of the log.
Enumerates(diags, I) ==
  /\ {diags[i] : i \in DOMAIN diags} = I
  /\ \A i, j \in DOMAIN diags : i < j => diags[i] < diags[j]
StoreMatchesLog ==
  /\ DOMAIN store = UNION {log[i].urns : i \in DOMAIN log}
  /\ \A u \in DOMAIN store :
       /\ store[u].pos = LET i == LastOf(u, "RegisterResource")
                         IN  IF i = 0 THEN NoPosition ELSE log[i].pos
       /\ Enumerates(store[u].diags, Valid(u))

\* A run that is not cancelled, while no notification replaces the snapshot, reports
\* everything the store has on a file that can be parsed, and nothing on the others,
\* in whatever order the map is iterated and however the disk changes meanwhile: one
\* content of every file is looked at (server.go:45-60, diagnostics.go:200-268). A
\* result that was nil, or an event after it, is not reported.
Everything(f) ==
  UNION {Reports(u, store[u].pos) : u \in {v \in DOMAIN store : store[v].pos \in Positions /\ store[v].pos[1] = f}}
ReportsComplete ==
  phase = "done" /\ current = began /\ ~late /\ ~cancelled
    => \A f \in URIs :
         reports[f] = IF result = "map" /\ Captures(files[current][f]) # {} THEN Everything(f) ELSE {}

\* The causes of a panic of diagnose that a resource can be: it has no position
\* (diagnostics.go:205); or it has diagnostics, and the URI is no file's
\* (lsp/server.go:18), the view is shut down before the file has been parsed
\* (server.go:46-47), a level is unknown (diagnostics.go:290), or the line is not that
\* of a literal name in what the preview has executed or somebody has changed the
\* files since (diagnostics.go:226-228).
Panics(u) ==
  LET p == store[u].pos IN
  \/ p = NoPosition
  \/ /\ store[u].diags # <<>>
     /\ \/ p = NoFile
        \/ Unknown(u)
        \/ /\ p \in Positions
           /\ \/ closed /\ p[1] \notin DOMAIN captures
              \/ ~calm
              \/ p[2] \notin Literal[ran[p[1]]]

\* The late event has added a resource to a map, while diagnose iterated over it.
LateKey ==
  /\ late /\ result = "map"
  /\ \E u \in log[Len(log)].urns : \A i \in 1..(Len(log) - 1) : u \notin log[i].urns

\* A run ends in a panic for one of these causes only: captures that are reused for
\* the resources of a file, the order of the map, other readers, a cancellation and
\* events that come late or change what is known add none.
PanicExplained == phase = "crashed" => LateKey \/ \E u \in DOMAIN store : Panics(u)

\* What Diagnose assumes of the run that feeds the store is what Runner promises:
\* from the beginning of the preview on its steps are those of one call of Run, with
\* one event after its return at most (run.go:84, :87-102).
TheRun == {"run"}
R == INSTANCE Runner WITH
       Runs   <- TheRun,
       stage  <- [r \in TheRun |-> IF phase \in {"previewing", "closing"} THEN "running" ELSE "returned"],
       stored <- [r \in TheRun |-> Len(log)],
       owed   <- [r \in TheRun |-> IF phase \in {"previewing", "closing"} \/ late THEN 0 ELSE 1]
KeepsRunner == [][R!Next]_(R!vars)

\* The caches of the snapshots keep their specification under a run.
KeepsFiles         == F!Spec
StableUnderRun     == F!SnapshotStable
ConsistentUnderRun == F!EventuallyConsistent
=============================================================================
