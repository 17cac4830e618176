---------------------------- MODULE DiagnoseProof ----------------------------
(***************************************************************************)
(* For any files, contents, resources and logs: a run keeps the protocol   *)
(* of the snapshots' file caches (Files), what a snapshot has read is      *)
(* stable and eventually what is on disk, the variables keep their types,  *)
(* the store says what the log says, a run reports everything the store    *)
(* has, and panics only for the causes that PanicExplained names.          *)
(***************************************************************************)
EXTENDS Diagnose, SequenceTheorems, TLAPS

-----------------------------------------------------------------------------
(***************************************************************************)
(* Types.                                                                  *)
(***************************************************************************)
\* A notification is only read when there is a snapshot left to make.
NoticeFits == notice # {} => current < MaxSeq

Typed == TypeOK /\ NoticeFits

\* What an event consists of.
LEMMA EventTypes ==
  ASSUME NEW e \in Events, where \in [Resources -> Positions]
  PROVE  /\ e.method \in {"RegisterResource", "Analyze", "AnalyzeStack"}
         /\ e.urns \subseteq Resources
         /\ e.pos \in Positions \cup {NoPosition, NoFile}
         /\ e \in Entries
<1>1. ASSUME NEW u \in Resources, NEW p \in {where[u], NoPosition, NoFile}, e = Register(u, p)
      PROVE  e \in Entries
  BY <1>1 DEF Register, Entries
<1>2. ASSUME NEW u \in Resources, NEW K \in SUBSET {u}, e = Analyze(u, K)
      PROVE  e \in Entries
  BY <1>2 DEF Analyze, Entries
<1>3. ASSUME NEW U \in SUBSET Resources, NEW K \in SUBSET U, e = AnalyzeStack(U, K)
      PROVE  e \in Entries
  BY <1>3 DEF AnalyzeStack, Entries
<1>4. e \in Entries
  BY <1>1, <1>2, <1>3 DEF Events
<1> QED
  BY <1>4 DEF Entries

\* A log entry is appended to the diagnostics or replaces them, whatever the event.
LEMMA NewDiagsTypes ==
  ASSUME NEW n \in Nat, NEW old \in Seq(1..n), NEW e,
         e.method \in {"RegisterResource", "Analyze", "AnalyzeStack"}
  PROVE  NewDiags(e, old, n + 1) \in Seq(1..(n + 1))
<1>1. old \in Seq(1..(n + 1))
  BY SMT
<1>2. n + 1 \in 1..(n + 1)
  OBVIOUS
<1>3. Append(old, n + 1) \in Seq(1..(n + 1)) /\ <<n + 1>> \in Seq(1..(n + 1))
  BY <1>1, <1>2
<1> QED
  BY <1>1, <1>3 DEF NewDiags

\* The store and the log after an event.
LEMMA HandleTypes ==
  ASSUME TypeOK, NEW e \in Events, Handle(e), Len(log) < MaxEvents, UNCHANGED where
  PROVE  /\ log' \in Seq(Entries) /\ Len(log') <= MaxEvents /\ Len(log') = Len(log) + 1
         /\ DOMAIN store' = DOMAIN store \cup e.urns
         /\ DOMAIN store' \subseteq Resources
         /\ \A u \in DOMAIN store' : store'[u] \in Infos'
<1>1. /\ e.method \in {"RegisterResource", "Analyze", "AnalyzeStack"}
      /\ e.urns \subseteq Resources
      /\ e.pos \in Positions \cup {NoPosition, NoFile}
      /\ e \in Entries
  BY EventTypes DEF TypeOK
<1>3. log' = Append(log, e) /\ log \in Seq(Entries) /\ Len(log) \in Nat /\ Len(log') = Len(log) + 1
  <2>1. log' = Append(log, e) /\ log \in Seq(Entries)
    BY DEF Handle, TypeOK
  <2>2. Len(log) \in Nat /\ Len(log') = Len(log) + 1
    BY <2>1, LenProperties, AppendProperties
  <2> QED
    BY <2>1, <2>2
<1>4. DOMAIN store' = DOMAIN store \cup e.urns
  BY DEF Handle
<1>5. ASSUME NEW u \in DOMAIN store' PROVE store'[u] \in Infos'
  <2>1. store'[u] = IF u \in e.urns
          THEN [pos   |-> IF e.method = "RegisterResource" THEN e.pos ELSE Info(u).pos,
                diags |-> NewDiags(e, Info(u).diags, Len(log) + 1)]
          ELSE store[u]
    BY <1>4, <1>5 DEF Handle
  <2>2. Info(u) \in Infos
    BY DEF Info, Infos, TypeOK
  <2>3. NewDiags(e, Info(u).diags, Len(log) + 1) \in Seq(1..(Len(log) + 1))
    BY <1>1, <1>3, <2>2, NewDiagsTypes DEF Infos
  <2>4. CASE u \in e.urns
    BY <1>1, <1>3, <2>1, <2>2, <2>3, <2>4 DEF Infos
  <2>5. CASE u \notin e.urns
    <3>1. store[u] \in Infos /\ store'[u] = store[u]
      BY <1>4, <2>1, <2>5 DEF TypeOK
    <3>2. store[u].diags \in Seq(1..(Len(log) + 1))
      BY <1>3, <3>1 DEF Infos
    <3> QED
      BY <1>3, <3>1, <3>2 DEF Infos
  <2> QED
    BY <2>4, <2>5
<1> QED
  BY <1>1, <1>3, <1>4, <1>5, BoundsAssumption DEF TypeOK

-----------------------------------------------------------------------------
(***************************************************************************)
(* The file caches: every step of a run is a step of Files.                *)
(***************************************************************************)
\* The position of a resource, when it has one in a file.
LEMMA PositionTypes ==
  ASSUME TypeOK, NEW u \in DOMAIN store
  PROVE  /\ store[u].pos \in Positions \cup {NoPosition, NoFile}
         /\ store[u].pos \in Positions =>
              store[u].pos[1] \in URIs /\ store[u].pos[2] \in Lines
  BY DEF TypeOK, Infos, Positions

\* What visiting a resource does to the caches.
LEMMA VisitReads ==
  ASSUME TypeOK, NEW u \in Resources, Visit(u)
  PROVE  \/ UNCHANGED fileVars
         \/ /\ store[u].pos \in Positions
            /\ store[u].pos[1] \in URIs
            /\ files[current][store[u].pos[1]] = Unread
            /\ F!ReadFile(current, store[u].pos[1])
<1>1. u \in DOMAIN store
  BY DEF Visit, TypeOK
<1>2. CASE store[u].pos = NoPosition
  BY <1>2 DEF Visit
<1>3. CASE store[u].pos # NoPosition /\ store[u].diags = <<>>
  BY <1>3 DEF Visit
<1>4. CASE store[u].pos # NoPosition /\ store[u].diags # <<>>
  <2>1. \/ UNCHANGED fileVars
        \/ store[u].pos # NoFile /\ \E lines : LookUp(store[u].pos, lines)
    BY <1>4 DEF Visit
  <2>2. store[u].pos # NoFile => store[u].pos \in Positions /\ store[u].pos[1] \in URIs
    BY <1>1, <1>4, PositionTypes
  <2>3. ASSUME NEW lines, store[u].pos # NoFile, LookUp(store[u].pos, lines)
        PROVE  \/ UNCHANGED fileVars
               \/ /\ files[current][store[u].pos[1]] = Unread
                  /\ F!ReadFile(current, store[u].pos[1])
    BY <2>3 DEF LookUp, Remember
  <2> QED
    BY <2>1, <2>2, <2>3
<1> QED
  BY <1>2, <1>3, <1>4

LEMMA StepOnFiles ==
  ASSUME TypeOK, Next
  PROVE  F!Next \/ UNCHANGED fileVars
<1> USE DEF F!Next
<1>1. ASSUME NEW u \in URIs, NEW h \in F!Handles, DiskChange(u, h) PROVE F!Next
  BY <1>1 DEF DiskChange
<1>2. CASE Notification
  BY <1>2 DEF Notification
<1>3. CASE OtherRead
  BY <1>3 DEF OtherRead, TypeOK, F!TypeOK
<1>4. ASSUME NEW u \in Resources, Visit(u) PROVE F!Next \/ UNCHANGED fileVars
  <2>1. current \in F!Seqs
    BY DEF TypeOK, F!TypeOK
  <2> QED
    BY <1>4, <2>1, VisitReads
<1>5. CASE EndPreview \/ Close \/ Shutdown \/ Cancel \/ Finish
  BY <1>5 DEF EndPreview, Close, Shutdown, Cancel, Finish
<1>6. ASSUME NEW e \in Events, HandleEvent(e) \/ HandleLateEvent(e) PROVE UNCHANGED fileVars
  BY <1>6 DEF HandleEvent, HandleLateEvent
<1> QED
  BY <1>1, <1>2, <1>3, <1>4, <1>5, <1>6 DEF Next

\* The caches keep their types.
LEMMA FilesTypes ==
  ASSUME F!TypeOK, NoticeFits, F!Next \/ UNCHANGED fileVars
  PROVE  /\ F!TypeOK' /\ NoticeFits'
         /\ current' = current \/ current' = current + 1
<1> USE BoundsAssumption DEF F!TypeOK, NoticeFits, F!Seqs
<1>1. ASSUME NEW u \in URIs, NEW h \in F!Handles, F!DiskChange(u, h)
      PROVE  F!TypeOK' /\ NoticeFits' /\ current' = current
  BY <1>1 DEF F!DiskChange
<1>2. ASSUME NEW u \in URIs, F!MustReadFile(u)
      PROVE  F!TypeOK' /\ NoticeFits' /\ current' = current
  <2>1. [uri |-> u, handle |-> disk[u]] \in F!Notices
    BY DEF F!Notices
  <2> QED
    BY <1>2, <2>1 DEF F!MustReadFile
<1>3. CASE F!Replace
  <2>1. PICK n \in notice :
          files' = [files EXCEPT ![current] = F!OldFiles(@, n),
                                 ![current + 1] = F!CloneFiles(files[current], n)]
    BY <1>3 DEF F!Replace
  <2>2. /\ current' = current + 1 /\ notice' = {} /\ UNCHANGED <<disk, changed>>
        /\ current + 1 \in 0..MaxSeq
    BY <1>3, <2>1 DEF F!Replace
  <2>3. n.uri \in URIs /\ n.handle \in F!Handles
    BY DEF F!Notices
  <2>4. F!CloneFiles(files[current], n) \in [URIs -> F!Handles \cup {Unread}]
    BY <2>3 DEF F!CloneFiles
  <2> QED
    BY <2>1, <2>2, <2>4 DEF F!OldFiles
<1>4. ASSUME NEW s \in F!Seqs, NEW u \in URIs, F!ReadFile(s, u)
      PROVE  F!TypeOK' /\ NoticeFits' /\ current' = current
  BY <1>4 DEF F!ReadFile
<1>5. CASE UNCHANGED fileVars
  BY <1>5 DEF fileVars
<1> QED
  BY <1>1, <1>2, <1>3, <1>4, <1>5 DEF F!Next

-----------------------------------------------------------------------------
\* The state a preview starts in.
LEMMA TypedInit == Init => Typed
<1> SUFFICES ASSUME Init PROVE Typed
  OBVIOUS
<1>1. F!TypeOK /\ NoticeFits
  BY BoundsAssumption DEF Init, F!Init, F!TypeOK, F!Seqs, NoticeFits
<1>2. changes \in 0..MaxChanges /\ began \in F!Seqs
  BY BoundsAssumption DEF Init, F!Seqs
<1>3. ran \in [URIs -> F!Handles] /\ where \in [Resources -> Positions]
  BY <1>1 DEF Init, F!TypeOK
<1>4. log \in Seq(Entries) /\ Len(log) <= MaxEvents
  BY BoundsAssumption DEF Init
<1>5. DOMAIN store = {} /\ DOMAIN captures = {}
  BY DEF Init
<1>6. reports \in [URIs -> SUBSET [line : Lines, urn : Resources, event : 1..Len(log)]]
  BY DEF Init
<1>7. {calm, late, closed, cancelled} \subseteq BOOLEAN /\ result = "none" /\ phase = "previewing" /\ left = {}
  BY DEF Init
<1> QED
  BY <1>1, <1>2, <1>3, <1>4, <1>5, <1>6, <1>7 DEF Typed, TypeOK, Phases

\* The parts of the type invariant that the result of a preview and the reports on
\* it are about.
ReportTypes ==
  /\ {calm, late, closed, cancelled} \subseteq BOOLEAN
  /\ log \in Seq(Entries) /\ Len(log) <= MaxEvents
  /\ DOMAIN store \subseteq Resources
  /\ \A u \in DOMAIN store : store[u] \in Infos
  /\ result \in {"none", "nil", "map"}
  /\ phase \in Phases
  /\ began \in F!Seqs
  /\ left \subseteq DOMAIN store
  /\ DOMAIN captures \subseteq URIs
  /\ reports \in [URIs -> SUBSET [line : Lines, urn : Resources, event : 1..Len(log)]]

\* What a resource is reported with.
LEMMA ReportsTypes ==
  ASSUME TypeOK, NEW u \in DOMAIN store, store[u].pos \in Positions
  PROVE  Reports(u, store[u].pos) \subseteq [line : Lines, urn : Resources, event : 1..Len(log)]
<1>1. store[u].diags \in Seq(1..Len(log)) /\ u \in Resources
  BY DEF TypeOK, Infos
<1>2. ASSUME NEW i \in DOMAIN store[u].diags PROVE store[u].diags[i] \in 1..Len(log)
  BY <1>1, <1>2, LenProperties, ElementOfSeq
<1>3. store[u].pos[2] \in Lines
  BY PositionTypes
<1> QED
  BY <1>1, <1>2, <1>3 DEF Reports

\* Events that are handled.
LEMMA HandledTypes ==
  ASSUME TypeOK, NEW e \in Events, HandleEvent(e) \/ HandleLateEvent(e)
  PROVE  ReportTypes'
<1>1. Handle(e) /\ Len(log) < MaxEvents /\ UNCHANGED where
  BY DEF HandleEvent, HandleLateEvent, InBounds, runVars
<1>2. /\ log' \in Seq(Entries) /\ Len(log') <= MaxEvents /\ Len(log') = Len(log) + 1
      /\ DOMAIN store' = DOMAIN store \cup e.urns
      /\ DOMAIN store' \subseteq Resources
      /\ \A u \in DOMAIN store' : store'[u] \in Infos'
  BY <1>1, HandleTypes
<1>3. /\ UNCHANGED <<calm, closed, cancelled, result, began, captures, reports>>
      /\ late' \in {late, TRUE}
      /\ phase' \in {phase, "crashed"}
      /\ left' \in {left, left \cup (e.urns \ DOMAIN store)}
  BY DEF HandleEvent, HandleLateEvent, runVars, endVars, reportVars
<1>4. reports' \in [URIs -> SUBSET [line : Lines, urn : Resources, event : 1..Len(log')]]
  <2>1. Len(log) \in Nat
    BY LenProperties DEF TypeOK
  <2>2. 1..Len(log) \subseteq 1..Len(log')
    BY <1>2, <2>1
  <2> QED
    BY <1>3, <2>2 DEF TypeOK
<1>5. {calm', late', closed', cancelled'} \subseteq BOOLEAN /\ phase' \in Phases /\ left' \subseteq DOMAIN store'
  BY <1>2, <1>3 DEF TypeOK, Phases
<1> QED
  BY <1>2, <1>3, <1>4, <1>5 DEF ReportTypes, TypeOK

\* A resource that is visited.
LEMMA VisitTypes ==
  ASSUME TypeOK, NEW u \in Resources, Visit(u)
  PROVE  ReportTypes'
<1>1. /\ u \in DOMAIN store
      /\ left' = left \ {u}
      /\ UNCHANGED <<calm, late, closed, cancelled, log, store, result, began, where>>
  BY DEF Visit, TypeOK, runVars, storeVars, endVars
<1>2. Infos' = Infos
  BY <1>1 DEF Infos
<1>3. \/ UNCHANGED <<captures, reports>> /\ phase' \in {phase, "crashed"}
      \/ /\ UNCHANGED phase
         /\ store[u].pos \in Positions
         /\ DOMAIN captures' = DOMAIN captures \cup {store[u].pos[1]}
         /\ reports' = [reports EXCEPT ![store[u].pos[1]] = @ \cup Reports(u, store[u].pos)]
  BY <1>1, PositionTypes DEF Visit, Crash, Merge
<1>4. CASE UNCHANGED <<captures, reports>> /\ phase' \in {phase, "crashed"}
  BY <1>1, <1>2, <1>4 DEF TypeOK, ReportTypes, Phases
<1>5. CASE /\ UNCHANGED phase
           /\ store[u].pos \in Positions
           /\ DOMAIN captures' = DOMAIN captures \cup {store[u].pos[1]}
           /\ reports' = [reports EXCEPT ![store[u].pos[1]] = @ \cup Reports(u, store[u].pos)]
  <2>1. store[u].pos[1] \in URIs
    BY <1>1, <1>5, PositionTypes
  <2>2. Reports(u, store[u].pos) \subseteq [line : Lines, urn : Resources, event : 1..Len(log)]
    BY <1>1, <1>5, ReportsTypes
  <2>3. reports' \in [URIs -> SUBSET [line : Lines, urn : Resources, event : 1..Len(log)]]
    BY <1>5, <2>2 DEF TypeOK
  <2> QED
    BY <1>1, <1>2, <1>5, <2>1, <2>3 DEF TypeOK, ReportTypes
<1> QED
  BY <1>3, <1>4, <1>5

LEMMA TypedStep ==
  ASSUME Typed, Next
  PROVE  Typed'
<1> USE DEF Typed
<1>1. F!TypeOK' /\ NoticeFits'
  BY StepOnFiles, FilesTypes DEF TypeOK
<1>2. changes' \in 0..MaxChanges
  <2>1. UNCHANGED changes \/ (changes < MaxChanges /\ changes' = changes + 1)
    BY DEF Next, DiskChange, Notification, OtherRead, Shutdown, Cancel, HandleEvent,
       HandleLateEvent, EndPreview, Close, Visit, Finish
  <2> QED
    BY <2>1, BoundsAssumption DEF TypeOK
<1>3. UNCHANGED <<ran, where>>
  BY DEF Next, DiskChange, Notification, OtherRead, Shutdown, Cancel, HandleEvent,
     HandleLateEvent, EndPreview, Close, Visit, Finish, runVars
<1>4. ReportTypes'
  <2>1. ASSUME NEW e \in Events, HandleEvent(e) \/ HandleLateEvent(e) PROVE ReportTypes'
    BY <2>1, HandledTypes
  <2>2. ASSUME NEW u \in Resources, Visit(u) PROVE ReportTypes'
    BY <2>2, VisitTypes
  <2>3. ASSUME /\ UNCHANGED <<late, log, store, captures, reports>>
               /\ calm' \in {calm, FALSE}
               /\ closed' \in {closed, TRUE} /\ cancelled' \in {cancelled, TRUE}
               /\ result' \in {"none", "nil", "map"}
               /\ phase' \in Phases
               /\ began' \in {began, current}
               /\ left' \in {left, DOMAIN store, {}}
        PROVE  ReportTypes'
    <3>1. Infos' = Infos
      BY <2>3 DEF Infos
    <3> QED
      BY <2>3, <3>1 DEF ReportTypes, TypeOK, F!TypeOK
  <2>4. CASE \/ \E u \in URIs, h \in F!Handles : DiskChange(u, h)
             \/ Notification \/ OtherRead \/ Shutdown \/ Cancel \/ EndPreview \/ Close \/ Finish
    BY <2>3, <2>4 DEF DiskChange, Notification, OtherRead, Shutdown, Cancel, EndPreview, Close,
       Finish, runVars, storeVars, endVars, reportVars, TypeOK, Phases
  <2> QED
    BY <2>1, <2>2, <2>4 DEF Next
<1> QED
  BY <1>1, <1>2, <1>3, <1>4 DEF TypeOK, ReportTypes

LEMMA AlwaysTyped == Spec => []Typed
<1>1. Typed /\ [Next]_vars => Typed'
  <2>1. CASE Next
    BY <2>1, TypedStep
  <2>2. CASE UNCHANGED vars
    BY <2>2 DEF vars, fileVars, runVars, storeVars, endVars, reportVars, Typed, TypeOK,
       NoticeFits, F!TypeOK, Infos
  <2> QED
    BY <2>1, <2>2
<1> QED
  BY <1>1, TypedInit, PTL DEF Spec

\* The variables keep their types: no event is recorded for a resource or at a
\* position that there is not, and nothing is reported of an event to come.
THEOREM DiagnoseTypes == Spec => []TypeOK
<1>1. Typed => TypeOK
  BY DEF Typed
<1> QED
  BY <1>1, AlwaysTyped, PTL

\* The runs keep the specification of the file caches.
THEOREM RunKeepsFiles == Spec => KeepsFiles
<1>1. Init => F!Init
  BY DEF Init
<1>2. Typed /\ [Next]_vars => [F!Next]_(F!fileVars)
  <2>1. Typed /\ Next => [F!Next]_(F!fileVars)
    BY StepOnFiles DEF Typed, fileVars, F!fileVars
  <2>2. UNCHANGED vars => UNCHANGED F!fileVars
    BY DEF vars, fileVars, F!fileVars
  <2> QED
    BY <2>1, <2>2
<1> QED
  BY <1>1, <1>2, AlwaysTyped, PTL DEF Spec, KeepsFiles, F!Spec

-----------------------------------------------------------------------------
(***************************************************************************)
(* What the caches promise.                                                *)
(***************************************************************************)
\* A file whose last change has been notified: the notification in hand has read
\* what is on disk, or has been handled.
FilesAgree ==
  \A u \in URIs \ changed :
    \/ \E n \in notice : n.uri = u /\ n.handle = disk[u]
    \/ (\A n \in notice : n.uri # u) /\ files[current][u] \in {Unread, disk[u]}

LEMMA FilesAgreeStep ==
  ASSUME F!TypeOK, NoticeFits, FilesAgree, F!Next \/ UNCHANGED fileVars
  PROVE  FilesAgree'
<1> USE BoundsAssumption DEF F!TypeOK, F!Seqs, FilesAgree
<1>1. ASSUME NEW u \in URIs, NEW h \in F!Handles, F!DiskChange(u, h) PROVE FilesAgree'
  BY <1>1 DEF F!DiskChange
<1>2. ASSUME NEW u \in URIs, F!MustReadFile(u) PROVE FilesAgree'
  BY <1>2 DEF F!MustReadFile
<1>3. CASE F!Replace
  <2>1. PICK n \in notice :
          files' = [files EXCEPT ![current] = F!OldFiles(@, n),
                                 ![current + 1] = F!CloneFiles(files[current], n)]
    BY <1>3 DEF F!Replace
  <2>2. /\ current' = current + 1 /\ notice' = {} /\ UNCHANGED <<disk, changed>>
        /\ current + 1 \in 0..MaxSeq
    BY <1>3, <2>1 DEF F!Replace, NoticeFits
  <2>3. \A m \in notice : m = n
    BY <2>1
  <2>4. files'[current'] = F!CloneFiles(files[current], n)
    BY <2>1, <2>2
  <2>5. ASSUME NEW u \in URIs \ changed PROVE files'[current'][u] \in {Unread, disk[u]}
    <3>1. CASE n.uri = u
      BY <2>1, <2>3, <2>4, <2>5, <3>1 DEF F!CloneFiles
    <3>2. CASE n.uri # u
      BY <2>1, <2>3, <2>4, <2>5, <3>2 DEF F!CloneFiles
    <3> QED
      BY <3>1, <3>2
  <2> QED
    BY <2>2, <2>5
<1>4. ASSUME NEW s \in F!Seqs, NEW u \in URIs, F!ReadFile(s, u) PROVE FilesAgree'
  BY <1>4 DEF F!ReadFile
<1>5. CASE UNCHANGED fileVars
  BY <1>5 DEF fileVars
<1> QED
  BY <1>1, <1>2, <1>3, <1>4, <1>5 DEF F!Next

\* What a snapshot has read of a file stays, in every step of the caches.
LEMMA ReadStays ==
  ASSUME F!TypeOK, NoticeFits, F!Next \/ UNCHANGED fileVars,
         NEW s \in F!Seqs, NEW u \in URIs, s <= current, files[s][u] # Unread
  PROVE  files'[s][u] = files[s][u]
<1> USE BoundsAssumption DEF F!TypeOK, F!Seqs
<1>1. CASE F!Replace
  BY <1>1 DEF F!Replace, F!OldFiles
<1>2. CASE \E t \in F!Seqs, v \in URIs : F!ReadFile(t, v)
  BY <1>2 DEF F!ReadFile
<1>3. CASE UNCHANGED files
  BY <1>3
<1> QED
  BY <1>1, <1>2, <1>3 DEF F!Next, F!DiskChange, F!MustReadFile, fileVars

\* However a run, other runs and notifications interleave, a run sees one content
\* of every file in one snapshot (snapshot.go:217-228, :183-198).
THEOREM SnapshotsStable == Spec => StableUnderRun
<1>1. Typed /\ [Next]_vars
        => [\A s \in F!Seqs, u \in URIs :
              s <= current /\ files[s][u] # Unread => files'[s][u] = files[s][u]]_(F!fileVars)
  <2> SUFFICES ASSUME Typed, [Next]_vars, NEW s \in F!Seqs, NEW u \in URIs,
                      s <= current, files[s][u] # Unread
               PROVE  files'[s][u] = files[s][u]
    OBVIOUS
  <2>1. F!Next \/ UNCHANGED fileVars
    BY StepOnFiles DEF Typed, vars
  <2> QED
    BY <2>1, ReadStays DEF Typed, TypeOK
<1> QED
  BY <1>1, AlwaysTyped, PTL DEF Spec, StableUnderRun, F!SnapshotStable

\* Once the changes of a file are notified and handled, the snapshot has what is on
\* disk or nothing (fs_overlay.go:67-70).
THEOREM CachesCatchUp == Spec => []ConsistentUnderRun
<1>1. Init => FilesAgree
  BY BoundsAssumption DEF Init, F!Init, F!Seqs, FilesAgree
<1>2. Typed /\ FilesAgree /\ [Next]_vars => FilesAgree'
  <2> SUFFICES ASSUME Typed, FilesAgree, [Next]_vars PROVE FilesAgree'
    OBVIOUS
  <2>1. F!Next \/ UNCHANGED fileVars
    BY StepOnFiles DEF Typed, vars
  <2> QED
    BY <2>1, FilesAgreeStep DEF Typed, TypeOK
<1>3. FilesAgree => ConsistentUnderRun
  BY DEF FilesAgree, ConsistentUnderRun, F!EventuallyConsistent
<1> QED
  BY <1>1, <1>2, <1>3, AlwaysTyped, PTL DEF Spec

-----------------------------------------------------------------------------
(***************************************************************************)
(* What diagnose looks at.                                                 *)
(***************************************************************************)
\* As long as no file has changed, everything that has been read or parsed is what
\* the preview has executed.
Undisturbed ==
  calm =>
    /\ disk = ran
    /\ \A n \in notice : n.handle = disk[n.uri]
    /\ \A u \in URIs : files[current][u] \in {Unread, disk[u]}
    /\ \A f \in DOMAIN captures : captures[f] = Captures(disk[f])

\* The lines that a visit looks at, when it looks at any.
LEMMA LinesRead ==
  ASSUME Typed, NEW p \in Positions, NEW lines, LookUp(p, lines)
  PROVE  /\ p[1] \in DOMAIN captures => lines = captures[p[1]] /\ UNCHANGED fileVars
         /\ p[1] \notin DOMAIN captures =>
              /\ lines = Captures(files'[current][p[1]])
              /\ files' = [files EXCEPT ![current][p[1]] = Read(p[1])]
              /\ UNCHANGED <<disk, changed, notice, current>>
<1>1. p[1] \in URIs
  BY DEF Positions
<1>2. CASE p[1] \in DOMAIN captures
  BY <1>2 DEF LookUp
<1>3. CASE p[1] \notin DOMAIN captures
  <2>1. lines = Captures(Read(p[1])) /\ Remember(p[1])
    BY <1>3 DEF LookUp
  <2>2. /\ files' = [files EXCEPT ![current][p[1]] = Read(p[1])]
        /\ UNCHANGED <<disk, changed, notice, current>>
    BY <1>1, <2>1 DEF Remember, Read, F!ReadFile, fileVars, Typed, TypeOK, F!TypeOK
  <2>3. files'[current][p[1]] = Read(p[1])
    BY <1>1, <2>2 DEF Typed, TypeOK, F!TypeOK
  <2> QED
    BY <1>3, <2>1, <2>2, <2>3
<1> QED
  BY <1>2, <1>3

\* While all is calm these are the lines of the file that the preview has executed.
LEMMA CalmLines ==
  ASSUME Typed, Undisturbed, calm, NEW p \in Positions, NEW lines, LookUp(p, lines)
  PROVE  lines = Captures(ran[p[1]])
<1>1. p[1] \in URIs
  BY DEF Positions
<1>2. CASE p[1] \in DOMAIN captures
  BY <1>1, <1>2 DEF LookUp, Undisturbed
<1>3. CASE p[1] \notin DOMAIN captures
  BY <1>1, <1>3 DEF LookUp, Read, Undisturbed
<1> QED
  BY <1>2, <1>3

\* A visit, by what it finds.
LEMMA VisitCases ==
  ASSUME Typed, NEW u \in Resources, Visit(u)
  PROVE  LET p == store[u].pos IN
         \/ /\ p = NoPosition /\ phase' = "crashed"
            /\ UNCHANGED <<fileVars, captures, reports>>
         \/ /\ p # NoPosition /\ store[u].diags = <<>>
            /\ UNCHANGED <<fileVars, phase, captures, reports>>
         \/ /\ p # NoPosition /\ store[u].diags # <<>> /\ phase' = "crashed"
            /\ p = NoFile \/ (p \in Positions /\ closed /\ p[1] \notin DOMAIN captures)
            /\ UNCHANGED <<fileVars, captures, reports>>
         \/ /\ p # NoPosition /\ cancelled
            /\ UNCHANGED <<fileVars, phase, captures, reports>>
         \/ /\ p # NoPosition /\ p \in Positions
            /\ \E lines : LookUp(p, lines) /\ lines = {} /\ UNCHANGED <<phase, captures, reports>>
         \/ /\ p # NoPosition /\ p \in Positions /\ store[u].diags # <<>> /\ phase' = "crashed"
            /\ \E lines : LookUp(p, lines) /\ lines # {} /\ (p[2] \notin lines \/ Unknown(u))
            /\ UNCHANGED <<captures, reports>>
         \/ /\ p # NoPosition /\ p \in Positions /\ UNCHANGED phase
            /\ \E lines :
                 /\ LookUp(p, lines) /\ lines # {}
                 /\ captures' = [v \in DOMAIN captures \cup {p[1]} |->
                                   IF v = p[1] THEN lines ELSE captures[v]]
            /\ reports' = [reports EXCEPT ![p[1]] = @ \cup Reports(u, p)]
<1> DEFINE p == store[u].pos
<1>1. u \in DOMAIN store
  BY DEF Visit, Typed, TypeOK
<1>2. p # NoPosition /\ p # NoFile => p \in Positions
  BY <1>1, PositionTypes DEF Typed
<1>3. CASE p = NoPosition
  BY <1>3 DEF Visit, Crash
<1>4. CASE p # NoPosition /\ store[u].diags = <<>>
  BY <1>4 DEF Visit
<1>5. CASE p # NoPosition /\ store[u].diags # <<>> /\ LookUpPanics(p) /\ Crash /\ UNCHANGED fileVars
  <2>1. p = NoFile \/ (p \in Positions /\ closed /\ p[1] \notin DOMAIN captures)
    BY <1>2, <1>5 DEF LookUpPanics
  <2> QED
    BY <1>5, <2>1 DEF Crash
<1>6. CASE p # NoPosition /\ LookUpFails(p) /\ UNCHANGED <<fileVars, phase, captures, reports>>
  BY <1>6 DEF LookUpFails
<1>7. CASE /\ p # NoPosition /\ store[u].diags # <<>> /\ p # NoFile
           /\ \E lines \in {Captures(h) : h \in F!Handles} :
                /\ LookUp(p, lines)
                /\ IF lines = {} THEN UNCHANGED <<phase, captures, reports>>
                   ELSE IF ~Found(p[2], lines) \/ Unknown(u) THEN Crash
                   ELSE /\ captures' = [v \in DOMAIN captures \cup {p[1]} |->
                                          IF v = p[1] THEN lines ELSE captures[v]]
                        /\ reports' = [reports EXCEPT ![p[1]] = Merge(@, Reports(u, p))]
                        /\ UNCHANGED phase
  <2>1. PICK lines \in {Captures(h) : h \in F!Handles} :
          /\ LookUp(p, lines)
          /\ IF lines = {} THEN UNCHANGED <<phase, captures, reports>>
             ELSE IF ~Found(p[2], lines) \/ Unknown(u) THEN Crash
             ELSE /\ captures' = [v \in DOMAIN captures \cup {p[1]} |->
                                    IF v = p[1] THEN lines ELSE captures[v]]
                  /\ reports' = [reports EXCEPT ![p[1]] = Merge(@, Reports(u, p))]
                  /\ UNCHANGED phase
    BY <1>7
  <2>2. CASE lines = {}
    BY <1>2, <1>7, <2>1, <2>2
  <2>3. CASE lines # {} /\ (~Found(p[2], lines) \/ Unknown(u))
    BY <1>2, <1>7, <2>1, <2>3 DEF Crash, Found
  <2>4. CASE lines # {} /\ Found(p[2], lines) /\ ~Unknown(u)
    BY <1>2, <1>7, <2>1, <2>4 DEF Merge
  <2> QED
    BY <2>2, <2>3, <2>4
<1> QED
  BY <1>3, <1>4, <1>5, <1>6, <1>7 DEF Visit

LEMMA UndisturbedStep ==
  ASSUME Typed, Undisturbed, Next
  PROVE  Undisturbed'
<1> SUFFICES ASSUME calm' PROVE Undisturbed'
  BY DEF Undisturbed
<1>1. CASE \E u \in URIs, h \in F!Handles : DiskChange(u, h)
  BY <1>1 DEF DiskChange
<1>2. CASE Notification \/ OtherRead
  <2>1. calm /\ UNCHANGED <<ran, captures>>
    BY <1>2 DEF Notification, OtherRead, runVars, reportVars
  <2>2. disk' = disk
    BY <1>2 DEF Notification, OtherRead, F!Replace, F!MustReadFile, F!ReadFile
  <2>3. (\A n \in notice : n.handle = disk[n.uri])'
    BY <1>2, <2>1, <2>2 DEF Notification, OtherRead, F!Replace, F!MustReadFile, F!ReadFile,
       Undisturbed
  <2>4. \A u \in URIs : files'[current'][u] \in {Unread, disk[u]}
    <3>1. CASE F!Replace
      <4>1. PICK n \in notice :
              files' = [files EXCEPT ![current] = F!OldFiles(@, n),
                                     ![current + 1] = F!CloneFiles(files[current], n)]
        BY <3>1 DEF F!Replace
      <4>2. current' = current + 1 /\ current + 1 \in F!Seqs /\ n.uri \in URIs
        BY <3>1, <4>1, BoundsAssumption
           DEF F!Replace, Typed, TypeOK, NoticeFits, F!TypeOK, F!Seqs, F!Notices
      <4>3. files'[current'] = F!CloneFiles(files[current], n)
        BY <4>1, <4>2 DEF Typed, TypeOK, F!TypeOK
      <4> QED
        BY <2>1, <4>2, <4>3 DEF F!CloneFiles, Undisturbed, Typed, TypeOK, F!TypeOK
    <3>2. CASE \E u \in URIs : F!MustReadFile(u)
      BY <2>1, <3>2 DEF F!MustReadFile, Undisturbed
    <3>3. CASE \E u \in URIs : F!ReadFile(current, u)
      BY <2>1, <3>3 DEF F!ReadFile, Undisturbed, Typed, TypeOK, F!TypeOK
    <3> QED
      BY <1>2, <3>1, <3>2, <3>3 DEF Notification, OtherRead
  <2> QED
    BY <2>1, <2>2, <2>3, <2>4 DEF Undisturbed, Captures
<1>3. CASE \E e \in Events : HandleEvent(e) \/ HandleLateEvent(e)
  BY <1>3 DEF HandleEvent, HandleLateEvent, fileVars, runVars, reportVars, Undisturbed, Captures
<1>4. CASE EndPreview \/ Close \/ Shutdown \/ Cancel \/ Finish
  BY <1>4 DEF EndPreview, Close, Shutdown, Cancel, Finish, fileVars, runVars, reportVars,
     Undisturbed, Captures
<1>5. ASSUME NEW u \in Resources, Visit(u) PROVE Undisturbed'
  <2>1. calm /\ UNCHANGED ran
    BY <1>5 DEF Visit, runVars
  <2>2. CASE UNCHANGED <<fileVars, captures>>
    BY <2>1, <2>2 DEF fileVars, Undisturbed, Captures
  <2>3. ASSUME NEW lines, store[u].pos \in Positions, LookUp(store[u].pos, lines)
        PROVE  /\ UNCHANGED <<disk, notice, current>>
               /\ \A v \in URIs : files'[current][v] \in {Unread, disk[v]}
               /\ lines = Captures(disk[store[u].pos[1]])
    <3>1. store[u].pos[1] \in URIs
      BY <2>3 DEF Positions
    <3>2. Read(store[u].pos[1]) = disk[store[u].pos[1]]
      BY <2>1, <3>1 DEF Read, Undisturbed
    <3>3. lines = Captures(disk[store[u].pos[1]])
      BY <2>1, <2>3, CalmLines DEF Undisturbed
    <3> QED
      BY <2>1, <2>3, <3>1, <3>2, <3>3, LinesRead
         DEF fileVars, Undisturbed, Typed, TypeOK, F!TypeOK
  <2>4. CASE \E lines : /\ store[u].pos \in Positions /\ LookUp(store[u].pos, lines)
                        /\ UNCHANGED captures
    BY <2>1, <2>3, <2>4 DEF Undisturbed, Captures
  <2>5. CASE \E lines :
               /\ store[u].pos \in Positions /\ LookUp(store[u].pos, lines)
               /\ captures' = [v \in DOMAIN captures \cup {store[u].pos[1]} |->
                                 IF v = store[u].pos[1] THEN lines ELSE captures[v]]
    <3> DEFINE p == store[u].pos
    <3>1. PICK lines :
            /\ p \in Positions /\ LookUp(p, lines)
            /\ captures' = [v \in DOMAIN captures \cup {p[1]} |->
                              IF v = p[1] THEN lines ELSE captures[v]]
      BY <2>5
    <3>2. /\ UNCHANGED <<disk, notice, current>>
          /\ \A v \in URIs : files'[current][v] \in {Unread, disk[v]}
          /\ lines = Captures(disk[p[1]])
      BY <2>3, <3>1
    <3>3. \A f \in DOMAIN captures : captures[f] = Captures(disk[f])
      BY <2>1 DEF Undisturbed
    <3>4. \A f \in DOMAIN captures' : captures'[f] = Captures(disk[f])
      BY <3>1, <3>2, <3>3
    <3> QED
      BY <2>1, <3>2, <3>4 DEF Undisturbed, Captures
  <2> QED
    BY <1>5, <2>2, <2>4, <2>5, VisitCases
<1> QED
  BY <1>1, <1>2, <1>3, <1>4, <1>5 DEF Next

-----------------------------------------------------------------------------
(***************************************************************************)
(* Complete reports.                                                       *)
(***************************************************************************)
\* Before diagnose begins there are no reports; a nil result has nothing to visit.
Before ==
  /\ began <= current
  /\ phase \in {"previewing", "closing"} =>
       DOMAIN captures = {} /\ reports = [f \in URIs |-> {}] /\ ~late
  /\ phase \in {"diagnosing", "done"} /\ result # "map" => left = {}
  /\ phase = "done" => left = {}

\* The resources of a file that diagnose has come to, and all that is known of them.
Visited(f) ==
  {v \in DOMAIN store \ left : store[v].pos \in Positions /\ store[v].pos[1] = f}
OfVisited(f) == UNION {Reports(v, store[v].pos) : v \in Visited(f)}

\* The reports so far are complete for the resources visited so far. A file that has
\* not been read has had nothing to report.
SoFar(f) ==
  /\ result # "map" => reports[f] = {}
  /\ result = "map" =>
       /\ files[current][f] = Unread =>
            f \notin DOMAIN captures /\ \A v \in Visited(f) : store[v].diags = <<>>
       /\ f \in DOMAIN captures => captures[f] = Captures(files[current][f])
       /\ reports[f] = IF Captures(files[current][f]) # {} THEN OfVisited(f) ELSE {}

AllSoFar ==
  phase \in {"diagnosing", "done"} /\ current = began /\ ~late /\ ~cancelled =>
    \A f \in URIs : SoFar(f)

LEMMA NoDiagsNoReports ==
  ASSUME NEW v, NEW p, store[v].diags = <<>>
  PROVE  Reports(v, p) = {}
  BY DEF Reports

\* What is known of the visited resources of a file that has nothing to report.
LEMMA NothingVisited ==
  ASSUME NEW f, \A v \in Visited(f) : store[v].diags = <<>>
  PROVE  OfVisited(f) = {}
<1>1. \A v \in Visited(f) : Reports(v, store[v].pos) = {}
  BY NoDiagsNoReports
<1> QED
  BY <1>1 DEF OfVisited

LEMMA UnreadHasNoCaptures == Captures(Unread) = {} /\ Unread \notin F!Handles
  BY HandlesAssumption DEF Captures, F!Handles

\* One more resource is visited.
LEMMA OneMore ==
  ASSUME NEW u \in left, left \subseteq DOMAIN store, left' = left \ {u}, UNCHANGED store, NEW f
  PROVE  /\ store[u].pos \in Positions /\ store[u].pos[1] = f =>
              /\ Visited(f)' = Visited(f) \cup {u}
              /\ OfVisited(f)' = OfVisited(f) \cup Reports(u, store[u].pos)
         /\ ~(store[u].pos \in Positions /\ store[u].pos[1] = f) =>
              Visited(f)' = Visited(f) /\ OfVisited(f)' = OfVisited(f)
<1>1. CASE store[u].pos \in Positions /\ store[u].pos[1] = f
  <2>1. Visited(f)' = Visited(f) \cup {u}
    BY <1>1 DEF Visited
  <2> QED
    BY <1>1, <2>1 DEF OfVisited, Reports
<1>2. CASE ~(store[u].pos \in Positions /\ store[u].pos[1] = f)
  <2>1. Visited(f)' = Visited(f)
    BY <1>2 DEF Visited
  <2> QED
    BY <1>2, <2>1 DEF OfVisited, Reports
<1> QED
  BY <1>1, <1>2

\* Nothing that the reports are about changes.
LEMMA SameSoFar ==
  ASSUME NEW f, SoFar(f), UNCHANGED <<store, result, left, captures, reports>>,
         files'[current'][f] = files[current][f]
  PROVE  SoFar(f)'
<1>1. Visited(f)' = Visited(f)
  BY DEF Visited
<1>2. OfVisited(f)' = OfVisited(f)
  BY <1>1 DEF OfVisited, Reports
<1> QED
  BY <1>1, <1>2 DEF SoFar, Captures

\* Somebody reads a file of the snapshot.
LEMMA ReadSoFar ==
  ASSUME Typed, NEW f \in URIs, SoFar(f), OtherRead
  PROVE  SoFar(f)'
<1>1. /\ UNCHANGED <<store, result, left, captures, reports, current, disk>>
      /\ \E u \in URIs : F!ReadFile(current, u)
  BY DEF OtherRead, F!ReadFile, storeVars, reportVars
<1>2. PICK u \in URIs : /\ files[current][u] = Unread
                        /\ files' = [files EXCEPT ![current][u] = disk[u]]
  BY <1>1 DEF F!ReadFile
<1>3. files'[current] = [files[current] EXCEPT ![u] = disk[u]]
  BY <1>2 DEF Typed, TypeOK, F!TypeOK
<1>4. CASE f # u
  BY <1>1, <1>3, <1>4, SameSoFar DEF Typed, TypeOK, F!TypeOK
<1>5. CASE f = u
  <2>1. Visited(f)' = Visited(f)
    BY <1>1 DEF Visited
  <2>2. OfVisited(f)' = OfVisited(f)
    BY <1>1, <2>1 DEF OfVisited, Reports
  <2>3. files'[current'][f] = disk[f] /\ disk[f] # Unread
    BY <1>1, <1>3, <1>5, UnreadHasNoCaptures DEF Typed, TypeOK, F!TypeOK
  <2>4. result = "map" =>
          f \notin DOMAIN captures /\ reports[f] = {} /\ OfVisited(f) = {}
    BY <1>2, <1>5, UnreadHasNoCaptures, NothingVisited DEF SoFar
  <2> QED
    BY <1>1, <2>1, <2>2, <2>3, <2>4 DEF SoFar
<1> QED
  BY <1>4, <1>5

\* A resource is visited.
LEMMA VisitSoFar ==
  ASSUME Typed, NEW f \in URIs, SoFar(f), result = "map",
         NEW u \in Resources, Visit(u), phase' # "crashed", ~cancelled
  PROVE  SoFar(f)'
<1> DEFINE p == store[u].pos
<1>1. /\ u \in left /\ u \in DOMAIN store /\ left \subseteq DOMAIN store
      /\ left' = left \ {u}
      /\ UNCHANGED <<store, result>>
  BY DEF Visit, Typed, TypeOK, storeVars
<1>2. CASE store[u].diags = <<>> /\ UNCHANGED <<fileVars, captures, reports>>
  <2>1. Reports(u, p) = {}
    BY <1>2, NoDiagsNoReports
  <2>2. OfVisited(f)' = OfVisited(f)
    BY <1>1, <2>1, OneMore
  <2>3. \A v \in Visited(f)' : v \in Visited(f) \/ v = u
    BY <1>1, OneMore
  <2> QED
    BY <1>1, <1>2, <2>2, <2>3 DEF SoFar, Captures, fileVars
<1>3. ASSUME NEW lines, p \in Positions, p # NoPosition, LookUp(p, lines),
             \/ lines = {} /\ UNCHANGED <<captures, reports>>
             \/ /\ lines # {}
                /\ captures' = [v \in DOMAIN captures \cup {p[1]} |->
                                  IF v = p[1] THEN lines ELSE captures[v]]
                /\ reports' = [reports EXCEPT ![p[1]] = @ \cup Reports(u, p)]
      PROVE  SoFar(f)'
  <2>1. p[1] \in URIs
    BY <1>3 DEF Positions
  <2>2. current' = current
    BY <1>3, LinesRead DEF fileVars
  <2>3. CASE f # p[1]
    <3>1. files'[current][f] = files[current][f]
      <4>1. \/ files' = files
            \/ files' = [files EXCEPT ![current][p[1]] = Read(p[1])]
        BY <1>3, LinesRead DEF fileVars
      <4> QED
        BY <2>1, <2>3, <4>1 DEF Typed, TypeOK, F!TypeOK
    <3>2. Visited(f)' = Visited(f) /\ OfVisited(f)' = OfVisited(f)
      BY <1>1, <2>3, OneMore
    <3>3. reports'[f] = reports[f] /\ (f \in DOMAIN captures' <=> f \in DOMAIN captures)
          /\ (f \in DOMAIN captures => captures'[f] = captures[f])
      BY <1>3, <2>3 DEF Typed, TypeOK
    <3> QED
      BY <1>1, <2>2, <3>1, <3>2, <3>3 DEF SoFar
  <2>4. CASE f = p[1]
    <3>1. OfVisited(f)' = OfVisited(f) \cup Reports(u, p)
      BY <1>1, <1>3, <2>4, OneMore
    <3>2. f \in DOMAIN captures => files[current][f] # Unread
      BY DEF SoFar
    <3>3. /\ files'[current][f] # Unread
          /\ files[current][f] # Unread => files'[current][f] = files[current][f]
          /\ lines = Captures(files'[current][f])
      <4>1. CASE f \in DOMAIN captures
        BY <1>3, <2>4, <3>2, <4>1, LinesRead DEF fileVars, SoFar
      <4>2. CASE f \notin DOMAIN captures
        <5>1. Read(f) # Unread /\ (files[current][f] # Unread => Read(f) = files[current][f])
          BY UnreadHasNoCaptures DEF Read, Typed, TypeOK, F!TypeOK
        <5>2. lines = Captures(files'[current][f]) /\ files'[current][f] = Read(f)
          BY <1>3, <2>4, <4>2, LinesRead DEF Typed, TypeOK, F!TypeOK
        <5> QED
          BY <5>1, <5>2
      <4> QED
        BY <4>1, <4>2
    <3>4. reports[f] = IF lines # {} THEN OfVisited(f) ELSE {}
      BY <3>3, UnreadHasNoCaptures, NothingVisited DEF SoFar
    <3>5. CASE lines = {}
      BY <1>1, <1>3, <2>2, <3>2, <3>3, <3>4, <3>5 DEF SoFar
    <3>6. CASE lines # {}
      <4>1. reports'[f] = OfVisited(f)'
        BY <1>3, <2>4, <3>1, <3>4, <3>6 DEF Typed, TypeOK
      <4>2. captures'[f] = lines
        BY <1>3, <2>4, <3>6
      <4> QED
        BY <1>1, <2>2, <3>3, <3>6, <4>1, <4>2 DEF SoFar
    <3> QED
      BY <3>5, <3>6
  <2> QED
    BY <2>3, <2>4
<1> QED
  BY <1>2, <1>3, VisitCases

LEMMA BeforeStep ==
  ASSUME Typed, Before, Next
  PROVE  Before'
<1>1. current' \in {current, current + 1}
  BY StepOnFiles, FilesTypes DEF Typed, TypeOK
<1>2. current \in Int /\ began \in Int
  BY BoundsAssumption DEF Typed, TypeOK, F!TypeOK, F!Seqs
<1>3. CASE Close
  BY <1>2, <1>3 DEF Close, fileVars, storeVars, Before
<1>4. CASE EndPreview \/ Shutdown \/ Cancel \/ Finish
  BY <1>4 DEF EndPreview, Shutdown, Cancel, Finish, fileVars, storeVars, reportVars, Before
<1>5. CASE \/ \E u \in URIs, h \in F!Handles : DiskChange(u, h)
           \/ Notification \/ OtherRead
  BY <1>1, <1>2, <1>5 DEF DiskChange, Notification, OtherRead, storeVars, reportVars, Before
<1>6. CASE \E e \in Events : HandleEvent(e) \/ HandleLateEvent(e)
  BY <1>6 DEF HandleEvent, HandleLateEvent, fileVars, reportVars, Before
<1>7. ASSUME NEW u \in Resources, Visit(u) PROVE Before'
  <2>1. /\ UNCHANGED <<result, began>> /\ left' = left \ {u}
        /\ phase = "diagnosing" /\ phase' \in {"diagnosing", "crashed"}
    BY <1>7 DEF Visit, Crash, storeVars
  <2> QED
    BY <1>1, <1>2, <2>1 DEF Before
<1> QED
  BY <1>3, <1>4, <1>5, <1>6, <1>7 DEF Next

LEMMA AllSoFarStep ==
  ASSUME Typed, Before, AllSoFar, Next
  PROVE  AllSoFar'
<1> SUFFICES ASSUME phase' \in {"diagnosing", "done"}, current' = began', ~late', ~cancelled',
                    NEW f \in URIs
             PROVE  SoFar(f)'
  BY DEF AllSoFar
<1>1. current \in Int /\ began \in Int /\ began <= current
  BY BoundsAssumption DEF Before, Typed, TypeOK, F!TypeOK, F!Seqs
<1>2. CASE Close
  <2>1. /\ reports'[f] = {} /\ f \notin DOMAIN captures'
        /\ UNCHANGED <<store, result>>
        /\ result = "map" => left' = DOMAIN store
    BY <1>2 DEF Close, storeVars, Before
  <2>2. result = "map" => Visited(f)' = {}
    BY <2>1 DEF Visited
  <2>3. result = "map" => OfVisited(f)' = {}
    BY <2>2 DEF OfVisited
  <2> QED
    BY <2>1, <2>2, <2>3 DEF SoFar
<1>3. CASE EndPreview \/ \E e \in Events : HandleEvent(e) \/ HandleLateEvent(e)
  BY <1>3 DEF EndPreview, HandleEvent, HandleLateEvent
<1>4. ASSUME phase \in {"diagnosing", "done"}, UNCHANGED <<began, late, cancelled>>,
             current' = current
      PROVE  SoFar(f)
  BY <1>4 DEF AllSoFar
<1>9. CASE Cancel
  BY <1>9 DEF Cancel
<1>5. CASE Finish \/ Shutdown \/ \E u \in URIs, h \in F!Handles : DiskChange(u, h)
  <2>1. /\ UNCHANGED <<store, result, left, captures, reports, files, current, began, late,
                    cancelled>>
        /\ phase \in {"diagnosing", "done"}
    BY <1>5 DEF Finish, Shutdown, DiskChange, F!DiskChange, fileVars, storeVars, endVars, reportVars
  <2> QED
    BY <1>4, <2>1, SameSoFar
<1>6. CASE Notification
  <2>1. UNCHANGED <<store, result, left, captures, reports, phase, began, late, cancelled>>
    BY <1>6 DEF Notification, storeVars, endVars, reportVars
  <2>2. ~F!Replace
    BY <1>1, <2>1 DEF F!Replace
  <2>3. UNCHANGED <<files, current>>
    BY <1>6, <2>2 DEF Notification, F!MustReadFile
  <2> QED
    BY <1>4, <2>1, <2>3, SameSoFar
<1>7. CASE OtherRead
  BY <1>4, <1>7, ReadSoFar DEF OtherRead, F!ReadFile, storeVars, endVars, reportVars
<1>8. ASSUME NEW u \in Resources, Visit(u) PROVE SoFar(f)'
  <2>1. phase = "diagnosing" /\ UNCHANGED <<began, late, cancelled, current>> /\ left # {}
    <3>1. current' = current
      BY <1>8, VisitReads DEF fileVars, F!ReadFile, Typed
    <3> QED
      BY <1>8, <3>1 DEF Visit, endVars
  <2>2. result = "map"
    BY <2>1 DEF Before
  <2> QED
    BY <1>4, <1>8, <2>1, <2>2, VisitSoFar
<1> QED
  BY <1>2, <1>3, <1>5, <1>6, <1>7, <1>8, <1>9 DEF Next

\* A run that nothing overtakes or cancels reports everything that the store has on a file with
\* captures and nothing on the others (server.go:45-60, diagnostics.go:200-268),
\* whichever order it visits the resources in and whoever else reads the files.
THEOREM ReportsAreComplete == Spec => []ReportsComplete
<1>1. Init => Before /\ AllSoFar
  <2> SUFFICES ASSUME Init PROVE Before /\ AllSoFar
    OBVIOUS
  <2>1. DOMAIN captures = {}
    BY DEF Init
  <2> QED
    BY <2>1 DEF Init, F!Init, Before, AllSoFar
<1>2. Typed /\ Before /\ AllSoFar /\ [Next]_vars => Before' /\ AllSoFar'
  <2>1. CASE Next
    BY <2>1, BeforeStep, AllSoFarStep
  <2>2. CASE UNCHANGED vars
    <3>1. UNCHANGED <<files, current, store, result, phase, began, late, left, captures, reports,
                      cancelled>>
      BY <2>2 DEF vars, fileVars, storeVars, endVars, reportVars
    <3>2. Before => Before'
      BY <3>1 DEF Before
    <3>3. ASSUME NEW f \in URIs, SoFar(f) PROVE SoFar(f)'
      BY <3>1, <3>3, SameSoFar
    <3> QED
      BY <3>1, <3>2, <3>3 DEF AllSoFar
  <2> QED
    BY <2>1, <2>2
<1>3. Typed /\ Before /\ AllSoFar => ReportsComplete
  <2> SUFFICES ASSUME Typed, Before, AllSoFar, phase = "done", current = began, ~late,
                      ~cancelled, NEW f \in URIs
               PROVE  reports[f] = IF result = "map" /\ Captures(files[current][f]) # {}
                                     THEN Everything(f) ELSE {}
    BY DEF ReportsComplete
  <2>1. left = {} /\ SoFar(f)
    BY DEF Before, AllSoFar
  <2>2. OfVisited(f) = Everything(f)
    BY <2>1 DEF OfVisited, Visited, Everything
  <2> QED
    BY <2>1, <2>2 DEF SoFar
<1> QED
  BY <1>1, <1>2, <1>3, AlwaysTyped, PTL DEF Spec

-----------------------------------------------------------------------------
(***************************************************************************)
(* The store says what the log says.                                       *)
(***************************************************************************)
\* The last of the events that set something of a resource is one of the log, or 0.
LastsInLog ==
  \A u \in Resources, m \in {"RegisterResource", "Analyze"} : LastOf(u, m) \in 0..Len(log)

\* What the log says of one resource, known to the store or not.
Matches(u) ==
  /\ Info(u).pos = IF LastOf(u, "RegisterResource") = 0 THEN NoPosition
                   ELSE log[LastOf(u, "RegisterResource")].pos
  /\ Enumerates(Info(u).diags, Valid(u))

\* A resource that the store does not know is in no event.
LEMMA MatchesAll ==
  ASSUME TypeOK, StoreMatchesLog, NEW u \in Resources
  PROVE  Matches(u)
<1>1. CASE u \in DOMAIN store
  BY <1>1 DEF StoreMatchesLog, Matches, Info
<1>2. CASE u \notin DOMAIN store
  <2>1. \A M : EventsOf(u, M) = {}
    BY <1>2 DEF StoreMatchesLog, EventsOf
  <2>2. LastOf(u, "RegisterResource") = 0 /\ Valid(u) = {}
    BY <2>1 DEF LastOf, Valid
  <2>3. Info(u) = [pos |-> NoPosition, diags |-> <<>>]
    BY <1>2 DEF Info
  <2> QED
    BY <2>2, <2>3 DEF Matches, Enumerates
<1> QED
  BY <1>1, <1>2

\* The log after an event: the places it had, and one more.
LEMMA LogStep ==
  ASSUME log \in Seq(Entries), NEW e \in Entries, log' = Append(log, e)
  PROVE  /\ Len(log) \in Nat /\ Len(log') = Len(log) + 1
         /\ DOMAIN log = 1..Len(log) /\ DOMAIN log' = 1..(Len(log) + 1)
         /\ \A i \in 1..Len(log) : log'[i] = log[i]
         /\ log'[Len(log) + 1] = e
<1>1. /\ log' \in Seq(Entries) /\ Len(log') = Len(log) + 1
      /\ \A i \in 1..Len(log) : log'[i] = log[i]
      /\ log'[Len(log) + 1] = e
  BY AppendProperties
<1>2. Len(log) \in Nat /\ DOMAIN log = 1..Len(log)
  BY LenProperties
<1>3. DOMAIN log' = 1..Len(log')
  BY <1>1, LenProperties
<1> QED
  BY <1>1, <1>2, <1>3

\* The events of a resource after one more event.
LEMMA EventsOfStep ==
  ASSUME log \in Seq(Entries), NEW e \in Entries, log' = Append(log, e), NEW u, NEW M
  PROVE  /\ EventsOf(u, M) \subseteq 1..Len(log)
         /\ EventsOf(u, M)' = EventsOf(u, M)
              \cup (IF e.method \in M /\ u \in e.urns THEN {Len(log) + 1} ELSE {})
<1>1. /\ Len(log) \in Nat
      /\ DOMAIN log = 1..Len(log) /\ DOMAIN log' = 1..(Len(log) + 1)
      /\ \A i \in 1..Len(log) : log'[i] = log[i]
      /\ log'[Len(log) + 1] = e
  BY LogStep
<1>2. 1..(Len(log) + 1) = 1..Len(log) \cup {Len(log) + 1}
  BY <1>1
<1> QED
  BY <1>1, <1>2 DEF EventsOf

\* The greatest of a set of events, as LastOf takes it.
Greatest(I) == IF I = {} THEN 0 ELSE CHOOSE i \in I : \A j \in I : j <= i

LEMMA NewIsGreatest ==
  ASSUME NEW n \in Nat, NEW I \in SUBSET (1..n)
  PROVE  Greatest(I \cup {n + 1}) = n + 1
<1> DEFINE J == I \cup {n + 1}
<1>1. n + 1 \in J /\ \A j \in J : j \in Nat /\ j <= n + 1
  OBVIOUS
<1> HIDE DEF J
<1>2. PICK i \in J : i = Greatest(J) /\ \A j \in J : j <= i
  BY <1>1 DEF Greatest
<1>3. i = n + 1
  BY <1>1, <1>2
<1> QED
  BY <1>2, <1>3 DEF J

\* The last event of a kind is the new one, or is what it was.
LEMMA LastOfStep ==
  ASSUME log \in Seq(Entries), NEW e \in Entries, log' = Append(log, e), NEW u, NEW m
  PROVE  LastOf(u, m)' = IF e.method = m /\ u \in e.urns THEN Len(log) + 1 ELSE LastOf(u, m)
<1> DEFINE I == EventsOf(u, {m})
           n == Len(log)
<1>1. /\ I \subseteq 1..n
      /\ EventsOf(u, {m})' = I \cup (IF e.method \in {m} /\ u \in e.urns THEN {n + 1} ELSE {})
      /\ n \in Nat
  BY EventsOfStep, LenProperties
<1>4. LastOf(u, m) = Greatest(EventsOf(u, {m})) /\ LastOf(u, m)' = Greatest(EventsOf(u, {m})')
  BY DEF LastOf, Greatest
<1>2. CASE e.method = m /\ u \in e.urns
  <2>1. EventsOf(u, {m})' = I \cup {n + 1}
    BY <1>1, <1>2
  <2> QED
    BY <1>1, <1>2, <1>4, <2>1, NewIsGreatest
<1>3. CASE ~(e.method = m /\ u \in e.urns)
  <2>1. EventsOf(u, {m})' = I
    BY <1>1, <1>3
  <2> QED
    BY <1>3, <1>4, <2>1
<1> QED
  BY <1>2, <1>3

\* The diagnostics that count after an event: an Analyze leaves its own only, one of
\* a stack policy is added.
LEMMA ValidStep ==
  ASSUME TypeOK, LastsInLog, NEW e \in Entries, log' = Append(log, e), NEW u \in Resources
  PROVE  Valid(u)' = IF u \notin e.urns THEN Valid(u)
                     ELSE IF e.method = "Analyze" THEN {Len(log) + 1}
                     ELSE IF e.method = "AnalyzeStack" THEN Valid(u) \cup {Len(log) + 1}
                     ELSE Valid(u)
<1> DEFINE A == EventsOf(u, {"Analyze", "AnalyzeStack"})
           n == Len(log)
           l == LastOf(u, "Analyze")
<1>1. log \in Seq(Entries) /\ n \in Nat /\ l \in 0..n
  BY LenProperties DEF TypeOK, LastsInLog
<1>2. /\ A \subseteq 1..n
      /\ EventsOf(u, {"Analyze", "AnalyzeStack"})' = A
           \cup (IF e.method \in {"Analyze", "AnalyzeStack"} /\ u \in e.urns THEN {n + 1} ELSE {})
  BY <1>1, EventsOfStep
<1>3. LastOf(u, "Analyze")' = IF e.method = "Analyze" /\ u \in e.urns THEN n + 1 ELSE l
  BY <1>1, LastOfStep
<1>4. Valid(u) = {i \in A : i >= l}
  BY DEF Valid
<1>5. Valid(u)' = {i \in EventsOf(u, {"Analyze", "AnalyzeStack"})' : i >= LastOf(u, "Analyze")'}
  BY DEF Valid
<1> HIDE DEF A, n, l
<1>6. CASE u \notin e.urns \/ e.method \notin {"Analyze", "AnalyzeStack"}
  BY <1>2, <1>3, <1>4, <1>5, <1>6 DEF n
<1>7. CASE u \in e.urns /\ e.method = "Analyze"
  <2>1. Valid(u)' = {i \in A \cup {n + 1} : i >= n + 1}
    BY <1>2, <1>3, <1>5, <1>7
  <2>2. n + 1 >= n + 1 /\ \A i \in A : ~(i >= n + 1)
    BY <1>1, <1>2
  <2> QED
    BY <1>7, <2>1, <2>2 DEF n
<1>8. CASE u \in e.urns /\ e.method = "AnalyzeStack"
  <2>1. Valid(u)' = {i \in A \cup {n + 1} : i >= l}
    BY <1>2, <1>3, <1>5, <1>8
  <2>2. {i \in A \cup {n + 1} : i >= l} = {i \in A : i >= l} \cup {n + 1}
    BY <1>1, <1>2
  <2> QED
    BY <1>4, <1>8, <2>1, <2>2 DEF n
<1> QED
  BY <1>6, <1>7, <1>8

\* A sequence that enumerates events of the log enumerates them, and the event after
\* it, when that one is appended.
LEMMA EnumeratesAppend ==
  ASSUME NEW n \in Nat, NEW d \in Seq(1..n), NEW I, Enumerates(d, I)
  PROVE  Enumerates(Append(d, n + 1), I \cup {n + 1})
<1>1. d \in Seq(Nat) /\ n + 1 \in Nat
  BY SMT
<1>2. /\ Len(d) \in Nat /\ DOMAIN d = 1..Len(d)
      /\ \A i \in 1..Len(d) : d[i] \in 1..n
  BY LenProperties
<1> DEFINE k == Len(d)
           a == Append(d, n + 1)
<1>3. /\ a \in Seq(Nat) /\ Len(a) = k + 1
      /\ \A i \in 1..k : a[i] = d[i]
      /\ a[k + 1] = n + 1
  BY <1>1, AppendProperties
<1>4. DOMAIN a = 1..(k + 1)
  BY <1>3, LenProperties
<1>5. {d[i] : i \in 1..k} = I /\ \A i, j \in 1..k : i < j => d[i] < d[j]
  BY <1>2 DEF Enumerates
<1>6. k \in Nat
  BY <1>2
<1> SUFFICES Enumerates(a, I \cup {n + 1})
  OBVIOUS
<1> HIDE DEF k, a
<1>7. {a[i] : i \in 1..(k + 1)} = {a[i] : i \in 1..k} \cup {a[k + 1]}
  BY <1>6
<1>8. {a[i] : i \in 1..k} = I
  BY <1>3, <1>5
<1>9. \A i, j \in 1..(k + 1) : i < j => a[i] < a[j]
  <2> SUFFICES ASSUME NEW i \in 1..(k + 1), NEW j \in 1..(k + 1), i < j PROVE a[i] < a[j]
    OBVIOUS
  <2>1. i \in 1..k /\ a[i] = d[i] /\ d[i] \in 1..n
    BY <1>2, <1>3, <1>6 DEF k
  <2>2. CASE j = k + 1
    BY <1>3, <2>1, <2>2
  <2>3. CASE j \in 1..k
    BY <1>3, <1>5, <2>1, <2>3
  <2> QED
    BY <1>6, <2>2, <2>3
<1> QED
  BY <1>3, <1>4, <1>7, <1>8, <1>9 DEF Enumerates

\* What the store has after an event is what the log says after it.
LEMMA HandleMatches ==
  ASSUME TypeOK, LastsInLog, StoreMatchesLog, NEW e \in Events, Handle(e)
  PROVE  LastsInLog' /\ StoreMatchesLog'
<1>1. /\ log \in Seq(Entries) /\ log' = Append(log, e)
      /\ e.method \in {"RegisterResource", "Analyze", "AnalyzeStack"}
      /\ e.urns \subseteq Resources
      /\ e \in Entries
  BY EventTypes DEF TypeOK, Handle
<1>2. /\ Len(log) \in Nat /\ Len(log') = Len(log) + 1
      /\ DOMAIN log = 1..Len(log) /\ DOMAIN log' = 1..(Len(log) + 1)
      /\ \A i \in 1..Len(log) : log'[i] = log[i]
      /\ log'[Len(log) + 1] = e
  BY <1>1, LogStep
<1>3. \A u \in Resources, m \in {"RegisterResource", "Analyze"} :
        LastOf(u, m)' = IF e.method = m /\ u \in e.urns THEN Len(log) + 1 ELSE LastOf(u, m)
  BY <1>1, LastOfStep
<1>4. LastsInLog'
  <2>1. \A u \in Resources, m \in {"RegisterResource", "Analyze"} :
          LastOf(u, m)' \in 0..(Len(log) + 1)
    BY <1>2, <1>3 DEF LastsInLog
  <2> QED
    BY <1>2, <2>1 DEF LastsInLog
<1>5. /\ DOMAIN store' = DOMAIN store \cup e.urns
      /\ \A u \in DOMAIN store' : store'[u] =
           IF u \in e.urns
             THEN [pos   |-> IF e.method = "RegisterResource" THEN e.pos ELSE Info(u).pos,
                   diags |-> NewDiags(e, Info(u).diags, Len(log) + 1)]
             ELSE store[u]
  BY DEF Handle
<1>6. DOMAIN store' = UNION {log'[i].urns : i \in DOMAIN log'}
  <2>1. {log'[i].urns : i \in DOMAIN log'} = {log[i].urns : i \in DOMAIN log} \cup {e.urns}
    BY <1>2
  <2>2. DOMAIN store = UNION {log[i].urns : i \in DOMAIN log}
    BY DEF StoreMatchesLog
  <2> QED
    BY <1>5, <2>1, <2>2
<1>7. ASSUME NEW u \in DOMAIN store'
      PROVE  /\ store'[u].pos = IF LastOf(u, "RegisterResource")' = 0 THEN NoPosition
                                ELSE log'[LastOf(u, "RegisterResource")'].pos
             /\ Enumerates(store'[u].diags, Valid(u)')
  <2>1. u \in Resources /\ Matches(u)
    BY <1>1, <1>5, <1>7, MatchesAll DEF TypeOK
  <2>2. /\ Info(u).diags \in Seq(1..Len(log))
        /\ u \in DOMAIN store => Info(u) = store[u]
    <3>1. Info(u) \in Infos
      BY DEF Info, Infos, TypeOK
    <3> QED
      BY <3>1 DEF Infos, Info
  <2>3. /\ LastOf(u, "RegisterResource") \in 0..Len(log)
        /\ LastOf(u, "RegisterResource")' =
             IF e.method = "RegisterResource" /\ u \in e.urns THEN Len(log) + 1
             ELSE LastOf(u, "RegisterResource")
    BY <1>3, <2>1 DEF LastsInLog
  <2>4. Info(u).pos = IF LastOf(u, "RegisterResource") = 0 THEN NoPosition
                      ELSE log[LastOf(u, "RegisterResource")].pos
    BY <2>1 DEF Matches
  <2>5. store'[u] = IF u \in e.urns
           THEN [pos   |-> IF e.method = "RegisterResource" THEN e.pos ELSE Info(u).pos,
                 diags |-> NewDiags(e, Info(u).diags, Len(log) + 1)]
           ELSE store[u]
    BY <1>5, <1>7
  <2>6. store'[u].pos = IF e.method = "RegisterResource" /\ u \in e.urns THEN e.pos ELSE Info(u).pos
    <3>1. CASE u \in e.urns
      BY <2>5, <3>1
    <3>2. CASE u \notin e.urns
      BY <1>5, <1>7, <2>2, <2>5, <3>2
    <3> QED
      BY <3>1, <3>2
  <2>7. store'[u].diags = IF u \in e.urns THEN NewDiags(e, Info(u).diags, Len(log) + 1)
                          ELSE Info(u).diags
    <3>1. CASE u \in e.urns
      BY <2>5, <3>1
    <3>2. CASE u \notin e.urns
      BY <1>5, <1>7, <2>2, <2>5, <3>2
    <3> QED
      BY <3>1, <3>2
  <2>8. store'[u].pos = IF LastOf(u, "RegisterResource")' = 0 THEN NoPosition
                        ELSE log'[LastOf(u, "RegisterResource")'].pos
    <3>1. CASE e.method = "RegisterResource" /\ u \in e.urns
      BY <1>2, <2>3, <2>6, <3>1
    <3>2. CASE ~(e.method = "RegisterResource" /\ u \in e.urns)
      BY <1>2, <2>3, <2>4, <2>6, <3>2
    <3> QED
      BY <3>1, <3>2
  <2>9. Enumerates(Info(u).diags, Valid(u))
    BY <2>1 DEF Matches
  <2>10. Valid(u)' = IF u \notin e.urns THEN Valid(u)
                    ELSE IF e.method = "Analyze" THEN {Len(log) + 1}
                    ELSE IF e.method = "AnalyzeStack" THEN Valid(u) \cup {Len(log) + 1}
                    ELSE Valid(u)
    BY <1>1, <2>1, ValidStep
  <2>11. Enumerates(store'[u].diags, Valid(u)')
    <3>1. CASE u \in e.urns /\ e.method = "Analyze"
      <4>1. store'[u].diags = <<Len(log) + 1>> /\ Valid(u)' = {Len(log) + 1}
        BY <2>7, <2>10, <3>1 DEF NewDiags
      <4> QED
        BY <4>1 DEF Enumerates
    <3>2. CASE u \in e.urns /\ e.method = "AnalyzeStack"
      <4>1. /\ store'[u].diags = Append(Info(u).diags, Len(log) + 1)
            /\ Valid(u)' = Valid(u) \cup {Len(log) + 1}
        BY <2>7, <2>10, <3>2 DEF NewDiags
      <4> QED
        BY <1>2, <2>2, <2>9, <4>1, EnumeratesAppend
    <3>3. CASE ~(u \in e.urns /\ e.method \in {"Analyze", "AnalyzeStack"})
      <4>1. store'[u].diags = Info(u).diags /\ Valid(u)' = Valid(u)
        BY <2>7, <2>10, <3>3 DEF NewDiags
      <4> QED
        BY <2>9, <4>1
    <3> QED
      BY <3>1, <3>2, <3>3
  <2> QED
    BY <2>8, <2>11
<1>8. StoreMatchesLog'
  BY <1>6, <1>7 DEF StoreMatchesLog
<1> QED
  BY <1>4, <1>8

\* While log and store stay, so does what they say.
LEMMA MatchesStays ==
  ASSUME LastsInLog, StoreMatchesLog, UNCHANGED <<log, store>>
  PROVE  LastsInLog' /\ StoreMatchesLog'
<1>1. \A u, M : EventsOf(u, M)' = EventsOf(u, M)
  BY DEF EventsOf
<1>2. \A u, m : LastOf(u, m) = Greatest(EventsOf(u, {m})) /\ LastOf(u, m)' = Greatest(EventsOf(u, {m})')
  BY DEF LastOf, Greatest
<1>3. \A u, m : LastOf(u, m)' = LastOf(u, m)
  BY <1>1, <1>2
<1>4. \A u : Valid(u)' = Valid(u)
  BY <1>1, <1>3 DEF Valid
<1> QED
  BY <1>3, <1>4 DEF LastsInLog, StoreMatchesLog

\* Whatever order the events come in, also the last that nobody waits for, the store
\* has of every resource the position of its last registration and the diagnostics
\* that are still valid, in their order (run.go:119-154).
THEOREM StoreFollowsLog == Spec => []StoreMatchesLog
<1>1. Init => LastsInLog /\ StoreMatchesLog
  <2> SUFFICES ASSUME Init PROVE LastsInLog /\ StoreMatchesLog
    OBVIOUS
  <2>1. log = <<>> /\ store = <<>> /\ DOMAIN log = {} /\ DOMAIN store = {}
    BY DEF Init
  <2>2. \A u, m : LastOf(u, m) = 0
    BY <2>1 DEF LastOf, EventsOf
  <2>3. Len(log) \in Nat
    BY <2>1
  <2> QED
    BY <2>1, <2>2, <2>3 DEF LastsInLog, StoreMatchesLog
<1>2. Typed /\ LastsInLog /\ StoreMatchesLog /\ [Next]_vars => LastsInLog' /\ StoreMatchesLog'
  <2> SUFFICES ASSUME Typed, LastsInLog, StoreMatchesLog, [Next]_vars
               PROVE  LastsInLog' /\ StoreMatchesLog'
    OBVIOUS
  <2>1. (\E e \in Events : Handle(e)) \/ UNCHANGED <<log, store>>
    BY DEF Next, DiskChange, Notification, OtherRead, Shutdown, Cancel, HandleEvent,
       HandleLateEvent, EndPreview, Close, Visit, Finish, vars, storeVars
  <2> QED
    BY <2>1, HandleMatches, MatchesStays DEF Typed
<1> QED
  BY <1>1, <1>2, AlwaysTyped, PTL DEF Spec

-----------------------------------------------------------------------------
(***************************************************************************)
(* Panics.                                                                 *)
(***************************************************************************)
\* The store knows the resources of the log.
Known == DOMAIN store = UNION {log[i].urns : i \in DOMAIN log}

\* A late event with a key that the store does not know.
LEMMA LateKeyStep ==
  ASSUME Typed, Known, NEW e \in Events, HandleLateEvent(e), phase' = "crashed"
  PROVE  LateKey'
<1>1. /\ late' = TRUE /\ result' = "map"
      /\ log \in Seq(Entries) /\ log' = Append(log, e)
      /\ ~(e.urns \subseteq DOMAIN store)
  BY DEF HandleLateEvent, Handle, Typed, TypeOK
<1>2. /\ Len(log) \in Nat /\ Len(log') = Len(log) + 1
      /\ DOMAIN log = 1..Len(log)
      /\ \A i \in 1..Len(log) : log'[i] = log[i]
      /\ log'[Len(log')] = e
  BY <1>1, LogStep, EventTypes DEF Typed, TypeOK
<1>3. PICK u \in e.urns : u \notin DOMAIN store
  BY <1>1
<1>4. \A i \in 1..(Len(log') - 1) : u \notin log'[i].urns
  BY <1>2, <1>3 DEF Known
<1> QED
  BY <1>1, <1>2, <1>3, <1>4 DEF LateKey

LEMMA PanicExplainedStep ==
  ASSUME Typed, Undisturbed, Known, Next
  PROVE  PanicExplained'
<1> SUFFICES ASSUME phase' = "crashed" PROVE LateKey' \/ \E u \in DOMAIN store' : Panics(u)'
  BY DEF PanicExplained
<1>1. phase # "crashed"
  BY DEF Next
<1>2. CASE \E e \in Events : HandleLateEvent(e)
  BY <1>2, LateKeyStep
<1>3. CASE \E u \in Resources : Visit(u)
  <2>1. PICK u \in Resources : Visit(u)
    BY <1>3
  <2> DEFINE p == store[u].pos
  <2>2. u \in DOMAIN store /\ UNCHANGED <<store, log, ran, calm, closed>>
    BY <2>1 DEF Visit, runVars, storeVars, endVars, Typed, TypeOK
  <2>3. /\ \A v \in DOMAIN store : Unknown(v)' = Unknown(v)
        /\ DOMAIN store' = DOMAIN store
    BY <2>2 DEF Unknown
  <2>4. CASE p = NoPosition
    BY <2>2, <2>4 DEF Panics
  <2>5. CASE /\ store[u].diags # <<>>
             /\ p = NoFile \/ (p \in Positions /\ closed /\ p[1] \notin DOMAIN captures)
             /\ UNCHANGED captures
    BY <2>2, <2>5 DEF Panics
  <2>6. CASE /\ p \in Positions /\ store[u].diags # <<>>
             /\ \E lines : LookUp(p, lines) /\ lines # {} /\ (p[2] \notin lines \/ Unknown(u))
    <3>1. PICK lines : LookUp(p, lines) /\ lines # {} /\ (p[2] \notin lines \/ Unknown(u))
      BY <2>6
    <3>2. CASE Unknown(u)
      BY <2>2, <2>3, <2>6, <3>2 DEF Panics
    <3>3. CASE ~calm
      BY <2>2, <2>6, <3>3 DEF Panics
    <3>4. CASE calm /\ ~Unknown(u)
      <4>1. lines = Captures(ran[p[1]])
        BY <2>6, <3>1, <3>4, CalmLines
      <4>2. p[2] \notin Literal[ran[p[1]]]
        BY <3>1, <3>4, <4>1 DEF Captures
      <4> QED
        BY <2>2, <2>6, <4>2 DEF Panics
    <3> QED
      BY <3>2, <3>3, <3>4
  <2> QED
    BY <1>1, <2>1, <2>4, <2>5, <2>6, VisitCases
<1> QED
  BY <1>1, <1>2, <1>3 DEF Next, DiskChange, Notification, OtherRead, Shutdown, Cancel, HandleEvent,
     EndPreview, Close, Finish

\* Whatever the log, the files, the order of the map and the moment of a shutdown or
\* a cancellation, a run panics for one of the causes of Panics, or because the late
\* event adds to the map (diagnostics.go:200-268, server.go:45-60, lsp/server.go:18).
THEOREM PanicsExplained == Spec => []PanicExplained
<1>1. Init => Undisturbed /\ PanicExplained
  <2> SUFFICES ASSUME Init PROVE Undisturbed /\ PanicExplained
    OBVIOUS
  <2>1. 0 \in F!Seqs
    BY BoundsAssumption DEF F!Seqs
  <2>2. DOMAIN captures = {}
    BY DEF Init
  <2> QED
    BY <2>1, <2>2 DEF Init, F!Init, Undisturbed, PanicExplained
<1>2. Typed /\ StoreMatchesLog /\ Undisturbed /\ PanicExplained /\ [Next]_vars
        => Undisturbed' /\ PanicExplained'
  <2>1. StoreMatchesLog => Known
    BY DEF StoreMatchesLog, Known
  <2>2. Typed /\ StoreMatchesLog /\ Undisturbed /\ Next => Undisturbed' /\ PanicExplained'
    BY <2>1, UndisturbedStep, PanicExplainedStep
  <2>3. CASE UNCHANGED vars
    BY <2>3 DEF vars, fileVars, runVars, storeVars, endVars, reportVars, Undisturbed,
       PanicExplained, LateKey, Panics, Unknown, Captures
  <2> QED
    BY <2>2, <2>3
<1> QED
  BY <1>1, <1>2, AlwaysTyped, StoreFollowsLog, PTL DEF Spec

-----------------------------------------------------------------------------
(***************************************************************************)
(* The run that feeds the store is one that Runner allows.                 *)
(***************************************************************************)
RunGoesOn == phase \in {"previewing", "closing"}

\* A run is not late while it goes on.
NotYetLate == RunGoesOn => ~late

LEMMA NotYetLateStep ==
  ASSUME Typed, NotYetLate, Next
  PROVE  NotYetLate'
<1>1. CASE \E e \in Events : HandleLateEvent(e)
  BY <1>1 DEF HandleLateEvent, NotYetLate, RunGoesOn
<1>2. CASE ~\E e \in Events : HandleLateEvent(e)
  <2>1. UNCHANGED late
    BY <1>2 DEF Next, DiskChange, Notification, OtherRead, Shutdown, Cancel, HandleEvent,
       EndPreview, Close, Visit, Finish, reportVars
  <2>2. RunGoesOn' => RunGoesOn
    BY <1>2 DEF Next, DiskChange, Notification, OtherRead, Shutdown, Cancel, HandleEvent,
       EndPreview, Close, Visit, Crash, Finish, RunGoesOn
  <2> QED
    BY <2>1, <2>2 DEF NotYetLate
<1> QED
  BY <1>1, <1>2

LEMMA StepOnRunner ==
  ASSUME Typed, NotYetLate, Next
  PROVE  R!Next \/ UNCHANGED R!vars
<1> USE DEF R!Next, TheRun
<1>1. ASSUME NEW e \in Events, Handle(e) PROVE Len(log') = Len(log) + 1
  BY <1>1, LogStep, EventTypes DEF Typed, TypeOK, Handle
<1>2. ASSUME NEW e \in Events, HandleEvent(e) PROVE R!Next
  <2>1. R!Store("run")
    BY <1>1, <1>2 DEF HandleEvent, R!Store, reportVars
  <2> QED
    BY <2>1
<1>3. ASSUME NEW e \in Events, HandleLateEvent(e) PROVE R!Next
  <2>1. R!StoreLate("run")
    BY <1>1, <1>3 DEF HandleLateEvent, R!StoreLate
  <2> QED
    BY <2>1
<1>4. CASE Close
  <2>1. phase = "closing" /\ phase' = "diagnosing" /\ ~late /\ UNCHANGED <<late, log>>
    BY <1>4 DEF Close, NotYetLate, RunGoesOn, storeVars
  <2> DEFINE owes == [r \in {"run"} |-> IF phase \in {"previewing", "closing"} \/ late THEN 0 ELSE 1]
  <2>2. owes' = [owes EXCEPT !["run"] = 1] /\ 1 \in 0..1
    BY <2>1
  <2>3. R!Return("run")
    BY <2>1, <2>2 DEF R!Return
  <2> QED
    BY <2>3
<1>5. CASE EndPreview
  BY <1>5 DEF EndPreview, R!vars, reportVars
<1>6. ASSUME UNCHANGED <<log, late>>, RunGoesOn' <=> RunGoesOn PROVE UNCHANGED R!vars
  BY <1>6 DEF R!vars, RunGoesOn
<1>7. CASE \/ \E u \in URIs, h \in F!Handles : DiskChange(u, h)
           \/ Notification \/ OtherRead \/ \E u \in Resources : Visit(u)
           \/ Shutdown \/ Cancel \/ Finish
  <2>1. UNCHANGED <<log, late>>
    BY <1>7 DEF DiskChange, Notification, OtherRead, Shutdown, Cancel, Visit, Finish, storeVars,
       reportVars
  <2>2. RunGoesOn' <=> RunGoesOn
    BY <1>7 DEF DiskChange, Notification, OtherRead, Shutdown, Cancel, Visit, Crash, Finish,
       RunGoesOn
  <2> QED
    BY <1>6, <2>1, <2>2
<1> QED
  BY <1>2, <1>3, <1>4, <1>5, <1>7 DEF Next

\* The store is filled as Runner allows it: while the run goes on, and by one event
\* after that (run.go:84, :87-102). PreviewRun keeps Runner as well, so that what is
\* proved here of a run is proved of a store that the real log forwarder fills.
THEOREM StoreFedByRunner == Spec => KeepsRunner
<1>1. Init => NotYetLate
  BY DEF Init, NotYetLate
<1>2. Typed /\ NotYetLate /\ [Next]_vars => NotYetLate'
  BY NotYetLateStep DEF vars, reportVars, NotYetLate, RunGoesOn
<1>3. Typed /\ NotYetLate /\ [Next]_vars => [R!Next]_(R!vars)
  BY StepOnRunner DEF vars, storeVars, reportVars, R!vars
<1> QED
  BY <1>1, <1>2, <1>3, AlwaysTyped, PTL DEF Spec, KeepsRunner
=============================================================================
