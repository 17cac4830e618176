------------------------------ MODULE Snapshots ------------------------------
(***************************************************************************)
(* The lifetime of the snapshots of the one view of a session:             *)
(* server/view.go, the reference counting of server/snapshot.go, and the   *)
(* places of server/server.go that create, replace and drop snapshots.     *)
(*                                                                         *)
(* A snapshot is named by its sequenceID.  Every Acquire returns a release *)
(* function; a Holder is one place of the program where such a function is *)
(* kept until it is called (the load goroutine, a diagnostics goroutine,   *)
(* GetCapturesFromURI while it reads a file).  This module says nothing of *)
(* when holders acquire and release: Session does.                         *)
(***************************************************************************)
EXTENDS Integers, FiniteSets

CONSTANTS
  Holders,  \* the places that keep a release function
  MaxSeq    \* bound: the largest sequenceID

ASSUME HoldersAssumption == IsFiniteSet(Holders)
ASSUME MaxSeqAssumption  == MaxSeq \in Nat

Seqs   == 0..MaxSeq
NoSnap == -1

VARIABLES
  view,      \* server.view and its snapshot field, see ViewStates
  current,   \* view.snapshot, NoSnap when it is nil
  refcount,  \* Snapshot.refcount of every snapshot, 0 before its creation
  held,      \* the snapshot whose release function a holder keeps
  wg         \* the counter of server.snapshotWG

vars == <<view, current, refcount, held, wg>>

\* "absent": s.view is nil, not yet created; "open"; "closed": View.shutdown
\* has set view.snapshot to nil; "dropped": Shutdown has set s.view to nil.
ViewStates == {"absent", "open", "closed", "dropped"}

TypeOK ==
  /\ view \in ViewStates
  /\ current \in Seqs \cup {NoSnap}
  /\ refcount \in [Seqs -> Nat]
  /\ held \in [Holders -> Seqs \cup {NoSnap}]
  /\ wg \in Nat

Init ==
  /\ view = "absent"
  /\ current = NoSnap
  /\ refcount = [s \in Seqs |-> 0]
  /\ held = [h \in Holders |-> NoSnap]
  /\ wg = 0

-----------------------------------------------------------------------------
\* Mutants: each is what a plausible slip in decref, clone or createView does.
DoneCalls_Never(s)         == 0
DoneCalls_Always(s)        == 1
RefsAfterDrop_Kept(s)      == refcount
RefsAtCreation_NoReader(s) == [refcount EXCEPT ![s] = 2]
NewWG_NotAdded             == wg - (IF refcount[current] = 1 THEN 1 ELSE 0)

\* decref: how many times it calls done() - once, at the last reference.
DoneCalls(s) == IF refcount[s] = 1 THEN 1 ELSE 0

\* decref: the counts after one reference to s is given back.
RefsAfterDrop(s) == [refcount EXCEPT ![s] = @ - 1]

\* createView: refcount 1 for the view, and an Acquire for the goroutine that
\* runs the initial load and one for the caller.
RefsAtCreation(s) == [refcount EXCEPT ![s] = 3]

\* createView: the first snapshot, held by the load goroutine and the caller.
CreateView(loader, reader) ==
  /\ view = "absent"
  /\ loader # reader
  /\ held[loader] = NoSnap
  /\ held[reader] = NoSnap
  /\ view' = "open"
  /\ current' = 0
  /\ refcount' = RefsAtCreation(0)
  /\ held' = [held EXCEPT ![loader] = 0, ![reader] = 0]
  /\ wg' = wg + 1

\* Mutant: the snapshot is read outside snapshotMu, and may be an older one.
Acquire_Unlocked(h) ==
  /\ view = "open"
  /\ held[h] = NoSnap
  /\ \E s \in 0..current :
       refcount' = [refcount EXCEPT ![s] = @ + 1] /\ held' = [held EXCEPT ![h] = s]
  /\ UNCHANGED <<view, current, wg>>

\* View.Snapshot: the current snapshot with a reference to it.
Acquire(h) ==
  /\ view = "open"
  /\ held[h] = NoSnap
  /\ refcount[current] > 0
  /\ refcount' = [refcount EXCEPT ![current] = @ + 1]
  /\ held' = [held EXCEPT ![h] = current]
  /\ UNCHANGED <<view, current, wg>>

\* A release function is called.
Release(h) ==
  /\ held[h] # NoSnap
  /\ refcount[held[h]] > 0
  /\ refcount' = RefsAfterDrop(held[h])
  /\ wg' = wg - DoneCalls(held[h])
  /\ held' = [held EXCEPT ![h] = NoSnap]
  /\ UNCHANGED <<view, current>>

\* The counter after snapshotWG.Add(1) for the clone and the decref of its
\* predecessor.
NewWG == wg + 1 - DoneCalls(current)

\* invalidateViewLocked: a clone replaces the current snapshot and the view's
\* reference to the old one is given back. The caller's own Acquire of the new
\* snapshot is released by didModifyFiles at once and is left out.
Replace ==
  /\ view = "open"
  /\ current < MaxSeq
  /\ refcount[current] > 0
  /\ refcount' = [RefsAfterDrop(current) EXCEPT ![current + 1] = 1]
  /\ wg' = NewWG
  /\ current' = current + 1
  /\ UNCHANGED <<view, held>>

\* View.shutdown: the view gives back its reference and forgets the snapshot.
CloseView ==
  /\ view = "open"
  /\ refcount[current] > 0
  /\ view' = "closed"
  /\ refcount' = RefsAfterDrop(current)
  /\ wg' = wg - DoneCalls(current)
  /\ current' = NoSnap
  /\ UNCHANGED held

\* Shutdown: s.view = nil.
DropView ==
  /\ view = "closed"
  /\ view' = "dropped"
  /\ UNCHANGED <<current, refcount, held, wg>>

Next ==
  \/ \E l, r \in Holders : CreateView(l, r)
  \/ \E h \in Holders : Acquire(h) \/ Release(h)
  \/ Replace
  \/ CloseView
  \/ DropView

Spec == Init /\ [][Next]_vars

-----------------------------------------------------------------------------
\* The holders of snapshot s.
HoldersOf(s) == {h \in Holders : held[h] = s}

\* The references the view itself has on s.
ViewRef(s) == IF current = s THEN 1 ELSE 0

\* The snapshots that were created and whose done function has not been called.
Live == {s \in Seqs : refcount[s] > 0}

\* A snapshot that was created and has lost its last reference.
Retired(s) ==
  /\ refcount[s] = 0
  /\ view = "open" => s < current
  /\ view # "absent"

\* The view has a snapshot exactly while it is open (view.go:28, "nil after
\* shutdown has been called").
CurrentIffOpen == view = "open" <=> current # NoSnap

\* Nothing has been created beyond the current snapshot.
NoneBeyond ==
  /\ view = "absent" => refcount = [s \in Seqs |-> 0]
  /\ view = "open" => \A s \in Seqs : s > current => refcount[s] = 0

\* The count of a snapshot is the number of release functions still out, plus
\* the view's own reference: no acquire is lost and no release counted twice
\* across replace, shutdown and readers (snapshot.go:49-51).
RefcountExact ==
  \A s \in Seqs : refcount[s] = Cardinality(HoldersOf(s)) + ViewRef(s)

\* snapshotWG counts the unreleased snapshots of the session (server.go:98-100).
WGCountsLive == wg = Cardinality(Live)

\* The assertions "non-positive refs" of Acquire and decref (snapshot.go:159
\* and :171) cannot fail: whatever is reachable has a positive count.
RefsPositive ==
  /\ \A h \in Holders : held[h] # NoSnap => refcount[held[h]] > 0
  /\ view = "open" => refcount[current] > 0

\* When Shutdown's Wait returns (the counter is zero after the view was
\* closed) no goroutine keeps a snapshot, so nothing of the session is in use
\* when the parser is closed (server.go:273-274).
DrainedMeansUnheld ==
  view \in {"closed", "dropped"} /\ wg = 0 => \A h \in Holders : held[h] = NoSnap

\* A snapshot that was destroyed is never referenced again, so its done
\* function is called at most once.
NeverRevived == [][\A s \in Seqs : Retired(s) => Retired(s)']_vars

\* The inductive invariant behind all of them.
IInv == TypeOK /\ CurrentIffOpen /\ NoneBeyond /\ RefcountExact /\ WGCountsLive
=============================================================================
