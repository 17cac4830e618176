---------------------------- MODULE SnapshotsProof ----------------------------
(***************************************************************************)
(* For every finite set of holders and every number of snapshots: the      *)
(* reference counts of Snapshots are exact, hence never non-positive when  *)
(* used, and snapshotWG is at zero when nobody keeps a snapshot, and only  *)
(* then.                                                                   *)
(***************************************************************************)
EXTENDS Snapshots, FiniteSetTheorems, TLAPS

USE DEF Seqs, NoSnap

-----------------------------------------------------------------------------
\* The sets that IInv counts are finite.
LEMMA CountedFinite ==
  ASSUME NEW s \in Seqs
  PROVE  IsFiniteSet(HoldersOf(s)) /\ IsFiniteSet(Live)
<1>1. HoldersOf(s) \in SUBSET Holders
  BY DEF HoldersOf
<1>2. Live \in SUBSET (0..MaxSeq)
  BY DEF Live
<1>3. IsFiniteSet(0..MaxSeq)
  BY FS_Interval, MaxSeqAssumption
<1> QED
  BY <1>1, <1>2, <1>3, FS_Subset, HoldersAssumption

\* A holder that is given snapshot q adds one to the holders of q only.
LEMMA HolderAdded ==
  ASSUME TypeOK, NEW h \in Holders, NEW q \in Seqs, NEW s \in Seqs,
         held[h] = NoSnap, held' = [held EXCEPT ![h] = q]
  PROVE  Cardinality(HoldersOf(s)') = Cardinality(HoldersOf(s)) + IF s = q THEN 1 ELSE 0
<1>1. CASE s = q
  <2>1. HoldersOf(s)' = HoldersOf(s) \cup {h}
    BY <1>1 DEF HoldersOf, TypeOK
  <2>2. h \notin HoldersOf(s)
    BY MaxSeqAssumption DEF HoldersOf
  <2> QED
    BY <1>1, <2>1, <2>2, CountedFinite, FS_AddElement
<1>2. CASE s # q
  <2>1. HoldersOf(s)' = HoldersOf(s)
    BY <1>2, MaxSeqAssumption DEF HoldersOf, TypeOK
  <2>2. Cardinality(HoldersOf(s)) \in Nat
    BY CountedFinite, FS_CardinalityType
  <2> QED
    BY <1>2, <2>1, <2>2
<1> QED
  BY <1>1, <1>2

\* A holder that gives its snapshot back takes one from that snapshot's holders.
LEMMA HolderRemoved ==
  ASSUME TypeOK, NEW h \in Holders, NEW s \in Seqs,
         held[h] # NoSnap, held' = [held EXCEPT ![h] = NoSnap]
  PROVE  Cardinality(HoldersOf(s)') =
           Cardinality(HoldersOf(s)) - IF s = held[h] THEN 1 ELSE 0
<1>1. CASE s = held[h]
  <2>1. HoldersOf(s)' = HoldersOf(s) \ {h}
    BY <1>1, MaxSeqAssumption DEF HoldersOf, TypeOK
  <2>2. h \in HoldersOf(s)
    BY <1>1 DEF HoldersOf
  <2> QED
    BY <1>1, <2>1, <2>2, CountedFinite, FS_RemoveElement
<1>2. CASE s # held[h]
  <2>1. HoldersOf(s)' = HoldersOf(s)
    BY <1>2, MaxSeqAssumption DEF HoldersOf, TypeOK
  <2>2. Cardinality(HoldersOf(s)) \in Nat
    BY CountedFinite, FS_CardinalityType
  <2> QED
    BY <1>2, <2>1, <2>2
<1> QED
  BY <1>1, <1>2

\* decref of a live snapshot: done() is called exactly when it leaves Live.
LEMMA LiveAfterDrop ==
  ASSUME TypeOK, WGCountsLive, NEW s \in Seqs, refcount[s] > 0,
         refcount' = RefsAfterDrop(s)
  PROVE  /\ wg - DoneCalls(s) \in Nat
         /\ wg - DoneCalls(s) = Cardinality(Live')
         /\ refcount' \in [Seqs -> Nat]
<1>1. refcount' \in [Seqs -> Nat]
  BY DEF TypeOK, RefsAfterDrop
<1>2. s \in Live /\ IsFiniteSet(Live)
  BY CountedFinite DEF Live
<1>3. CASE refcount[s] = 1
  <2>1. Live' = Live \ {s}
    BY <1>3 DEF Live, TypeOK, RefsAfterDrop
  <2>2. IsFiniteSet(Live') /\ Cardinality(Live') = Cardinality(Live) - 1
    BY <1>2, <2>1, FS_RemoveElement
  <2>3. Cardinality(Live') \in Nat
    BY <2>2, FS_CardinalityType
  <2> QED
    BY <1>1, <1>3, <2>2, <2>3 DEF DoneCalls, WGCountsLive, TypeOK
<1>4. CASE refcount[s] # 1
  <2>1. Live' = Live
    BY <1>4 DEF Live, TypeOK, RefsAfterDrop
  <2> QED
    BY <1>1, <1>4, <2>1 DEF DoneCalls, WGCountsLive, TypeOK
<1> QED
  BY <1>3, <1>4

\* Whatever is held, or is the view's, has a positive count.
LEMMA ReferencedPositive ==
  ASSUME IInv
  PROVE  RefsPositive
<1>1. ASSUME NEW h \in Holders, held[h] # NoSnap
      PROVE  refcount[held[h]] > 0
  <2> DEFINE s == held[h]
  <2>1. s \in Seqs
    BY <1>1 DEF IInv, TypeOK
  <2>2. IsFiniteSet(HoldersOf(s))
    BY <2>1, CountedFinite
  <2>3. h \in HoldersOf(s)
    BY DEF HoldersOf
  <2>4. Cardinality(HoldersOf(s)) \in Nat /\ Cardinality(HoldersOf(s)) # 0
    BY <2>2, <2>3, FS_EmptySet, FS_CardinalityType
  <2> QED
    BY <2>1, <2>4 DEF IInv, RefcountExact, ViewRef
<1>2. ASSUME view = "open" PROVE refcount[current] > 0
  <2>1. current \in Seqs
    BY <1>2 DEF IInv, TypeOK, CurrentIffOpen
  <2>2. Cardinality(HoldersOf(current)) \in Nat
    BY <2>1, CountedFinite, FS_CardinalityType
  <2> QED
    BY <2>1, <2>2 DEF IInv, RefcountExact, ViewRef
<1> QED
  BY <1>1, <1>2 DEF RefsPositive

-----------------------------------------------------------------------------
\* One lemma per action: it keeps the inductive invariant.
LEMMA CreateViewStep ==
  ASSUME IInv, NEW l \in Holders, NEW r \in Holders, CreateView(l, r)
  PROVE  IInv'
<1> USE DEF IInv
<1>1. refcount = [s \in Seqs |-> 0] /\ refcount' = [refcount EXCEPT ![0] = 3] /\ 0 \in Seqs
  BY MaxSeqAssumption DEF CreateView, NoneBeyond, RefsAtCreation
<1>2. current' = 0 /\ view' = "open" /\ wg' = wg + 1 /\ current = NoSnap
  BY DEF CreateView, CurrentIffOpen, TypeOK
<1>3. TypeOK'
  BY <1>1, <1>2 DEF TypeOK, CreateView, ViewStates
<1>4. ASSUME NEW s \in Seqs PROVE HoldersOf(s) = {}
  <2>1. refcount[s] = 0 /\ ViewRef(s) = 0
    BY <1>1, <1>2, MaxSeqAssumption DEF ViewRef
  <2>2. Cardinality(HoldersOf(s)) \in Nat
    BY CountedFinite, FS_CardinalityType
  <2> QED
    BY <2>1, <2>2, CountedFinite, FS_EmptySet DEF RefcountExact
<1>5. RefcountExact'
  <2> SUFFICES ASSUME NEW s \in Seqs
               PROVE  refcount'[s] = Cardinality(HoldersOf(s)') + ViewRef(s)'
    BY DEF RefcountExact
  <2>1. CASE s = 0
    <3>1. HoldersOf(0)' = {l} \cup {r}
      BY <1>4, <1>1 DEF HoldersOf, CreateView, TypeOK
    <3>2. IsFiniteSet({l}) /\ Cardinality({l}) = 1 /\ r \notin {l}
      BY FS_Singleton DEF CreateView
    <3>3. Cardinality({l} \cup {r}) = 2
      BY <3>2, FS_AddElement
    <3>4. HoldersOf(s)' = HoldersOf(0)' /\ ViewRef(s)' = 1
      BY <2>1, <1>2 DEF ViewRef
    <3>5. refcount'[s] = 3
      BY <2>1, <1>1
    <3> QED
      BY <3>1, <3>3, <3>4, <3>5
  <2>2. CASE s # 0
    <3>1. HoldersOf(s)' = {}
      BY <2>2, <1>4 DEF HoldersOf, CreateView, TypeOK
    <3> QED
      BY <2>2, <3>1, <1>1, <1>2, FS_EmptySet DEF ViewRef
  <2> QED
    BY <2>1, <2>2
<1>6. WGCountsLive'
  <2>1. Live = {} /\ Live' = {0}
    BY <1>1 DEF Live
  <2>2. wg = 0
    BY <2>1, FS_EmptySet DEF WGCountsLive
  <2>3. Cardinality(Live') = 1
    BY <2>1, FS_Singleton
  <2> QED
    BY <1>2, <2>2, <2>3 DEF WGCountsLive
<1>7. CurrentIffOpen' /\ NoneBeyond'
  BY <1>1, <1>2 DEF CurrentIffOpen, NoneBeyond
<1> QED
  BY <1>3, <1>5, <1>6, <1>7

LEMMA AcquireStep ==
  ASSUME IInv, NEW h \in Holders, Acquire(h)
  PROVE  IInv'
<1> USE DEF IInv
<1>1. current \in Seqs /\ refcount[current] \in Nat \ {0}
  BY DEF Acquire, CurrentIffOpen, TypeOK
<1>2. TypeOK'
  BY <1>1 DEF Acquire, TypeOK
<1>3. RefcountExact'
  <2> SUFFICES ASSUME NEW s \in Seqs
               PROVE  refcount'[s] = Cardinality(HoldersOf(s)') + ViewRef(s)'
    BY DEF RefcountExact
  <2>1. Cardinality(HoldersOf(s)') = Cardinality(HoldersOf(s)) + IF s = current THEN 1 ELSE 0
    BY <1>1, HolderAdded DEF Acquire
  <2>2. Cardinality(HoldersOf(s)) \in Nat
    BY CountedFinite, FS_CardinalityType
  <2>3. refcount[s] = Cardinality(HoldersOf(s)) + ViewRef(s) /\ ViewRef(s)' = ViewRef(s)
    BY DEF RefcountExact, ViewRef, Acquire
  <2>4. ViewRef(s) \in Nat
    BY DEF ViewRef
  <2>5. refcount'[s] = refcount[s] + IF s = current THEN 1 ELSE 0
    BY <1>1 DEF Acquire, TypeOK
  <2> QED
    BY <2>1, <2>2, <2>3, <2>4, <2>5
<1>4. WGCountsLive'
  <2>1. Live' = Live
    BY <1>1 DEF Live, Acquire, TypeOK
  <2> QED
    BY <2>1 DEF WGCountsLive, Acquire
<1>5. CurrentIffOpen' /\ NoneBeyond'
  BY <1>1, MaxSeqAssumption DEF CurrentIffOpen, NoneBeyond, Acquire, TypeOK
<1> QED
  BY <1>2, <1>3, <1>4, <1>5

LEMMA ReleaseStep ==
  ASSUME IInv, NEW h \in Holders, Release(h)
  PROVE  IInv'
<1> USE DEF IInv
<1> DEFINE q == held[h]
<1>1. q \in Seqs /\ refcount[q] \in Nat \ {0}
  BY DEF Release, TypeOK
<1>2. refcount' = RefsAfterDrop(q) /\ wg' = wg - DoneCalls(q)
  BY DEF Release
<1>3. TypeOK' /\ WGCountsLive'
  BY <1>1, <1>2, LiveAfterDrop DEF Release, TypeOK, WGCountsLive
<1>4. RefcountExact'
  <2> SUFFICES ASSUME NEW s \in Seqs
               PROVE  refcount'[s] = Cardinality(HoldersOf(s)') + ViewRef(s)'
    BY DEF RefcountExact
  <2>1. Cardinality(HoldersOf(s)') = Cardinality(HoldersOf(s)) - IF s = q THEN 1 ELSE 0
    BY HolderRemoved DEF Release
  <2>2. Cardinality(HoldersOf(s)) \in Nat
    BY CountedFinite, FS_CardinalityType
  <2>3. refcount[s] = Cardinality(HoldersOf(s)) + ViewRef(s) /\ ViewRef(s)' = ViewRef(s)
    BY DEF RefcountExact, ViewRef, Release
  <2>4. ViewRef(s) \in Nat
    BY DEF ViewRef
  <2>5. refcount'[s] = refcount[s] - IF s = q THEN 1 ELSE 0
    BY <1>1, <1>2 DEF RefsAfterDrop, TypeOK
  <2> QED
    BY <2>1, <2>2, <2>3, <2>4, <2>5
<1>5. CurrentIffOpen' /\ NoneBeyond'
  <2>1. \A s \in Seqs : refcount[s] = 0 => refcount'[s] = 0
    BY <1>1, <1>2 DEF RefsAfterDrop, TypeOK
  <2>2. view # "absent"
    BY <1>1 DEF NoneBeyond
  <2> QED
    BY <2>1, <2>2 DEF CurrentIffOpen, NoneBeyond, Release
<1> QED
  BY <1>3, <1>4, <1>5

LEMMA ReplaceStep ==
  ASSUME IInv, Replace
  PROVE  IInv'
<1> USE DEF IInv
<1> DEFINE n == current + 1
           dropped == RefsAfterDrop(current)
<1>1. current \in Seqs /\ n \in Seqs /\ current < n /\ refcount[current] \in Nat \ {0}
  BY MaxSeqAssumption DEF Replace, CurrentIffOpen, TypeOK
<1>2. refcount[n] = 0 /\ refcount' = [dropped EXCEPT ![n] = 1]
  BY <1>1 DEF Replace, NoneBeyond
<1>3. dropped \in [Seqs -> Nat]
  BY <1>1 DEF TypeOK, RefsAfterDrop
<1>4. HoldersOf(n) = {}
  <2>1. Cardinality(HoldersOf(n)) \in Nat
    BY <1>1, CountedFinite, FS_CardinalityType
  <2>2. ViewRef(n) = 0
    BY <1>1 DEF ViewRef
  <2>3. refcount[n] = Cardinality(HoldersOf(n)) + ViewRef(n)
    BY <1>1 DEF RefcountExact
  <2> QED
    BY <1>1, <1>2, <2>1, <2>2, <2>3, CountedFinite, FS_EmptySet
<1>5. RefcountExact'
  <2> SUFFICES ASSUME NEW s \in Seqs
               PROVE  refcount'[s] = Cardinality(HoldersOf(s)') + ViewRef(s)'
    BY DEF RefcountExact
  <2>1. HoldersOf(s)' = HoldersOf(s) /\ Cardinality(HoldersOf(s)) \in Nat
    BY CountedFinite, FS_CardinalityType DEF HoldersOf, Replace
  <2>2. refcount[s] = Cardinality(HoldersOf(s)) + ViewRef(s)
    BY DEF RefcountExact
  <2>3. CASE s = n
    <3>1. refcount'[s] = 1 /\ ViewRef(s)' = 1
      BY <2>3, <1>2, <1>3 DEF ViewRef, Replace
    <3>2. Cardinality(HoldersOf(s)) = 0
      BY <2>3, <1>4, FS_EmptySet
    <3> QED
      BY <2>1, <3>1, <3>2
  <2>4. CASE s = current
    <3>1. refcount'[s] = refcount[s] - 1
      BY <2>4, <1>1, <1>2, <1>3 DEF RefsAfterDrop, TypeOK
    <3>2. ViewRef(s) = 1 /\ ViewRef(s)' = 0
      BY <2>4, <1>1 DEF ViewRef, Replace
    <3> QED
      BY <2>1, <2>2, <3>1, <3>2
  <2>5. CASE s # n /\ s # current
    <3>1. refcount'[s] = refcount[s]
      BY <2>5, <1>1, <1>2, <1>3 DEF RefsAfterDrop, TypeOK
    <3>2. ViewRef(s) = 0 /\ ViewRef(s)' = 0
      BY <2>5, <1>1 DEF ViewRef, Replace
    <3> QED
      BY <2>1, <2>2, <3>1, <3>2
  <2> QED
    BY <2>3, <2>4, <2>5
<1>6. TypeOK' /\ WGCountsLive'
  <2> DEFINE L == {s \in Seqs : dropped[s] > 0}
  <2>1. wg - DoneCalls(current) \in Nat /\ wg - DoneCalls(current) = Cardinality(L) /\ IsFiniteSet(L)
    <3>1. CASE refcount[current] = 1
      <4>1. L = Live \ {current} /\ current \in Live
        BY <3>1, <1>1 DEF Live, TypeOK, RefsAfterDrop
      <4>2. IsFiniteSet(L) /\ Cardinality(L) = Cardinality(Live) - 1
        BY <1>1, <4>1, CountedFinite, FS_RemoveElement
      <4> QED
        BY <3>1, <4>2, FS_CardinalityType DEF DoneCalls, WGCountsLive, TypeOK
    <3>2. CASE refcount[current] # 1
      <4>1. L = Live
        BY <3>2, <1>1 DEF Live, TypeOK, RefsAfterDrop
      <4>2. DoneCalls(current) = 0
        BY <3>2 DEF DoneCalls
      <4>3. IsFiniteSet(L) /\ wg \in Nat /\ wg = Cardinality(L)
        BY <1>1, <4>1, CountedFinite DEF WGCountsLive, TypeOK
      <4> HIDE DEF L
      <4> QED
        BY <4>2, <4>3
    <3> QED
      BY <3>1, <3>2
  <2>2. Live' = L \cup {n} /\ n \notin L
    <3>1. dropped[n] = 0
      BY <1>1, <1>2 DEF RefsAfterDrop, TypeOK
    <3> QED
      BY <1>1, <1>2, <1>3, <3>1 DEF Live
  <2>3. Cardinality(Live') = Cardinality(L) + 1
    BY <2>1, <2>2, FS_AddElement
  <2>4. wg' = Cardinality(Live') /\ wg' \in Nat
    <3>1. DoneCalls(current) \in Nat /\ wg \in Nat
      BY DEF DoneCalls, TypeOK
    <3>2. wg' = (wg - DoneCalls(current)) + 1
      BY <3>1 DEF Replace, NewWG
    <3> HIDE DEF L
    <3> QED
      BY <2>1, <2>3, <3>2
  <2> QED
    BY <1>1, <1>2, <1>3, <2>4 DEF TypeOK, WGCountsLive, Replace
<1>7. CurrentIffOpen' /\ NoneBeyond'
  <2>1. \A s \in Seqs : s > n => refcount'[s] = 0
    BY <1>1, <1>2, <1>3, MaxSeqAssumption DEF NoneBeyond, RefsAfterDrop, TypeOK, Replace
  <2> QED
    BY <1>1, <2>1 DEF CurrentIffOpen, NoneBeyond, Replace
<1> QED
  BY <1>5, <1>6, <1>7

LEMMA CloseViewStep ==
  ASSUME IInv, CloseView
  PROVE  IInv'
<1> USE DEF IInv
<1>1. current \in Seqs /\ refcount[current] \in Nat \ {0}
  BY DEF CloseView, CurrentIffOpen, TypeOK
<1>2. refcount' = RefsAfterDrop(current) /\ wg' = wg - DoneCalls(current) /\ current' = NoSnap
  BY DEF CloseView
<1>3. TypeOK' /\ WGCountsLive'
  BY <1>1, <1>2, LiveAfterDrop DEF CloseView, TypeOK, WGCountsLive, ViewStates
<1>4. RefcountExact'
  <2> SUFFICES ASSUME NEW s \in Seqs
               PROVE  refcount'[s] = Cardinality(HoldersOf(s)') + ViewRef(s)'
    BY DEF RefcountExact
  <2>1. HoldersOf(s)' = HoldersOf(s) /\ Cardinality(HoldersOf(s)) \in Nat
    BY CountedFinite, FS_CardinalityType DEF HoldersOf, CloseView
  <2>2. refcount[s] = Cardinality(HoldersOf(s)) + ViewRef(s)
    BY DEF RefcountExact
  <2>3. ViewRef(s)' = 0
    BY <1>2, MaxSeqAssumption DEF ViewRef
  <2>4. refcount'[s] = refcount[s] - ViewRef(s)
    BY <1>1, <1>2 DEF RefsAfterDrop, TypeOK, ViewRef
  <2>5. ViewRef(s) \in Nat
    BY DEF ViewRef
  <2> QED
    BY <2>1, <2>2, <2>3, <2>4, <2>5
<1>5. CurrentIffOpen' /\ NoneBeyond'
  BY <1>2 DEF CurrentIffOpen, NoneBeyond, CloseView
<1> QED
  BY <1>3, <1>4, <1>5

\* Steps that leave every count and holder alone.
LEMMA QuietStep ==
  ASSUME IInv, UNCHANGED <<current, refcount, held, wg>>,
         UNCHANGED view \/ (view = "closed" /\ view' = "dropped")
  PROVE  IInv'
<1> USE DEF IInv
<1>1. \A s \in Seqs : HoldersOf(s)' = HoldersOf(s) /\ ViewRef(s)' = ViewRef(s)
  BY DEF HoldersOf, ViewRef
<1>2. Live' = Live
  BY DEF Live
<1>3. RefcountExact' /\ WGCountsLive'
  BY <1>1, <1>2 DEF RefcountExact, WGCountsLive
<1>4. TypeOK' /\ CurrentIffOpen' /\ NoneBeyond'
  BY DEF TypeOK, ViewStates, CurrentIffOpen, NoneBeyond
<1> QED
  BY <1>3, <1>4

LEMMA InitIInv == Init => IInv
<1> SUFFICES ASSUME Init PROVE IInv
  OBVIOUS
<1>1. TypeOK /\ CurrentIffOpen /\ NoneBeyond
  BY DEF Init, TypeOK, ViewStates, CurrentIffOpen, NoneBeyond
<1>2. RefcountExact
  <2> SUFFICES ASSUME NEW s \in Seqs
               PROVE  refcount[s] = Cardinality(HoldersOf(s)) + ViewRef(s)
    BY DEF RefcountExact
  <2>1. HoldersOf(s) = {} /\ ViewRef(s) = 0 /\ refcount[s] = 0
    BY MaxSeqAssumption DEF Init, HoldersOf, ViewRef
  <2> QED
    BY <2>1, FS_EmptySet
<1>3. WGCountsLive
  <2>1. Live = {}
    BY DEF Init, Live
  <2> QED
    BY <2>1, FS_EmptySet DEF Init, WGCountsLive
<1> QED
  BY <1>1, <1>2, <1>3 DEF IInv

LEMMA NextIInv == IInv /\ [Next]_vars => IInv'
<1> SUFFICES ASSUME IInv, [Next]_vars PROVE IInv'
  OBVIOUS
<1>1. ASSUME NEW l \in Holders, NEW r \in Holders, CreateView(l, r) PROVE IInv'
  BY <1>1, CreateViewStep
<1>2. ASSUME NEW h \in Holders, Acquire(h) PROVE IInv'
  BY <1>2, AcquireStep
<1>3. ASSUME NEW h \in Holders, Release(h) PROVE IInv'
  BY <1>3, ReleaseStep
<1>4. CASE Replace
  BY <1>4, ReplaceStep
<1>5. CASE CloseView
  BY <1>5, CloseViewStep
<1>6. CASE DropView
  BY <1>6, QuietStep DEF DropView
<1>7. CASE UNCHANGED vars
  BY <1>7, QuietStep DEF vars
<1> QED
  BY <1>1, <1>2, <1>3, <1>4, <1>5, <1>6, <1>7 DEF Next

-----------------------------------------------------------------------------
\* Types, exact reference counts and snapshotWG, in every session of any length
\* and with any finite number of holders.
THEOREM CountsAlwaysExact == Spec => []IInv
<1> QED
  BY InitIInv, NextIInv, PTL DEF Spec

\* The assertions "non-positive refs" of snapshot.go never fail.
THEOREM NeverNonPositive == Spec => []RefsPositive
<1> QED
  BY CountsAlwaysExact, ReferencedPositive, PTL

\* snapshotWG at zero after the view was closed: nobody keeps a snapshot.
THEOREM WaitMeansUnheld == Spec => []DrainedMeansUnheld
<1>1. IInv => DrainedMeansUnheld
  <2> SUFFICES ASSUME IInv, wg = 0, NEW h \in Holders, held[h] # NoSnap PROVE FALSE
    BY DEF DrainedMeansUnheld
  <2>1. held[h] \in Live
    BY ReferencedPositive DEF RefsPositive, IInv, TypeOK, Live
  <2>2. IsFiniteSet(Live) /\ Cardinality(Live) = 0
    BY CountedFinite, MaxSeqAssumption DEF IInv, WGCountsLive
  <2> QED
    BY <2>1, <2>2, FS_EmptySet
<1> QED
  BY <1>1, CountsAlwaysExact, PTL

\* While Shutdown's Wait goes on there is somebody to wait for: no count has been
\* lost, so that the wait group cannot stay above zero by itself (server.go:273).
WaitedFor == view \in {"closed", "dropped"} /\ wg # 0 => \E h \in Holders : held[h] # NoSnap

\* A wait group that is not drained counts somebody's snapshot.
THEOREM WaitMeansHeld == Spec => []WaitedFor
<1>1. IInv => WaitedFor
  <2> SUFFICES ASSUME IInv, view \in {"closed", "dropped"}, wg # 0
               PROVE  \E h \in Holders : held[h] # NoSnap
    BY DEF WaitedFor
  <2>1. PICK s \in Seqs : refcount[s] > 0
    <3>1. Cardinality(Live) # 0
      BY DEF IInv, WGCountsLive
    <3> QED
      BY <3>1, FS_EmptySet DEF Live
  <2>2. ViewRef(s) = 0
    BY DEF IInv, CurrentIffOpen, ViewRef, Seqs, NoSnap
  <2>3. HoldersOf(s) # {}
    <3>1. refcount[s] = Cardinality(HoldersOf(s)) + 0
      BY <2>2 DEF IInv, RefcountExact
    <3> QED
      BY <2>1, <3>1, FS_EmptySet
  <2> QED
    BY <2>3, MaxSeqAssumption DEF HoldersOf, Seqs, NoSnap
<1> QED
  BY <1>1, CountsAlwaysExact, PTL

\* A destroyed snapshot stays destroyed: done is called once for each.
THEOREM DestroyedForever == Spec => NeverRevived
<1>1. ASSUME IInv, Next, NEW s \in Seqs, Retired(s) PROVE Retired(s)'
  <2> USE DEF IInv
  <2>1. refcount[s] = 0 /\ view # "absent" /\ (view = "open" => s < current)
    BY <1>1 DEF Retired
  <2>2. ASSUME NEW h \in Holders, Acquire(h) PROVE Retired(s)'
    BY <1>1, <2>1, <2>2 DEF Acquire, Retired, TypeOK
  <2>3. ASSUME NEW h \in Holders, Release(h) PROVE Retired(s)'
    BY <1>1, <2>1, <2>3 DEF Release, RefsAfterDrop, Retired, TypeOK
  <2>4. CASE Replace
    BY <1>1, <2>1, <2>4 DEF Replace, RefsAfterDrop, Retired, TypeOK, CurrentIffOpen
  <2>5. CASE CloseView
    BY <1>1, <2>1, <2>5 DEF CloseView, RefsAfterDrop, Retired, TypeOK, CurrentIffOpen
  <2>6. CASE DropView
    BY <2>1, <2>6 DEF DropView, Retired
  <2>7. ASSUME NEW l \in Holders, NEW r \in Holders, CreateView(l, r) PROVE Retired(s)'
    BY <2>1, <2>7 DEF CreateView
  <2> QED
    BY <1>1, <2>2, <2>3, <2>4, <2>5, <2>6, <2>7 DEF Next
<1>2. IInv /\ [Next]_vars => [\A s \in Seqs : Retired(s) => Retired(s)']_vars
  BY <1>1
<1> QED
  BY <1>2, CountsAlwaysExact, PTL DEF Spec, NeverRevived
=============================================================================
