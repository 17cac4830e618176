---------------------------- MODULE LoggerProof ----------------------------
(***************************************************************************)
(* Safety of the log, for any goroutines, any queue and any number of      *)
(* loggers and records: what a logger has formatted is what it was told,   *)
(* records reach the client whole and in order, and none is left behind.   *)
(***************************************************************************)
EXTENDS Logger, SequenceTheorems, FiniteSetTheorems, TLAPS

\* TypeOK with what is a sequence, a function or a set of one.
Shapes ==
  /\ heap \in Seq(Arrays)
  /\ inHand \in [Goroutines -> SUBSET Records]
  /\ \A g \in Goroutines :
       inHand[g] = {} \/ \E r \in Records : inHand[g] = {r} /\ r.from = g /\ r.n = records[g]
  /\ sending = {} \/ (senders = 1 /\ \E r \in Records : sending = {r})

\* Of every goroutine, the records that are neither sent nor still to be made are on
\* their way, each once.
Numbered ==
  /\ \A g \in Goroutines : sent[g] <= records[g]
  /\ \A r \in InFlight : sent[r.from] < r.n /\ r.n <= records[r.from]
  /\ \A g \in Goroutines, n \in 1..MaxRecords :
       sent[g] < n /\ n <= records[g] => \E r \in InFlight : r.from = g /\ r.n = n

\* The records on their way are in the order in which they were made.
Ordered ==
  /\ \A i, j \in DOMAIN queue :
       i < j /\ queue[i].from = queue[j].from => queue[i].n < queue[j].n
  /\ \A r \in sending, i \in DOMAIN queue : r.from = queue[i].from => r.n < queue[i].n
  /\ \A g \in Goroutines : \A r \in inHand[g] :
       /\ \A i \in DOMAIN queue : queue[i].from = g => queue[i].n < r.n
       /\ \A s \in sending : s.from = g => s.n < r.n

Inv == TypeOK /\ Shapes /\ LoggersIntact /\ RecordsComplete /\ Numbered /\ Ordered

\* What RecordsComplete says of one record.
Complete(r) ==
  IF r.own THEN r.body = Append(r.told, 0) ELSE SubSeq(r.told, 1, Len(r.body)) = r.body

\* Appending to the end of a concatenation.
LEMMA AppendConcat ==
  ASSUME NEW S, NEW s \in Seq(S), NEW t \in Seq(S), NEW e \in S
  PROVE  /\ s \o Append(t, e) = Append(s \o t, e)
         /\ s \o Append(t, e) \in Seq(S)
<1>1. <<e>> \in Seq(S) /\ s \o t \in Seq(S)
  BY ConcatProperties
<1>2. Append(t, e) = t \o <<e>> /\ Append(s \o t, e) = (s \o t) \o <<e>>
  BY <1>1, AppendIsConcat
<1>3. (s \o t) \o <<e>> = s \o (t \o <<e>>)
  BY <1>1, ConcatAssociative
<1> QED
  BY <1>1, <1>2, <1>3, AppendProperties

LEMMA Bounds == MaxGiven \in Nat /\ MaxRecords \in Nat /\ MaxSpare \in Nat
  BY BoundsAssumption

LEMMA InitInv == Init => Inv
<1> SUFFICES ASSUME Init PROVE Inv
  OBVIOUS
<1>0. \A g \in Goroutines : inHand[g] = {}
  BY DEF Init
<1>1. InFlight = {}
  BY <1>0 DEF Init, InFlight
<1>2. <<>> \in Seq(Things) /\ Len(<<>>) = 0
  BY EmptySeq
<1>3. /\ heap[1] = [data |-> <<>>, cap |-> 0] /\ DOMAIN heap = {1} /\ heap \in Seq(Arrays)
  BY <1>2 DEF Init, Arrays
<1>4. /\ DOMAIN logger = {Main}
      /\ logger[Main] = [arr |-> 1, len |-> 0, groups |-> <<>>, told |-> <<>>]
  BY DEF Init
<1> DEFINE l == logger[Main]
<1>11. l.arr = 1 /\ l.len = 0 /\ l.groups = <<>> /\ l.told = <<>>
  BY <1>4
<1>12. l \in Loggers
  BY <1>2, <1>4 DEF Loggers
<1>13. \A g \in DOMAIN logger : logger[g] = l
  BY <1>4
<1> HIDE DEF l
<1>5. Shapes
  BY <1>0, <1>3 DEF Init, Shapes
<1>6. LoggersIntact
  <2>1. Preformatted(l) = <<>>
    BY <1>11, SubSeqEmpty DEF Preformatted
  <2>2. <<>> \o <<>> = <<>>
    BY <1>2, ConcatEmptySeq
  <2> QED
    BY <1>11, <1>13, <2>1, <2>2 DEF LoggersIntact
<1>7. TypeOK
  <2>1. Cardinality({}) = 0
    BY FS_EmptySet
  <2>2. \A i \in DOMAIN heap : heap[i] \in Arrays /\ Len(heap[i].data) <= heap[i].cap
    BY <1>2, <1>3 DEF Arrays
  <2>3. \A g \in DOMAIN logger :
          /\ logger[g] \in Loggers
          /\ logger[g].arr \in DOMAIN heap
          /\ logger[g].len <= Len(heap[logger[g].arr].data)
    BY <1>2, <1>3, <1>11, <1>12, <1>13
  <2>4. DOMAIN logger \subseteq Goroutines
    BY <1>4, MainAssumption
  <2>5. \A g \in Goroutines : inHand[g] \subseteq Records /\ Cardinality(inHand[g]) <= 1
    BY <1>0, <2>1
  <2>6. queue \in Seq(Records) /\ Len(queue) <= QueueCap
    BY EmptySeq, QueueAssumption DEF Init
  <2>7. sending \subseteq Records /\ Cardinality(sending) <= senders /\ senders \in 0..1
    BY <2>1 DEF Init
  <2>8. /\ given \in 0..MaxGiven /\ records \in [Goroutines -> 0..MaxRecords]
        /\ sent \in [Goroutines -> 0..MaxRecords]
    BY Bounds DEF Init
  <2> QED
    BY <2>2, <2>3, <2>4, <2>5, <2>6, <2>7, <2>8 DEF TypeOK
<1>8. RecordsComplete
  BY <1>1 DEF RecordsComplete
<1>9. Numbered
  BY <1>1, Bounds DEF Init, Numbered
<1>10. Ordered
  BY <1>0 DEF Init, Ordered
<1> QED
  BY <1>5, <1>6, <1>7, <1>8, <1>9, <1>10 DEF Inv

-----------------------------------------------------------------------------
(***************************************************************************)
(* Loggers.                                                                *)
(***************************************************************************)
\* A step of a logger leaves the records as they are.
LEMMA SameRecords ==
  ASSUME Inv, UNCHANGED <<records, inHand, queueVars>>
  PROVE  /\ RecordsComplete' /\ Numbered' /\ Ordered'
         /\ inHand' \in [Goroutines -> SUBSET Records]
         /\ \A g \in Goroutines : \/ inHand'[g] = {}
                                  \/ \E r \in Records : inHand'[g] = {r} /\ r.from = g /\ r.n = records'[g]
         /\ sending' = {} \/ (senders' = 1 /\ \E r \in Records : sending' = {r})
<1>1. InFlight' = InFlight
  BY DEF InFlight, queueVars
<1>2. RecordsComplete'
  BY <1>1 DEF Inv, RecordsComplete
<1>3. Numbered' /\ Ordered'
  BY <1>1 DEF Inv, Numbered, Ordered, queueVars
<1> QED
  BY <1>2, <1>3 DEF Inv, Shapes, queueVars

\* The parts of TypeOK about records.
RecordTypes ==
  /\ records \in [Goroutines -> 0..MaxRecords]
  /\ \A g \in Goroutines : inHand[g] \subseteq Records /\ Cardinality(inHand[g]) <= 1
  /\ queue \in Seq(Records) /\ Len(queue) <= QueueCap
  /\ senders \in 0..1
  /\ sending \subseteq Records /\ Cardinality(sending) <= senders
  /\ sent \in [Goroutines -> 0..MaxRecords]
\* And those about loggers.
LoggerTypes ==
  /\ \A i \in DOMAIN heap : heap[i] \in Arrays /\ Len(heap[i].data) <= heap[i].cap
  /\ DOMAIN logger \subseteq Goroutines
  /\ \A g \in DOMAIN logger :
       /\ logger[g] \in Loggers
       /\ logger[g].arr \in DOMAIN heap
       /\ logger[g].len <= Len(heap[logger[g].arr].data)
  /\ given \in 0..MaxGiven

LEMMA TypeParts == TypeOK <=> LoggerTypes /\ RecordTypes
  BY DEF TypeOK, LoggerTypes, RecordTypes

\* What a logger step has to show.
LEMMA LoggerStep ==
  ASSUME Inv, UNCHANGED <<records, inHand, queueVars>>,
         heap' \in Seq(Arrays), LoggerTypes', LoggersIntact'
  PROVE  Inv'
<1>1. RecordTypes'
  BY TypeParts DEF Inv, RecordTypes, queueVars
<1>2. TypeOK'
  BY <1>1, TypeParts DEF TypeOK, LoggerTypes, RecordTypes
<1>3. Shapes'
  BY SameRecords DEF Shapes
<1> QED
  BY <1>2, <1>3, SameRecords DEF Inv

LEMMA ForkInv ==
  ASSUME Inv, NEW g \in Goroutines, NEW child \in Goroutines, Fork(g, child)
  PROVE  Inv'
<1>1. /\ g \in DOMAIN logger
      /\ logger' = [h \in DOMAIN logger \cup {child} |-> IF h = child THEN logger[g] ELSE logger[h]]
      /\ UNCHANGED <<heap, given, records, inHand, queueVars>>
  BY DEF Fork, Running
<1>2. \A h \in DOMAIN logger' : \E f \in DOMAIN logger : logger'[h] = logger[f]
  BY <1>1
<1>3. DOMAIN logger' \subseteq Goroutines
  BY <1>1 DEF Inv, TypeOK
<1>4. LoggerTypes'
  BY <1>1, <1>2, <1>3 DEF Inv, TypeOK, LoggerTypes
<1>5. LoggersIntact'
  BY <1>1, <1>2 DEF Inv, LoggersIntact, Preformatted
<1>6. heap' \in Seq(Arrays)
  BY <1>1 DEF Inv, Shapes
<1> QED
  BY <1>1, <1>4, <1>5, <1>6, LoggerStep

LEMMA WithGroupInv ==
  ASSUME Inv, NEW g \in Goroutines, WithGroup(g)
  PROVE  Inv'
<1> DEFINE l == logger[g]
           m == logger'[g]
           x == given + 1
<1>1. /\ g \in DOMAIN logger /\ given < MaxGiven /\ given' = x
      /\ logger' = [logger EXCEPT ![g].groups = Append(@, x), ![g].told = Append(@, x)]
      /\ UNCHANGED <<heap, records, inHand, queueVars>>
  BY DEF WithGroup, Running
<1>2. /\ l \in Loggers /\ l.arr \in DOMAIN heap /\ l.len <= Len(heap[l.arr].data)
      /\ heap[l.arr] \in Arrays /\ x \in Things
      /\ Preformatted(l) \o l.groups = l.told
  BY <1>1, Bounds DEF Inv, TypeOK, LoggersIntact, Things
<1>3. /\ DOMAIN logger' = DOMAIN logger
      /\ \A h \in DOMAIN logger \ {g} : logger'[h] = logger[h]
      /\ m = [l EXCEPT !.groups = Append(@, x), !.told = Append(@, x)]
  BY <1>1
<1>4. /\ l.groups \in Seq(Things) /\ l.told \in Seq(Things) /\ l.len \in Nat
      /\ heap[l.arr].data \in Seq(Things)
  BY <1>2 DEF Loggers, Arrays
<1>5. m = [arr |-> l.arr, len |-> l.len, groups |-> Append(l.groups, x), told |-> Append(l.told, x)]
  BY <1>2, <1>3 DEF Loggers
<1>6. m \in Loggers
  BY <1>2, <1>4, <1>5, AppendProperties DEF Loggers
<1>7. m.arr = l.arr /\ m.len = l.len /\ m.groups = Append(l.groups, x) /\ m.told = Append(l.told, x)
  BY <1>5
<1> HIDE DEF l, m, x
<1>8. LoggerTypes'
  <2>1. given' \in 0..MaxGiven
    BY <1>1, <1>2, Bounds DEF Things
  <2>2. \A h \in DOMAIN logger' : /\ logger'[h] \in Loggers
                                  /\ logger'[h].arr \in DOMAIN heap'
                                  /\ logger'[h].len <= Len(heap'[logger'[h].arr].data)
    BY <1>1, <1>2, <1>3, <1>6, <1>7 DEF m, Inv, TypeOK
  <2> QED
    BY <1>1, <1>3, <2>1, <2>2 DEF Inv, TypeOK, LoggerTypes
<1>9. LoggersIntact'
  <2>1. Preformatted(l) \in Seq(Things)
    <3>1. \A i \in 1..l.len : heap[l.arr].data[i] \in Things
      BY <1>2, <1>4, ElementOfSeq, LenProperties
    <3> QED
      BY <1>4, <3>1, SubSeqProperties DEF Preformatted
  <2>2. Preformatted(l) \o Append(l.groups, x) = Append(Preformatted(l) \o l.groups, x)
    <3>1. \A s, t \in Seq(Things), e \in Things : s \o Append(t, e) = Append(s \o t, e)
      BY AppendConcat
    <3> QED
      BY <1>2, <1>4, <2>1, <3>1
  <2>3. Preformatted(l) \o Append(l.groups, x) = Append(l.told, x)
    BY <1>2, <2>2
  <2>4. \A h \in DOMAIN logger \ {g} : (Preformatted(logger[h]) \o logger[h].groups = logger[h].told)'
    BY <1>1, <1>3 DEF Inv, LoggersIntact, Preformatted
  <2>5. (Preformatted(logger[g]) \o logger[g].groups = logger[g].told)'
    BY <1>1, <1>7, <2>3 DEF Preformatted, m
  <2> QED
    BY <1>3, <2>4, <2>5 DEF LoggersIntact
<1>10. heap' \in Seq(Arrays)
  BY <1>1 DEF Inv, Shapes
<1> QED
  BY <1>1, <1>8, <1>9, <1>10, LoggerStep

\* The bytes of a logger are things it was told.
LEMMA PreformattedType ==
  ASSUME Inv, NEW g \in DOMAIN logger
  PROVE  /\ Preformatted(logger[g]) \in Seq(Things)
         /\ Len(Preformatted(logger[g])) = logger[g].len
         /\ logger[g].groups \in Seq(Things) /\ logger[g].told \in Seq(Things)
         /\ logger[g].len \in Nat
         /\ Preformatted(logger[g]) \o logger[g].groups = logger[g].told
<1> DEFINE l == logger[g]
<1>1. /\ l \in Loggers /\ l.arr \in DOMAIN heap /\ l.len <= Len(heap[l.arr].data)
      /\ heap[l.arr] \in Arrays
      /\ Preformatted(l) \o l.groups = l.told
  BY DEF Inv, TypeOK, LoggersIntact
<1>2. /\ l.groups \in Seq(Things) /\ l.told \in Seq(Things) /\ l.len \in Nat
      /\ heap[l.arr].data \in Seq(Things)
  BY <1>1 DEF Loggers, Arrays
<1> HIDE DEF l
<1>3. \A i \in 1..l.len : heap[l.arr].data[i] \in Things
  BY <1>1, <1>2, ElementOfSeq, LenProperties
<1>4. Preformatted(l) \in Seq(Things) /\ Len(Preformatted(l)) = l.len
  BY <1>2, <1>3, SubSeqProperties DEF Preformatted
<1> QED
  BY <1>1, <1>2, <1>4 DEF l

\* slices.Clip leaves no room, so append always takes a new array.
LEMMA WithAttrsInv ==
  ASSUME Inv, NEW g \in Goroutines, NEW spare \in 0..MaxSpare, WithAttrs(g, spare)
  PROVE  Inv'
<1> DEFINE l == logger[g]
           x == given + 1
<1>1. /\ g \in DOMAIN logger /\ given < MaxGiven /\ given' = x
      /\ UNCHANGED <<records, inHand, queueVars>>
  BY DEF WithAttrs, Running
<1>2. /\ Preformatted(l) \in Seq(Things) /\ Len(Preformatted(l)) = l.len
      /\ l.groups \in Seq(Things) /\ l.told \in Seq(Things) /\ l.len \in Nat
      /\ Preformatted(l) \o l.groups = l.told
  BY <1>1, PreformattedType
<1>3. x \in Things
  BY <1>1, Bounds DEF Inv, TypeOK, Things
<1> HIDE DEF l, x
<1> DEFINE new == Append(l.groups, x)
           len == l.len + Len(new)
<1>4. new \in Seq(Things) /\ Len(new) = Len(l.groups) + 1 /\ Len(l.groups) \in Nat
  BY <1>2, <1>3, AppendProperties, LenProperties
<1>5. len \in Nat /\ ~(len <= RoomIn(l))
  <2> HIDE DEF new
  <2> QED
    BY <1>2, <1>4 DEF RoomIn
<1> DEFINE pre  == Preformatted(l)
           data == pre \o new
<1>7. data \in Seq(Things) /\ Len(data) = len
  <2> HIDE DEF new, pre
  <2>1. pre \in Seq(Things) /\ Len(pre) = l.len /\ new \in Seq(Things)
    BY <1>2, <1>4 DEF pre
  <2> QED
    BY <2>1, ConcatProperties
<1>9. Append(l.told, x) \in Seq(Things) /\ data = Append(l.told, x)
  <2>1. \A s, t \in Seq(Things), e \in Things :
          Append(s, e) \in Seq(Things) /\ s \o Append(t, e) = Append(s \o t, e)
    BY AppendConcat, AppendProperties
  <2>2. pre \in Seq(Things) /\ pre \o l.groups = l.told
    BY <1>2
  <2>3. pre \o Append(l.groups, x) = Append(pre \o l.groups, x)
    <3> HIDE DEF pre
    <3> QED
      BY <1>2, <1>3, <2>1, <2>2
  <2> QED
    BY <1>2, <1>3, <2>1, <2>2, <2>3
<1> DEFINE m == [arr |-> Len(heap) + 1, len |-> len, groups |-> <<>>, told |-> Append(l.told, x)]
           a == [data |-> data, cap |-> len + spare]
<1>6. heap' = Append(heap, a) /\ logger' = [logger EXCEPT ![g] = m]
  BY <1>5 DEF WithAttrs, l, x
<1> HIDE DEF data, len
<1>8. a \in Arrays /\ a.data = data /\ a.cap = len + spare /\ len + spare \in Nat
  BY <1>5, <1>7, Bounds DEF Arrays
<1>10. /\ heap \in Seq(Arrays) /\ Len(heap) \in Nat /\ DOMAIN heap = 1..Len(heap)
       /\ heap' \in Seq(Arrays) /\ DOMAIN heap' = 1..(Len(heap) + 1)
       /\ heap'[Len(heap) + 1] = a /\ \A i \in DOMAIN heap : heap'[i] = heap[i]
  <2>1. heap \in Seq(Arrays)
    BY DEF Inv, Shapes
  <2>2. Len(heap) \in Nat /\ DOMAIN heap = 1..Len(heap)
    BY <2>1, LenProperties
  <2> HIDE DEF a
  <2>3. /\ heap' \in Seq(Arrays) /\ Len(heap') = Len(heap) + 1
        /\ heap'[Len(heap) + 1] = a /\ \A i \in 1..Len(heap) : heap'[i] = heap[i]
    BY <1>6, <1>8, <2>1, AppendProperties
  <2>4. DOMAIN heap' = 1..Len(heap')
    BY <2>3, LenProperties
  <2> QED
    BY <2>1, <2>2, <2>3, <2>4
<1>11. /\ m \in Loggers /\ m.arr = Len(heap) + 1 /\ m.len = len
       /\ m.groups = <<>> /\ m.told = Append(l.told, x)
  BY <1>5, <1>9, <1>10, EmptySeq DEF Loggers
<1> HIDE DEF a, m
<1>12. /\ DOMAIN logger' = DOMAIN logger /\ logger'[g] = m
       /\ \A h \in DOMAIN logger \ {g} : logger'[h] = logger[h]
  BY <1>1, <1>6
<1>13. \A h \in DOMAIN logger \ {g} : logger[h] \in Loggers /\ logger[h].arr \in DOMAIN heap
                                      /\ logger[h].len <= Len(heap[logger[h].arr].data)
  BY DEF Inv, TypeOK
<1>14. LoggerTypes'
  <2>1. given' \in 0..MaxGiven
    BY <1>1, <1>3, Bounds DEF Things
  <2>2. \A i \in DOMAIN heap' : heap'[i] \in Arrays /\ Len(heap'[i].data) <= heap'[i].cap
    <3> SUFFICES ASSUME NEW i \in DOMAIN heap'
                 PROVE  heap'[i] \in Arrays /\ Len(heap'[i].data) <= heap'[i].cap
      OBVIOUS
    <3>1. CASE i = Len(heap) + 1
      BY <1>5, <1>7, <1>8, <1>10, <3>1, Bounds
    <3>2. CASE i \in DOMAIN heap
      BY <1>10, <3>2 DEF Inv, TypeOK
    <3> QED
      BY <1>10, <3>1, <3>2
  <2>3. \A h \in DOMAIN logger' : /\ logger'[h] \in Loggers
                                  /\ logger'[h].arr \in DOMAIN heap'
                                  /\ logger'[h].len <= Len(heap'[logger'[h].arr].data)
    <3>1. /\ m \in Loggers /\ m.arr \in DOMAIN heap' /\ m.len <= Len(heap'[m.arr].data)
      BY <1>5, <1>7, <1>8, <1>10, <1>11
    <3>2. \A h \in DOMAIN logger \ {g} :
            /\ logger[h] \in Loggers
            /\ logger[h].arr \in DOMAIN heap'
            /\ logger[h].len <= Len(heap'[logger[h].arr].data)
      BY <1>10, <1>13
    <3> QED
      BY <1>12, <3>1, <3>2
  <2> QED
    BY <1>12, <2>1, <2>2, <2>3 DEF Inv, TypeOK, LoggerTypes
<1>15. LoggersIntact'
  <2>1. (Preformatted(logger[g]) \o logger[g].groups = logger[g].told)'
    <3>1. SubSeq(data, 1, len) = data /\ data \o <<>> = data
      BY <1>7, SubSeqFull, ConcatEmptySeq
    <3>2. SubSeq(heap'[m.arr].data, 1, m.len) \o m.groups = m.told
      BY <1>8, <1>9, <1>10, <1>11, <3>1
    <3> QED
      BY <1>12, <3>2 DEF Preformatted
  <2>2. \A h \in DOMAIN logger \ {g} : (Preformatted(logger[h]) \o logger[h].groups = logger[h].told)'
    BY <1>10, <1>12, <1>13 DEF Inv, LoggersIntact, Preformatted
  <2> QED
    BY <1>12, <2>1, <2>2 DEF LoggersIntact
<1> QED
  BY <1>1, <1>10, <1>14, <1>15, LoggerStep

-----------------------------------------------------------------------------
(***************************************************************************)
(* Records.                                                                *)
(***************************************************************************)
\* What a step of a record has to show.
LEMMA RecordStep ==
  ASSUME Inv, UNCHANGED handlerVars,
         records' \in [Goroutines -> 0..MaxRecords],
         inHand' \in [Goroutines -> SUBSET Records],
         \A g \in Goroutines : \/ inHand'[g] = {}
                               \/ \E r \in Records : inHand'[g] = {r} /\ r.from = g /\ r.n = records'[g],
         queue' \in Seq(Records), Len(queue') <= QueueCap,
         senders' \in 0..1,
         sending' = {} \/ (senders' = 1 /\ \E r \in Records : sending' = {r}),
         sent' \in [Goroutines -> 0..MaxRecords],
         \A r \in InFlight' : Complete(r),
         Numbered', Ordered'
  PROVE  Inv'
<1>1. Shapes' /\ LoggersIntact' /\ LoggerTypes'
  BY TypeParts DEF Inv, Shapes, LoggersIntact, LoggerTypes, Preformatted, handlerVars
<1>2. RecordTypes'
  <2>0. Cardinality({}) = 0 /\ \A r \in Records : Cardinality({r}) = 1
    BY FS_EmptySet, FS_Singleton
  <2>1. \A g \in Goroutines : inHand'[g] \subseteq Records /\ Cardinality(inHand'[g]) <= 1
    <3> SUFFICES ASSUME NEW g \in Goroutines
                 PROVE  inHand'[g] \subseteq Records /\ Cardinality(inHand'[g]) <= 1
      OBVIOUS
    <3>1. CASE inHand'[g] = {}
      BY <2>0, <3>1
    <3>2. CASE \E r \in Records : inHand'[g] = {r}
      <4>1. PICK r \in Records : inHand'[g] = {r}
        BY <3>2
      <4>2. Cardinality(inHand'[g]) = 1
        BY <2>0, <4>1
      <4> QED
        BY <4>1, <4>2
    <3> QED
      BY <3>1, <3>2
  <2>2. sending' \subseteq Records /\ Cardinality(sending') <= senders'
    <3>1. CASE sending' = {}
      BY <2>0, <3>1
    <3>2. CASE senders' = 1 /\ \E r \in Records : sending' = {r}
      <4>1. PICK r \in Records : sending' = {r}
        BY <3>2
      <4>2. Cardinality(sending') = 1
        BY <2>0, <4>1
      <4> QED
        BY <3>2, <4>1, <4>2
    <3> QED
      BY <3>1, <3>2
  <2> QED
    BY <2>1, <2>2 DEF RecordTypes
<1>3. TypeOK'
  BY <1>1, <1>2 DEF TypeOK, LoggerTypes, RecordTypes
<1>4. RecordsComplete'
  BY DEF RecordsComplete, Complete
<1> QED
  BY <1>1, <1>3, <1>4 DEF Inv

\* The types that the steps of a record start from.
LEMMA RecordFacts ==
  ASSUME Inv
  PROVE  /\ records \in [Goroutines -> 0..MaxRecords]
         /\ sent \in [Goroutines -> 0..MaxRecords]
         /\ queue \in Seq(Records) /\ Len(queue) \in Nat /\ DOMAIN queue = 1..Len(queue)
         /\ \A i \in DOMAIN queue : queue[i] \in Records
         /\ \A r \in InFlight : r \in Records /\ Complete(r)
         /\ \A r \in Records : r.from \in Goroutines /\ r.n \in 1..MaxRecords
<1>1. /\ records \in [Goroutines -> 0..MaxRecords]
      /\ sent \in [Goroutines -> 0..MaxRecords]
      /\ queue \in Seq(Records)
  BY DEF Inv, TypeOK
<1>2. Len(queue) \in Nat /\ DOMAIN queue = 1..Len(queue)
  BY <1>1, LenProperties
<1>3. \A i \in DOMAIN queue : queue[i] \in Records
  BY <1>1, <1>2, ElementOfSeq
<1>4. \A r \in InFlight : r \in Records /\ Complete(r)
  BY <1>3 DEF Inv, TypeOK, RecordsComplete, Complete, InFlight
<1>5. \A r \in Records : r.from \in Goroutines /\ r.n \in 1..MaxRecords
  BY DEF Records
<1> QED
  BY <1>1, <1>2, <1>3, <1>4, <1>5

LEMMA BodyComplete ==
  ASSUME Inv, NEW g \in DOMAIN logger, NEW own \in BOOLEAN
  PROVE  /\ Body(logger[g], own) \in Seq(0..MaxGiven)
         /\ IF own THEN Body(logger[g], own) = Append(logger[g].told, 0)
            ELSE SubSeq(logger[g].told, 1, Len(Body(logger[g], own))) = Body(logger[g], own)
<1> DEFINE l == logger[g]
           p == Preformatted(l)
<1>1. /\ p \in Seq(Things) /\ l.groups \in Seq(Things) /\ l.told \in Seq(Things)
      /\ p \o l.groups = l.told
  BY PreformattedType
<1>2. Things \subseteq 0..MaxGiven /\ 0 \in 0..MaxGiven
  BY Bounds DEF Things
<1>3. p \in Seq(0..MaxGiven) /\ l.groups \in Seq(0..MaxGiven)
  <2>1. \A s \in Seq(Things) : s \in Seq(0..MaxGiven)
    BY <1>2, SeqMonotonic
  <2> QED
    BY <1>1, <2>1
<1>4. Body(l, own) = p \o IF own THEN Append(l.groups, 0) ELSE <<>>
  BY DEF Body
<1> HIDE DEF l, p
<1>5. CASE own
  <2>1. \A s, t \in Seq(0..MaxGiven) : /\ s \o Append(t, 0) = Append(s \o t, 0)
                                       /\ s \o Append(t, 0) \in Seq(0..MaxGiven)
    BY <1>2, AppendConcat
  <2> QED
    BY <1>1, <1>3, <1>4, <1>5, <2>1 DEF l
<1>6. CASE ~own
  <2>1. Body(l, own) = p
    <3>1. p \o <<>> = p
      BY <1>1, ConcatEmptySeq
    <3> QED
      BY <1>4, <1>6, <3>1
  <2>2. SubSeq(p \o l.groups, 1, Len(p)) = p
    <3>1. CASE Len(p) = 0
      <4>1. p = <<>>
        BY <1>1, <3>1, EmptySeq
      <4> QED
        BY <3>1, <4>1, SubSeqEmpty
    <3>2. CASE Len(p) # 0
      <4>1. 1 \in 1..Len(p) /\ Len(p) \in 1..Len(p)
        BY <1>1, <3>2, LenProperties
      <4>2. SubSeq(p \o l.groups, 1, Len(p)) = SubSeq(p, 1, Len(p))
        BY <1>1, <4>1, SubSeqOfConcat1
      <4> QED
        BY <1>1, <4>2, SubSeqFull
    <3> QED
      BY <3>1, <3>2
  <2> QED
    BY <1>1, <1>3, <1>6, <2>1, <2>2 DEF l
<1> QED
  BY <1>5, <1>6

LEMMA LogInv ==
  ASSUME Inv, NEW g \in Goroutines, NEW own \in BOOLEAN, Log(g, own)
  PROVE  Inv'
<1> DEFINE body == Body(logger[g], own)
           n == records[g] + 1
           r == [from |-> g, n |-> n, body |-> body, told |-> logger[g].told, own |-> own]
<1>1. /\ g \in DOMAIN logger /\ inHand[g] = {} /\ records[g] < MaxRecords
      /\ records' = [records EXCEPT ![g] = n]
      /\ inHand' = [inHand EXCEPT ![g] = {r}]
      /\ senders' = 1
      /\ UNCHANGED <<handlerVars, queue, sending, sent>>
  BY DEF Log, Running, SendersAfter
<1>2. /\ body \in Seq(0..MaxGiven) /\ logger[g].told \in Seq(Things)
      /\ IF own THEN body = Append(logger[g].told, 0)
         ELSE SubSeq(logger[g].told, 1, Len(body)) = body
  BY <1>1, BodyComplete, PreformattedType
<1> HIDE DEF body
<1>3. n \in 1..MaxRecords
  BY <1>1, RecordFacts, Bounds
<1>4. /\ r \in Records /\ Complete(r) /\ r.from = g /\ r.n = n
  BY <1>2, <1>3 DEF Records, Complete
<1> HIDE DEF r
<1>5. /\ records'[g] = n /\ \A h \in Goroutines \ {g} : records'[h] = records[h]
      /\ records' \in [Goroutines -> 0..MaxRecords]
  BY <1>1, <1>3, RecordFacts
<1> HIDE DEF n
<1>6. /\ inHand'[g] = {r} /\ \A h \in Goroutines \ {g} : inHand'[h] = inHand[h]
      /\ inHand' \in [Goroutines -> SUBSET Records]
  BY <1>1, <1>4 DEF Inv, Shapes
<1>7. \A h \in Goroutines : \/ inHand'[h] = {}
                            \/ \E s \in Records : inHand'[h] = {s} /\ s.from = h /\ s.n = records'[h]
  BY <1>4, <1>5, <1>6 DEF Inv, Shapes
<1>8. InFlight' = InFlight \cup {r}
  <2>1. UNION {inHand'[h] : h \in Goroutines} = (UNION {inHand[h] : h \in Goroutines}) \cup {r}
    BY <1>1, <1>6
  <2> QED
    BY <1>1, <2>1 DEF InFlight
<1>9. \A s \in InFlight : s.from = g => s.n < n
  BY RecordFacts DEF Inv, Numbered, n
<1>10. Numbered'
  <2>1. \A h \in Goroutines : sent'[h] <= records'[h]
    BY <1>1, <1>5, RecordFacts DEF Inv, Numbered, n
  <2>2. \A s \in InFlight' : sent'[s.from] < s.n /\ s.n <= records'[s.from]
    <3>1. sent[g] < n
      BY RecordFacts DEF Inv, Numbered, n
    <3>2. \A s \in InFlight : s.n <= records'[s.from]
      BY <1>5, <1>9, RecordFacts DEF Inv, Numbered
    <3> QED
      BY <1>1, <1>4, <1>5, <1>8, <3>1, <3>2, RecordFacts DEF Inv, Numbered
  <2>3. \A h \in Goroutines, k \in 1..MaxRecords :
          sent'[h] < k /\ k <= records'[h] => \E s \in InFlight' : s.from = h /\ s.n = k
    <3> SUFFICES ASSUME NEW h \in Goroutines, NEW k \in 1..MaxRecords,
                        sent'[h] < k, k <= records'[h]
                 PROVE  \E s \in InFlight' : s.from = h /\ s.n = k
      OBVIOUS
    <3>1. CASE k <= records[h]
      BY <1>1, <1>8, <3>1 DEF Inv, Numbered
    <3>2. CASE ~(k <= records[h])
      <4>1. h = g /\ k = n
        BY <1>5, <3>2, RecordFacts DEF n
      <4> QED
        BY <1>4, <1>8, <4>1
    <3> QED
      BY <3>1, <3>2
  <2> QED
    BY <2>1, <2>2, <2>3 DEF Numbered
<1>11. Ordered'
  <2>1. \A i \in DOMAIN queue : queue[i] \in InFlight
    BY DEF InFlight
  <2>2. \A s \in sending : s \in InFlight
    BY DEF InFlight
  <2>3. \A h \in Goroutines : \A s \in inHand'[h] :
          /\ \A i \in DOMAIN queue' : queue'[i].from = h => queue'[i].n < s.n
          /\ \A t \in sending' : t.from = h => t.n < s.n
    <3> SUFFICES ASSUME NEW h \in Goroutines, NEW s \in inHand'[h]
                 PROVE  /\ \A i \in DOMAIN queue : queue[i].from = h => queue[i].n < s.n
                        /\ \A t \in sending : t.from = h => t.n < s.n
      BY <1>1
    <3>1. CASE h = g
      BY <1>4, <1>6, <1>9, <2>1, <2>2, <3>1
    <3>2. CASE h # g
      BY <1>6, <3>2 DEF Inv, Ordered
    <3> QED
      BY <3>1, <3>2
  <2> QED
    BY <1>1, <2>3 DEF Inv, Ordered
<1>12. \A s \in InFlight' : Complete(s)
  BY <1>4, <1>8, RecordFacts
<1> QED
  <2>1. /\ queue' \in Seq(Records) /\ Len(queue') <= QueueCap
        /\ sent' \in [Goroutines -> 0..MaxRecords]
        /\ senders' \in 0..1
        /\ sending' = {} \/ (senders' = 1 /\ \E s \in Records : sending' = {s})
    BY <1>1 DEF Inv, TypeOK, Shapes
  <2> QED
    BY <1>1, <1>5, <1>6, <1>7, <1>10, <1>11, <1>12, <2>1, RecordStep

\* The same records are on their way, and nothing is made or sent.
LEMMA SameInFlight ==
  ASSUME Inv, InFlight' = InFlight, UNCHANGED <<records, sent>>
  PROVE  Numbered' /\ \A r \in InFlight' : Complete(r)
  BY RecordFacts DEF Inv, Numbered

LEMMA EnqueueInv ==
  ASSUME Inv, NEW g \in Goroutines, Enqueue(g)
  PROVE  Inv'
<1>1. PICK r \in inHand[g] : queue' = Append(queue, r)
  BY DEF Enqueue
<1>2. /\ Len(queue) < QueueCap
      /\ inHand' = [inHand EXCEPT ![g] = {}]
      /\ UNCHANGED <<handlerVars, records, senders, sending, sent>>
  BY DEF Enqueue
<1>3. r \in Records /\ inHand[g] = {r} /\ r.from = g
  BY <1>1 DEF Inv, Shapes
<1>4. /\ queue' \in Seq(Records) /\ Len(queue') = Len(queue) + 1
      /\ queue'[Len(queue) + 1] = r /\ \A i \in 1..Len(queue) : queue'[i] = queue[i]
  BY <1>1, <1>3, RecordFacts, AppendProperties
<1>5. DOMAIN queue' = 1..(Len(queue) + 1) /\ DOMAIN queue = 1..Len(queue) /\ Len(queue) \in Nat
  BY <1>4, RecordFacts, LenProperties
<1>6. /\ inHand'[g] = {} /\ \A h \in Goroutines \ {g} : inHand'[h] = inHand[h]
      /\ inHand' \in [Goroutines -> SUBSET Records]
  BY <1>2 DEF Inv, Shapes
<1>7. InFlight' = InFlight
  <2>1. UNION {inHand[h] : h \in Goroutines} = (UNION {inHand'[h] : h \in Goroutines}) \cup {r}
    BY <1>3, <1>6
  <2>2. {queue'[i] : i \in DOMAIN queue'} = {queue[i] : i \in DOMAIN queue} \cup {r}
    BY <1>4, <1>5
  <2> QED
    BY <1>2, <2>1, <2>2 DEF InFlight
<1>8. Ordered'
  <2>1. \A i, j \in DOMAIN queue' :
          i < j /\ queue'[i].from = queue'[j].from => queue'[i].n < queue'[j].n
    <3> SUFFICES ASSUME NEW i \in DOMAIN queue', NEW j \in DOMAIN queue',
                        i < j, queue'[i].from = queue'[j].from
                 PROVE  queue'[i].n < queue'[j].n
      OBVIOUS
    <3>1. i \in DOMAIN queue /\ queue'[i] = queue[i]
      BY <1>4, <1>5
    <3>2. CASE j = Len(queue) + 1
      BY <1>1, <1>3, <1>4, <3>1, <3>2 DEF Inv, Ordered
    <3>3. CASE j \in DOMAIN queue
      BY <1>4, <1>5, <3>1, <3>3 DEF Inv, Ordered
    <3> QED
      BY <1>5, <3>2, <3>3
  <2>2. \A s \in sending', i \in DOMAIN queue' : s.from = queue'[i].from => s.n < queue'[i].n
    <3> SUFFICES ASSUME NEW s \in sending, NEW i \in DOMAIN queue', s.from = queue'[i].from
                 PROVE  s.n < queue'[i].n
      BY <1>2
    <3>1. CASE i = Len(queue) + 1
      BY <1>1, <1>3, <1>4, <3>1 DEF Inv, Ordered
    <3>2. CASE i \in DOMAIN queue
      BY <1>4, <1>5, <3>2 DEF Inv, Ordered
    <3> QED
      BY <1>5, <3>1, <3>2
  <2>3. \A h \in Goroutines : \A s \in inHand'[h] :
          /\ \A i \in DOMAIN queue' : queue'[i].from = h => queue'[i].n < s.n
          /\ \A t \in sending' : t.from = h => t.n < s.n
    <3> SUFFICES ASSUME NEW h \in Goroutines, NEW s \in inHand'[h]
                 PROVE  /\ \A i \in DOMAIN queue' : queue'[i].from = h => queue'[i].n < s.n
                        /\ \A t \in sending : t.from = h => t.n < s.n
      BY <1>2
    <3>1. h # g /\ s \in inHand[h]
      BY <1>6
    <3>2. \A i \in DOMAIN queue' : queue'[i].from = h => i \in DOMAIN queue /\ queue'[i] = queue[i]
      BY <1>3, <1>4, <1>5, <3>1
    <3> QED
      BY <3>1, <3>2 DEF Inv, Ordered
  <2> QED
    BY <2>1, <2>2, <2>3 DEF Ordered
<1>9. \A h \in Goroutines : \/ inHand'[h] = {}
                            \/ \E s \in Records : inHand'[h] = {s} /\ s.from = h /\ s.n = records'[h]
  BY <1>2, <1>6 DEF Inv, Shapes
<1>10. /\ Len(queue') <= QueueCap /\ senders' \in 0..1
       /\ sending' = {} \/ (senders' = 1 /\ \E s \in Records : sending' = {s})
       /\ records' \in [Goroutines -> 0..MaxRecords] /\ sent' \in [Goroutines -> 0..MaxRecords]
  BY <1>2, <1>4, <1>5, QueueAssumption DEF Inv, TypeOK, Shapes
<1>11. Numbered' /\ \A s \in InFlight' : Complete(s)
  BY <1>2, <1>7, SameInFlight
<1> QED
  BY <1>2, <1>4, <1>6, <1>8, <1>9, <1>10, <1>11, RecordStep

LEMMA TakeInv ==
  ASSUME Inv, Take
  PROVE  Inv'
<1> DEFINE r == Head(queue)
<1>1. /\ Takes /\ queue # <<>> /\ sending' = sending \cup {r} /\ queue' = Tail(queue)
      /\ UNCHANGED <<handlerVars, records, inHand, senders, sent>>
  BY DEF Take
<1>2. sending = {} /\ senders = 1
  <2>1. Cardinality({}) = 0 /\ \A s \in Records : Cardinality({s}) = 1
    BY FS_EmptySet, FS_Singleton
  <2>2. Cardinality(sending) < senders /\ senders \in 0..1
    BY <1>1 DEF Takes, Inv, TypeOK
  <2>3. \A s \in Records : sending # {s}
    BY <2>1, <2>2
  <2>4. sending = {}
    BY <2>3 DEF Inv, Shapes
  <2> QED
    BY <2>1, <2>2, <2>4
<1>3. /\ queue' \in Seq(Records) /\ Len(queue') = Len(queue) - 1 /\ Len(queue) \in Nat \ {0}
      /\ \A i \in 1..Len(queue') : queue'[i] = queue[i + 1]
  BY <1>1, RecordFacts, HeadTailProperties, EmptySeq
<1>4. /\ DOMAIN queue' = 1..(Len(queue) - 1) /\ DOMAIN queue = 1..Len(queue)
      /\ r = queue[1] /\ r \in Records
  BY <1>1, <1>3, RecordFacts, LenProperties, HeadTailProperties
<1> HIDE DEF r
<1>5. sending' = {r}
  BY <1>1, <1>2
<1>6. InFlight' = InFlight
  <2>1. {queue[i] : i \in DOMAIN queue} = {queue'[i] : i \in DOMAIN queue'} \cup {r}
    <3>1. \A i \in DOMAIN queue : i = 1 \/ (i - 1 \in DOMAIN queue' /\ queue[i] = queue'[i - 1])
      BY <1>3, <1>4
    <3>2. \A i \in DOMAIN queue' : i + 1 \in DOMAIN queue /\ queue'[i] = queue[i + 1]
      BY <1>3, <1>4
    <3>3. 1 \in DOMAIN queue
      BY <1>3, <1>4
    <3> QED
      BY <1>4, <3>1, <3>2, <3>3
  <2> QED
    BY <1>1, <1>2, <1>5, <2>1 DEF InFlight
<1>7. \A i \in DOMAIN queue' : /\ i + 1 \in DOMAIN queue /\ queue'[i] = queue[i + 1]
                               /\ 1 \in DOMAIN queue /\ 1 < i + 1 /\ i \in Int
  BY <1>3, <1>4
<1>8. Ordered'
  <2>1. \A i, j \in DOMAIN queue' :
          i < j /\ queue'[i].from = queue'[j].from => queue'[i].n < queue'[j].n
    <3>1. \A i, j \in DOMAIN queue' : i < j => i + 1 < j + 1
      BY <1>7
    <3> QED
      BY <1>7, <3>1 DEF Inv, Ordered
  <2>2. \A s \in sending', i \in DOMAIN queue' : s.from = queue'[i].from => s.n < queue'[i].n
    BY <1>4, <1>5, <1>7 DEF Inv, Ordered
  <2>3. \A h \in Goroutines : \A s \in inHand'[h] :
          /\ \A i \in DOMAIN queue' : queue'[i].from = h => queue'[i].n < s.n
          /\ \A t \in sending' : t.from = h => t.n < s.n
    <3>1. 1 \in DOMAIN queue
      BY <1>3, <1>4
    <3> QED
      BY <1>1, <1>4, <1>5, <1>7, <3>1 DEF Inv, Ordered
  <2> QED
    BY <2>1, <2>2, <2>3 DEF Ordered
<1>9. /\ Len(queue') <= QueueCap /\ senders' \in 0..1
      /\ sending' = {} \/ (senders' = 1 /\ \E s \in Records : sending' = {s})
      /\ records' \in [Goroutines -> 0..MaxRecords] /\ sent' \in [Goroutines -> 0..MaxRecords]
      /\ inHand' \in [Goroutines -> SUBSET Records]
  <2>1. Len(queue') <= QueueCap
    BY <1>3, QueueAssumption DEF Inv, TypeOK
  <2>2. sending' = {} \/ (senders' = 1 /\ \E s \in Records : sending' = {s})
    BY <1>1, <1>2, <1>4, <1>5
  <2> QED
    BY <1>1, <2>1, <2>2 DEF Inv, TypeOK, Shapes
<1>10. \A h \in Goroutines : \/ inHand'[h] = {}
                             \/ \E s \in Records : inHand'[h] = {s} /\ s.from = h /\ s.n = records'[h]
  BY <1>1 DEF Inv, Shapes
<1>11. Numbered' /\ \A s \in InFlight' : Complete(s)
  BY <1>1, <1>6, SameInFlight
<1> QED
  BY <1>1, <1>3, <1>8, <1>9, <1>10, <1>11, RecordStep

\* The record that is sent is the first of its goroutine that has not been sent.
LEMMA SendNext ==
  ASSUME Inv, NEW r \in sending
  PROVE  /\ r \in Records /\ sending = {r} /\ r.n = sent[r.from] + 1 /\ r \in InFlight
         /\ \A s \in InFlight : s.from = r.from /\ s # r => r.n < s.n
         /\ \A i \in DOMAIN queue : queue[i] # r
         /\ \A g \in Goroutines : r \notin inHand[g]
<1>1. r \in Records /\ sending = {r} /\ r \in InFlight
  BY DEF Inv, Shapes, InFlight
<1>2. r.from \in Goroutines /\ r.n \in 1..MaxRecords /\ sent[r.from] \in 0..MaxRecords
      /\ records[r.from] \in 0..MaxRecords
  BY <1>1, RecordFacts
<1>3. \A i \in DOMAIN queue : queue[i].from = r.from => r.n < queue[i].n
  BY DEF Inv, Ordered
<1>4. \A g \in Goroutines : \A s \in inHand[g] : s.from = g /\ (g = r.from => r.n < s.n)
  BY DEF Inv, Ordered, Shapes
<1>5. \A s \in InFlight : s.from = r.from /\ s # r => r.n < s.n
  BY <1>1, <1>3, <1>4 DEF InFlight
<1>6. r.n = sent[r.from] + 1
  <2>1. sent[r.from] < r.n /\ r.n <= records[r.from]
    BY <1>1 DEF Inv, Numbered
  <2>2. sent[r.from] + 1 \in 1..MaxRecords /\ sent[r.from] + 1 <= records[r.from]
    BY <1>2, <2>1, Bounds
  <2>3. PICK s \in InFlight : s.from = r.from /\ s.n = sent[r.from] + 1
    BY <1>2, <2>2 DEF Inv, Numbered
  <2> QED
    BY <1>2, <1>5, <2>1, <2>3
<1>7. \A i \in DOMAIN queue : queue[i] # r
  BY <1>2, <1>3
<1>8. \A g \in Goroutines : r \notin inHand[g]
  BY <1>2, <1>4
<1> QED
  BY <1>1, <1>5, <1>6, <1>7, <1>8

LEMMA SendInv ==
  ASSUME Inv, Send
  PROVE  Inv'
<1>1. PICK r \in sending : /\ sending' = sending \ {r}
                           /\ sent' = [sent EXCEPT ![r.from] = @ + 1]
  BY DEF Send
<1>2. UNCHANGED <<handlerVars, records, inHand, queue, senders>>
  BY DEF Send
<1>3. /\ r \in Records /\ sending' = {} /\ r.n = sent[r.from] + 1 /\ r \in InFlight
      /\ \A s \in InFlight : s.from = r.from /\ s # r => r.n < s.n
  BY <1>1, SendNext
<1>4. InFlight' = InFlight \ {r}
  <2>1. InFlight = (UNION {inHand[g] : g \in Goroutines}) \cup {queue[i] : i \in DOMAIN queue} \cup {r}
    BY SendNext DEF InFlight
  <2>2. r \notin (UNION {inHand[g] : g \in Goroutines}) /\ r \notin {queue[i] : i \in DOMAIN queue}
    BY SendNext
  <2>3. InFlight' = (UNION {inHand[g] : g \in Goroutines}) \cup {queue[i] : i \in DOMAIN queue}
    BY <1>2, <1>3 DEF InFlight
  <2> QED
    BY <2>1, <2>2, <2>3
<1>5. r.from \in Goroutines /\ r.n \in 1..MaxRecords
  BY <1>3, RecordFacts
<1>6. /\ sent'[r.from] = r.n /\ \A h \in Goroutines \ {r.from} : sent'[h] = sent[h]
      /\ sent' \in [Goroutines -> 0..MaxRecords]
  BY <1>1, <1>3, <1>5, RecordFacts
<1>7. Numbered'
  <2>1. \A h \in Goroutines : sent'[h] <= records'[h]
    BY <1>2, <1>3, <1>5, <1>6 DEF Inv, Numbered
  <2>2. \A s \in InFlight' : sent'[s.from] < s.n /\ s.n <= records'[s.from]
    BY <1>2, <1>3, <1>4, <1>6, RecordFacts DEF Inv, Numbered
  <2>3. \A h \in Goroutines, k \in 1..MaxRecords :
          sent'[h] < k /\ k <= records'[h] => \E s \in InFlight' : s.from = h /\ s.n = k
    <3> SUFFICES ASSUME NEW h \in Goroutines, NEW k \in 1..MaxRecords,
                        sent'[h] < k, k <= records[h]
                 PROVE  \E s \in InFlight' : s.from = h /\ s.n = k
      BY <1>2
    <3>1. sent[h] < k
      BY <1>3, <1>5, <1>6, RecordFacts
    <3>2. PICK s \in InFlight : s.from = h /\ s.n = k
      BY <3>1 DEF Inv, Numbered
    <3>3. s # r
      BY <1>5, <1>6, <3>2
    <3> QED
      BY <1>4, <3>2, <3>3
  <2> QED
    BY <2>1, <2>2, <2>3 DEF Numbered
<1>8. Ordered'
  BY <1>2, <1>3 DEF Inv, Ordered
<1>9. /\ queue' \in Seq(Records) /\ Len(queue') <= QueueCap /\ senders' \in 0..1
      /\ records' \in [Goroutines -> 0..MaxRecords]
      /\ inHand' \in [Goroutines -> SUBSET Records]
      /\ \A h \in Goroutines : \/ inHand'[h] = {}
                               \/ \E s \in Records : inHand'[h] = {s} /\ s.from = h /\ s.n = records'[h]
  BY <1>2 DEF Inv, TypeOK, Shapes
<1>10. \A s \in InFlight' : Complete(s)
  BY <1>4, RecordFacts
<1> QED
  BY <1>2, <1>3, <1>6, <1>7, <1>8, <1>9, <1>10, RecordStep

-----------------------------------------------------------------------------
LEMMA StepInv == Inv /\ [Next]_vars => Inv'
<1> SUFFICES ASSUME Inv, [Next]_vars PROVE Inv'
  OBVIOUS
<1>1. CASE UNCHANGED vars
  <2>1. UNCHANGED <<handlerVars, records, inHand, queueVars>>
    BY <1>1 DEF vars
  <2>2. heap' \in Seq(Arrays) /\ LoggerTypes' /\ LoggersIntact'
    BY <2>1, TypeParts DEF Inv, Shapes, LoggerTypes, LoggersIntact, Preformatted, handlerVars
  <2> QED
    BY <2>1, <2>2, LoggerStep
<1>2. CASE Next
  BY <1>2, ForkInv, WithGroupInv, WithAttrsInv, LogInv, EnqueueInv, TakeInv, SendInv DEF Next
<1> QED
  BY <1>1, <1>2

LEMMA AlwaysInv == Spec => []Inv
<1> QED
  BY InitInv, StepInv, PTL DEF Spec

\* Every variable keeps its type: TypeOK in all runs of the log.
THEOREM LoggerTypesHold == Spec => []TypeOK
<1>1. Inv => TypeOK
  BY DEF Inv
<1> QED
  BY <1>1, AlwaysInv, PTL

\* Nothing that one logger is told gets into another (logger/handler.go:61-62).
THEOREM LoggersStayIntact == Spec => []LoggersIntact
<1>1. Inv => LoggersIntact
  BY DEF Inv
<1> QED
  BY <1>1, AlwaysInv, PTL

\* What a record says is what its logger was told, and its own attributes
\* (logger/handler.go, Handle).
THEOREM RecordsStayComplete == Spec => []RecordsComplete
<1>1. Inv => RecordsComplete
  BY DEF Inv
<1> QED
  BY <1>1, AlwaysInv, PTL

\* The records of a goroutine are sent in the order in which they were made, each
\* once (logger/logger.go).
THEOREM RecordsInOrder == Spec => InOrder
<1>1. Inv /\ [Next]_vars => [\A r \in sending \ sending' : r.n = sent[r.from] + 1]_vars
  BY SendNext
<1> QED
  BY <1>1, AlwaysInv, PTL DEF Spec, InOrder

-----------------------------------------------------------------------------
(***************************************************************************)
(* Nobody is left at the queue.                                            *)
(***************************************************************************)
\* Whoever has reached the queue has started a sender.
Started ==
  senders # 1 => queue = <<>> /\ \A g \in Goroutines : inHand[g] = {}

LEMMA StartedStep == Inv /\ Started /\ [Next]_vars => Started'
<1> SUFFICES ASSUME Inv, Started, [Next]_vars PROVE Started'
  OBVIOUS
<1>1. ASSUME UNCHANGED <<inHand, queue, senders>> PROVE Started'
  BY <1>1 DEF Started
<1>2. CASE UNCHANGED vars
  BY <1>1, <1>2 DEF vars, queueVars
<1>3. ASSUME NEW g \in Goroutines, NEW child \in Goroutines, Fork(g, child) PROVE Started'
  BY <1>1, <1>3 DEF Fork, queueVars
<1>4. ASSUME NEW g \in Goroutines, WithGroup(g) PROVE Started'
  BY <1>1, <1>4 DEF WithGroup, queueVars
<1>5. ASSUME NEW g \in Goroutines, NEW spare \in 0..MaxSpare, WithAttrs(g, spare) PROVE Started'
  BY <1>1, <1>5 DEF WithAttrs, queueVars
<1>6. ASSUME NEW g \in Goroutines, NEW own \in BOOLEAN, Log(g, own) PROVE Started'
  BY <1>6 DEF Log, SendersAfter, Started
<1>7. ASSUME NEW g \in Goroutines, Enqueue(g) PROVE Started'
  <2>1. senders = 1 /\ senders' = senders
    BY <1>7 DEF Enqueue, Started
  <2> QED
    BY <2>1 DEF Started
<1>8. CASE Take
  <2>1. senders = 1 /\ senders' = senders
    BY <1>8 DEF Take, Started
  <2> QED
    BY <2>1 DEF Started
<1>9. CASE Send
  BY <1>1, <1>9 DEF Send
<1> QED
  BY <1>2, <1>3, <1>4, <1>5, <1>6, <1>7, <1>8, <1>9 DEF Next

\* A record at the queue, or in it, is never stuck: there is room for it, or a sender
\* is back for the next, or one has a record whose notification is being written.
NeverStuck ==
  (\E g \in Goroutines : inHand[g] # {}) \/ queue # <<>> =>
    \/ Len(queue) < QueueCap /\ \E g \in Goroutines : inHand[g] # {}
    \/ queue # <<>> /\ Takes
    \/ sending # {}

LEMMA StartedNeverStuck == Inv /\ Started => NeverStuck
<1> SUFFICES ASSUME Inv, Started, sending = {},
                    (\E g \in Goroutines : inHand[g] # {}) \/ queue # <<>>
             PROVE  \/ Len(queue) < QueueCap /\ \E g \in Goroutines : inHand[g] # {}
                    \/ queue # <<>> /\ Takes
  BY DEF NeverStuck
<1>1. senders = 1
  BY DEF Started
<1>2. Takes
  BY <1>1, FS_EmptySet DEF Takes
<1>3. CASE queue = <<>>
  BY <1>3, QueueAssumption
<1> QED
  BY <1>2, <1>3

\* The safety half of BurstSent: a full queue delays the goroutine that logs and never
\* stops it for good, because the sender was started before anyone came to the queue
\* (startLogSenderOnce, logger/logger.go).
THEOREM QueueNeverStuck == Spec => []NeverStuck
<1>1. Init => Started
  BY DEF Init, Started
<1>2. Spec => []Started
  BY <1>1, StartedStep, AlwaysInv, PTL DEF Spec
<1> QED
  BY <1>2, StartedNeverStuck, AlwaysInv, PTL
=============================================================================
