------------------------------- MODULE Logger -------------------------------
(***************************************************************************)
(* The log messages of the server: the loggers that goroutines derive from *)
(* each other's (debug/debug.go, logger/handler.go), the queue and the     *)
(* goroutine that sends to the client (logger/logger.go).                  *)
(*                                                                         *)
(* A logger keeps what it was given in a byte slice, so what two loggers   *)
(* derived from a third share is modelled as Go has it: a slice is an      *)
(* array, a length and a capacity.  Groups and attributes are numbers, in  *)
(* the order in which they are given to any logger.                        *)
(***************************************************************************)
EXTENDS Integers, Sequences, FiniteSets

CONSTANTS
  Goroutines,  \* whoever logs
  Main,        \* the goroutine that starts the others
  QueueCap,    \* capacity of logQueue, 100 in the code
  MaxGiven,    \* bound: groups and attributes given to loggers
  MaxRecords,  \* bound: records of every goroutine
  MaxSpare     \* bound: how much more than needed append allocates

ASSUME MainAssumption   == Main \in Goroutines
ASSUME QueueAssumption  == QueueCap \in Nat \ {0}
ASSUME BoundsAssumption == {MaxGiven, MaxRecords, MaxSpare} \subseteq Nat

VARIABLES
  heap,     \* the arrays allocated so far, each with what has been written to it
            \* and its capacity
  logger,   \* the logger in the context of every goroutine that runs: see Loggers
  given,    \* how many groups and attributes have been given
  records,  \* how many records a goroutine has made
  inHand,   \* the record, if any, with which a goroutine is at the queue
  queue,    \* logQueue
  senders,  \* how many sender goroutines have been started
  sending,  \* the records that senders have taken and not sent yet
  sent      \* how many records of a goroutine the client has got

handlerVars == <<heap, logger, given>>
queueVars   == <<queue, senders, sending, sent>>
vars        == <<handlerVars, records, inHand, queueVars>>

Things  == 1..MaxGiven
Arrays  == [data : Seq(Things), cap : Nat]
\* preformatted is the slice arr, len; groups are unopenedGroups. told is what the
\* logger was told on the way from the first one, kept for the properties only.
Loggers == [arr : Nat, len : Nat, groups : Seq(Things), told : Seq(Things)]
\* 0 in a body stands for the record's own attributes.
Records == [from : Goroutines, n : 1..MaxRecords,
            body : Seq(0..MaxGiven), told : Seq(Things), own : BOOLEAN]

TypeOK ==
  /\ \A i \in DOMAIN heap : heap[i] \in Arrays /\ Len(heap[i].data) <= heap[i].cap
  /\ DOMAIN logger \subseteq Goroutines
  /\ \A g \in DOMAIN logger :
       /\ logger[g] \in Loggers
       /\ logger[g].arr \in DOMAIN heap
       /\ logger[g].len <= Len(heap[logger[g].arr].data)
  /\ given \in 0..MaxGiven
  /\ records \in [Goroutines -> 0..MaxRecords]
  /\ \A g \in Goroutines : inHand[g] \subseteq Records /\ Cardinality(inHand[g]) <= 1
  /\ queue \in Seq(Records) /\ Len(queue) <= QueueCap
  /\ senders \in 0..1
  /\ sending \subseteq Records /\ Cardinality(sending) <= senders
  /\ sent \in [Goroutines -> 0..MaxRecords]

Init ==
  /\ heap = <<[data |-> <<>>, cap |-> 0]>>
  /\ logger = [g \in {Main} |-> [arr |-> 1, len |-> 0, groups |-> <<>>, told |-> <<>>]]
  /\ given = 0
  /\ records = [g \in Goroutines |-> 0]
  /\ inHand = [g \in Goroutines |-> {}]
  /\ queue = <<>> /\ senders = 0 /\ sending = {}
  /\ sent = [g \in Goroutines |-> 0]

-----------------------------------------------------------------------------
\* The bytes that preformatted refers to.
Preformatted(l) == SubSeq(heap[l.arr].data, 1, l.len)

Running(g) == g \in DOMAIN logger /\ inHand[g] = {}

\* A goroutine is started with a context of its creator.
Fork(g, child) ==
  /\ Running(g)
  /\ child \notin DOMAIN logger
  /\ logger' = [h \in DOMAIN logger \cup {child} |-> IF h = child THEN logger[g] ELSE logger[h]]
  /\ UNCHANGED <<heap, given, records, inHand, queueVars>>

\* debug.WithGroup and debug.Start: the group is opened when there is something
\* to put into it.
WithGroup(g) ==
  /\ Running(g)
  /\ given < MaxGiven
  /\ given' = given + 1
  /\ logger' = [logger EXCEPT ![g].groups = Append(@, given + 1),
                              ![g].told   = Append(@, given + 1)]
  /\ UNCHANGED <<heap, records, inHand, queueVars>>

RoomIn_Unclipped(l) == heap[l.arr].cap
\* How far append may write in place: slices.Clip has cut the capacity down to the
\* length.
RoomIn(l) == l.len

\* WithAttrs: the groups that are not open yet and an attribute are appended, to the
\* array of the logger or to a new one with as much room as append likes.
WithAttrs(g, spare) ==
  /\ Running(g)
  /\ given < MaxGiven
  /\ given' = given + 1
  /\ LET l    == logger[g]
         new  == Append(l.groups, given + 1)
         len  == l.len + Len(new)
         fits == len <= RoomIn(l)
         data == Preformatted(l) \o new
     IN  /\ heap' = IF fits
                      THEN [heap EXCEPT ![l.arr].data =
                              data \o SubSeq(@, len + 1, Len(@))]
                      ELSE Append(heap, [data |-> data, cap |-> len + spare])
         /\ logger' = [logger EXCEPT ![g] =
                         [arr |-> IF fits THEN l.arr ELSE Len(heap) + 1, len |-> len,
                          groups |-> <<>>, told |-> Append(l.told, given + 1)]]
  /\ UNCHANGED <<records, inHand, queueVars>>

Body_KeepsClosed(l, own) == Preformatted(l) \o IF own THEN <<0>> ELSE <<>>
\* Handle: what the logger has formatted, then the record's attributes in the
\* groups that they open.
Body(l, own) == Preformatted(l) \o IF own THEN Append(l.groups, 0) ELSE <<>>

SendersAfter_EveryTime == senders + 1
\* startLogSenderOnce
SendersAfter == 1

\* Handle and Log, up to the queue. Records that are not Enabled, or that have no
\* client in their context, are dropped.
Log(g, own) ==
  /\ Running(g)
  /\ records[g] < MaxRecords
  /\ records' = [records EXCEPT ![g] = @ + 1]
  /\ inHand' = [inHand EXCEPT ![g] =
       {[from |-> g, n |-> records[g] + 1, body |-> Body(logger[g], own),
         told |-> logger[g].told, own |-> own]}]
  /\ senders' = SendersAfter
  /\ UNCHANGED <<handlerVars, queue, sending, sent>>

\* Log: logQueue <- func, with a full queue the goroutine waits.
Enqueue(g) ==
  /\ Len(queue) < QueueCap
  /\ \E r \in inHand[g] : queue' = Append(queue, r)
  /\ inHand' = [inHand EXCEPT ![g] = {}]
  /\ UNCHANGED <<handlerVars, records, senders, sending, sent>>

Takes_OnlyFirst == Cardinality(sending) < senders /\ \A g \in Goroutines : sent[g] = 0
\* A sender is back at the queue.
Takes == Cardinality(sending) < senders

\* The sender goroutine: for fn := range logQueue.
Take ==
  /\ Takes
  /\ queue # <<>>
  /\ sending' = sending \cup {Head(queue)}
  /\ queue' = Tail(queue)
  /\ UNCHANGED <<handlerVars, records, inHand, senders, sent>>

\* fn(): the notification is written.
Send ==
  /\ \E r \in sending :
       /\ sending' = sending \ {r}
       /\ sent' = [sent EXCEPT ![r.from] = @ + 1]
  /\ UNCHANGED <<handlerVars, records, inHand, queue, senders>>

-----------------------------------------------------------------------------
Next ==
  \/ \E g \in Goroutines :
       \/ \E child \in Goroutines : Fork(g, child)
       \/ WithGroup(g)
       \/ \E spare \in 0..MaxSpare : WithAttrs(g, spare)
       \/ \E own \in BOOLEAN : Log(g, own)
       \/ Enqueue(g)
  \/ Take
  \/ Send

Spec == Init /\ [][Next]_vars

\* The sender runs and the client reads what is sent to it. Strong fairness of the
\* goroutines at the queue: a Go channel serves those who wait for it in turn.
Fairness ==
  /\ WF_vars(Take) /\ WF_vars(Send)
  /\ \A g \in Goroutines : SF_vars(Enqueue(g))

FairSpec == Spec /\ Fairness

-----------------------------------------------------------------------------
\* A logger has formatted what it was told and nothing that others derived from the
\* same logger were told, however their slices share arrays ("force an append to
\* copy the underlying array", handler.go:61-62): the groups left to open are the
\* rest of it.
LoggersIntact ==
  \A g \in DOMAIN logger : Preformatted(logger[g]) \o logger[g].groups = logger[g].told

\* The attributes of a record come after all that its logger was told, so inside
\* every group it opens; a record without any leaves out groups that are empty.
InFlight == (UNION {inHand[g] : g \in Goroutines}) \cup {queue[i] : i \in DOMAIN queue} \cup sending
RecordsComplete ==
  \A r \in InFlight :
    IF r.own THEN r.body = Append(r.told, 0) ELSE SubSeq(r.told, 1, Len(r.body)) = r.body

\* The client gets the records of a goroutine in the order in which they were made,
\* each once.
InOrder ==
  [][\A r \in sending \ sending' : r.n = sent[r.from] + 1]_vars

\* Whoever waits at a full queue gets on: the burst is sent.
BurstSent == \A g \in Goroutines : inHand[g] # {} ~> inHand[g] = {}
=============================================================================
