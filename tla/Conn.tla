--------------------------------- MODULE Conn ---------------------------------
(***************************************************************************)
(* The JSON-RPC connection of rpc/conn.go over the stream of               *)
(* rpc/stream.go: goroutines that call and notify the client, the read     *)
(* loop Run, which runs the handlers of the client's requests itself and   *)
(* hands every response to the goroutine that waits for it, and the        *)
(* client.  A message leaves as two writes, a header and a body, and       *)
(* nothing keeps two goroutines from writing at once.                      *)
(***************************************************************************)
EXTENDS Integers, Sequences, FiniteSets

CONSTANTS
  Callers,       \* goroutines that may make a Call
  Notifiers,     \* goroutines that may make a Notify; each makes one of either
  Cancellable,   \* those of the goroutines whose context may be cancelled
  MaxRequests,   \* bound: the calls the client makes
  HandlersCall,  \* the handler of a request may make a Call itself
  PeerErrors     \* the client may answer with an error

ASSUME CancellableAssumption == Cancellable \subseteq Callers \cup Notifiers
ASSUME RequestsAssumption    == MaxRequests \in Nat
ASSUME PeerAssumption        == {HandlersCall, PeerErrors} \subseteq BOOLEAN

Loop   == "loop"
Nobody == "nobody"
Procs  == Callers \cup Notifiers \cup {Loop}

VARIABLES
  pc,         \* where every goroutine is, see ProcStates
  seq,        \* conn.seq
  id,         \* the ID of a goroutine's call, 0 before it has one
  msg,        \* the message a goroutine is writing or, the loop, delivering
  rchan,      \* the response channel of every call: whom its content answers
  got,        \* whose call the response answers that Call has returned
  cancelled,  \* the goroutines whose context is cancelled
  out,        \* the header and body parts written and not read by the client
  inbox,      \* the client's messages not read by Run
  owed,       \* the calls the client has received and not answered
  requests,   \* the number of calls the client has made
  garbled,    \* the client has read a frame that is not a message
  crashed     \* Run has panicked

vars == <<pc, seq, id, msg, rchan, got, cancelled, out, inbox, owed, requests,
          garbled, crashed>>

\* "idle" before a call or notification, "reading" the read loop between
\* messages, "calling" a handler before its own call; "numbered" and not yet
\* registered; "header" and "body" to be written; "sent" while the write of a
\* call returns; "waiting" for the response; "returning", the deferred delete of
\* Call to be run; "delivering" a response.
ProcStates == {"idle", "reading", "calling", "numbered", "header", "body", "sent",
               "waiting", "returning", "delivering", "done"}

\* Mutant: the call is built before it has its number.
CallMsg_Unnumbered(p) == [kind |-> "call", id |-> 0, from |-> p]

CallMsg(p)   == [kind |-> "call", id |-> id[p], from |-> p]
NotifyMsg(p) == [kind |-> "notify", id |-> 0, from |-> p]
\* The ID of the cancelled call is encoded through a pointer to an interface, as an
\* object without fields: its number does not reach the client.
CancelMsg(p) == [kind |-> "cancel", id |-> 0, from |-> p]
\* The ID of the client's own request is left out.
ReplyMsg     == [kind |-> "reply", id |-> 0, from |-> Loop]
NoMsg        == NotifyMsg(Nobody)

Numbered == [kind : {"call", "response", "error"}, id : Nat \ {0}, from : Procs]
Messages ==
  Numbered \cup [kind : {"notify", "cancel", "reply", "request"}, id : {0}, from : Procs \cup {Nobody}]

TypeOK ==
  /\ pc \in [Procs -> ProcStates]
  /\ seq \in Nat
  /\ id \in [Procs -> Nat]
  /\ msg \in [Procs -> Messages]
  /\ rchan \in [Procs -> Seq(Procs)]
  /\ got \in [Procs -> Procs \cup {Nobody}]
  /\ cancelled \subseteq Cancellable
  /\ out \in Seq([part : {"header", "body"}, msg : Messages])
  /\ inbox \in Seq(Messages)
  /\ owed \subseteq Numbered
  /\ requests \in 0..MaxRequests
  /\ garbled \in BOOLEAN
  /\ crashed \in BOOLEAN

Init ==
  /\ pc = [p \in Procs |-> IF p = Loop THEN "reading" ELSE "idle"]
  /\ seq = 0
  /\ id = [p \in Procs |-> 0]
  /\ msg = [p \in Procs |-> NoMsg]
  /\ rchan = [p \in Procs |-> <<>>]
  /\ got = [p \in Procs |-> Nobody]
  /\ cancelled = {}
  /\ out = <<>>
  /\ inbox = <<>>
  /\ owed = {}
  /\ requests = 0
  /\ garbled = FALSE
  /\ crashed = FALSE

-----------------------------------------------------------------------------
NextID_Racy == IF seq = 0 THEN 1 ELSE seq
\* Call: atomic.AddInt64(&c.seq, 1).
NextID == seq + 1

Registered_AfterSend(p) ==
  id[p] # 0 /\ pc[p] \in {"waiting", "returning"} /\ msg[p].kind = "call"
\* The call of p is in conn.pending: from before it is sent until the deferred
\* delete.
Registered(p) ==
  id[p] # 0 /\ pc[p] \in {"header", "body", "sent", "waiting", "returning"}
            /\ msg[p].kind = "call"

RoomFor_Unbuffered(p) == pc[p] = "waiting"
\* A send to the response channel of p does not block: it has a buffer of one.
RoomFor(p) == Len(rchan[p]) < 1

GoTo(p, q) == pc' = [pc EXCEPT ![p] = q]

\* p goes on to write message m.
StartWrite(p, m) == GoTo(p, "header") /\ msg' = [msg EXCEPT ![p] = m]

\* Call: the request identifier.
TakeID(p) ==
  /\ pc[p] = IF p = Loop THEN "calling" ELSE "idle"
  /\ p \in Callers \cup {Loop}
  /\ seq' = NextID
  /\ id' = [id EXCEPT ![p] = NextID]
  /\ GoTo(p, "numbered")
  /\ UNCHANGED <<msg, rchan, got, cancelled, out, inbox, owed, requests, garbled, crashed>>

\* Call: conn.pending gets the new response channel.
Register(p) ==
  /\ pc[p] = "numbered"
  /\ StartWrite(p, CallMsg(p))
  /\ rchan' = [rchan EXCEPT ![p] = <<>>]
  /\ UNCHANGED <<seq, id, got, cancelled, out, inbox, owed, requests, garbled, crashed>>

Notify(p) ==
  /\ p \in Notifiers
  /\ pc[p] = "idle"
  /\ StartWrite(p, NotifyMsg(p))
  /\ UNCHANGED <<seq, id, rchan, got, cancelled, out, inbox, owed, requests, garbled, crashed>>

\* headerStream.Write, the header: refused when the context is cancelled, which
\* it never is for a reply or for cancelCall's own message.
WriteHeader(p) ==
  /\ pc[p] = "header"
  /\ IF p \in cancelled /\ msg[p].kind \in {"call", "notify"}
       THEN /\ GoTo(p, IF msg[p].kind = "call" THEN "returning" ELSE "done")
            /\ UNCHANGED out
       ELSE /\ out' = Append(out, [part |-> "header", msg |-> msg[p]])
            /\ GoTo(p, "body")
  /\ UNCHANGED <<seq, id, msg, rchan, got, cancelled, inbox, owed, requests, garbled, crashed>>

\* headerStream.Write, the body, and what the writer does next.
WriteBody(p) ==
  /\ pc[p] = "body"
  /\ out' = Append(out, [part |-> "body", msg |-> msg[p]])
  /\ GoTo(p, IF msg[p].kind = "call" THEN "sent"
             ELSE IF msg[p].kind = "reply" THEN "reading" ELSE "done")
  /\ UNCHANGED <<seq, id, msg, rchan, got, cancelled, inbox, owed, requests, garbled, crashed>>

\* Call: the write has returned without an error.
AwaitResponse(p) ==
  /\ pc[p] = "sent"
  /\ GoTo(p, "waiting")
  /\ UNCHANGED <<seq, id, msg, rchan, got, cancelled, out, inbox, owed, requests, garbled, crashed>>

\* Call: the response is there, or the context is cancelled.
Receive(p) ==
  /\ pc[p] = "waiting"
  /\ \/ /\ rchan[p] # <<>>
        /\ got' = [got EXCEPT ![p] = Head(rchan[p])]
        /\ rchan' = [rchan EXCEPT ![p] = Tail(@)]
     \/ p \in cancelled /\ UNCHANGED <<got, rchan>>
  /\ GoTo(p, "returning")
  /\ UNCHANGED <<seq, id, msg, cancelled, out, inbox, owed, requests, garbled, crashed>>

\* Call's deferred delete; clientConn.Call then sends $/cancelRequest when the
\* context is cancelled, and a handler goes on to its reply.
Return(p) ==
  /\ pc[p] = "returning"
  /\ IF p = Loop THEN StartWrite(p, ReplyMsg)
     ELSE IF p \in cancelled THEN StartWrite(p, CancelMsg(p))
     ELSE GoTo(p, "done") /\ UNCHANGED msg
  /\ UNCHANGED <<seq, id, rchan, got, cancelled, out, inbox, owed, requests, garbled, crashed>>

\* Somebody cancels the context of p.
Cancel(p) ==
  /\ p \in Cancellable \ cancelled
  /\ pc[p] # "done"
  /\ cancelled' = cancelled \cup {p}
  /\ UNCHANGED <<pc, seq, id, msg, rchan, got, out, inbox, owed, requests, garbled, crashed>>

-----------------------------------------------------------------------------
\* DecodeMessage: a message without a method is a response, one with a method and
\* an id a call. The error of a response has no decoding, as wireCombined declares
\* it with an interface type.
Decoded(m) == IF m.kind = "error" THEN "failure" ELSE m.kind

\* Run reads a message. An error response cannot be decoded, and a message that
\* cannot be decoded is an assertion failure; a response nobody waits for is
\* dropped; a request is handled, and answered, before anything else is read.
Read ==
  /\ pc[Loop] = "reading"
  /\ inbox # <<>>
  /\ inbox' = Tail(inbox)
  /\ LET m == Head(inbox) IN
       \/ /\ Decoded(m) = "failure"
          /\ crashed' = TRUE
          /\ UNCHANGED <<pc, msg>>
       \/ /\ Decoded(m) = "response"
          /\ IF \E p \in Procs : Registered(p) /\ id[p] = m.id
               THEN GoTo(Loop, "delivering") /\ msg' = [msg EXCEPT ![Loop] = m]
               ELSE UNCHANGED <<pc, msg>>
          /\ UNCHANGED crashed
       \/ /\ Decoded(m) = "request"
          /\ \/ HandlersCall /\ GoTo(Loop, "calling") /\ UNCHANGED msg
             \/ StartWrite(Loop, ReplyMsg)
          /\ UNCHANGED crashed
  /\ UNCHANGED <<seq, id, rchan, got, cancelled, out, owed, requests, garbled>>

\* Run: rchan <- msg. The call may be gone from conn.pending by now.
Deliver(p) ==
  /\ pc[Loop] = "delivering"
  /\ id[p] = msg[Loop].id
  /\ RoomFor(p)
  /\ rchan' = [rchan EXCEPT ![p] = Append(@, msg[Loop].from)]
  /\ GoTo(Loop, "reading")
  /\ UNCHANGED <<seq, id, msg, got, cancelled, out, inbox, owed, requests, garbled, crashed>>

-----------------------------------------------------------------------------
\* The client reads a header and as much as it says of what follows. Anything
\* but the body of that header is not a message.
PeerRead ==
  /\ ~garbled
  /\ Len(out) >= 2
  /\ LET m == out[1].msg
         whole == out[2] = [part |-> "body", msg |-> m]
     IN  /\ garbled' = ~whole
         /\ owed' = IF whole /\ m.kind = "call" THEN owed \cup {m} ELSE owed
  /\ out' = SubSeq(out, 3, Len(out))
  /\ UNCHANGED <<pc, seq, id, msg, rchan, got, cancelled, inbox, requests, crashed>>

\* The client answers a call, in any order, cancelled or not, once.
PeerAnswer(m, kind) ==
  /\ m \in owed
  /\ owed' = owed \ {m}
  /\ inbox' = Append(inbox, [m EXCEPT !.kind = kind])
  /\ UNCHANGED <<pc, seq, id, msg, rchan, got, cancelled, out, requests, garbled, crashed>>

PeerRequest ==
  /\ requests < MaxRequests
  /\ requests' = requests + 1
  /\ inbox' = Append(inbox, [kind |-> "request", id |-> 0, from |-> Nobody])
  /\ UNCHANGED <<pc, seq, id, msg, rchan, got, cancelled, out, owed, garbled, crashed>>

ProcStep(p) ==
  \/ TakeID(p) \/ Register(p) \/ Notify(p) \/ WriteHeader(p) \/ WriteBody(p)
  \/ AwaitResponse(p) \/ Receive(p) \/ Return(p)

LoopStep == Read \/ \E p \in Procs : Deliver(p)

PeerStep == PeerRead \/ \E m \in owed : PeerAnswer(m, "response")

Next ==
  /\ ~crashed
  /\ \/ \E p \in Procs : ProcStep(p) \/ Cancel(p)
     \/ LoopStep
     \/ PeerStep
     \/ PeerErrors /\ \E m \in owed : PeerAnswer(m, "error")
     \/ PeerRequest

Spec == Init /\ [][Next]_vars

\* Goroutines run, the pipe takes what is written, and the client reads and
\* answers.
FairSpec ==
  /\ Spec
  /\ \A p \in Procs : WF_vars(~crashed /\ ProcStep(p))
  /\ WF_vars(~crashed /\ LoopStep)
  /\ WF_vars(~crashed /\ PeerRead)
  /\ \A p \in Procs :
       WF_vars(~crashed /\ \E m \in owed : m.from = p /\ PeerAnswer(m, "response"))

-----------------------------------------------------------------------------
\* A response reaches the goroutine whose call it answers, whatever the order
\* of the answers and however late they come (conn.go:62-101).
OwnResponse == \A p \in Procs : got[p] \in {p, Nobody}

\* The read loop never blocks on handing over a response, not even to a call
\* that was cancelled and has stopped listening (conn.go:69-72).
LoopNeverBlocks ==
  pc[Loop] = "delivering" =>
    \A p \in Procs : id[p] = msg[Loop].id => RoomFor(p)

\* The handler that the read loop runs has called the client, whose response
\* only the read loop could take in: see the README.
LoopWaits == pc[Loop] = "waiting"

\* A call that is waiting eventually returns, in whatever order the client
\* answers: its response cannot overtake the registration (conn.go:69-70), and
\* neither responses that nobody waits for any more nor requests of the client
\* keep the read loop from it. Exempt are a client that was sent garbage, a
\* panic of Run, and a handler that calls.
CallsReturn ==
  \A p \in Callers :
    pc[p] = "waiting" ~> pc[p] = "done" \/ garbled \/ crashed \/ LoopWaits

\* With the same exemptions the read loop always comes back to reading, so that
\* a request of the client is replied to (handler.go:31, "must be called exactly
\* once").
LoopReturns ==
  pc[Loop] # "reading" ~> pc[Loop] = "reading" \/ garbled \/ crashed \/ LoopWaits

\* What the client reads is a sequence of whole messages: the stream is used
\* "by a single Conn in a safe manner" (stream.go:17-18).
FramesIntact == ~garbled
=============================================================================
