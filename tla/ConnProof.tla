------------------------------ MODULE ConnProof ------------------------------
(***************************************************************************)
(* Safety of the connection, for any number of goroutines and requests: a  *)
(* response reaches its own caller, the read loop never blocks on handing  *)
(* one over, and no call that waits is forgotten.                          *)
(*                                                                         *)
(* The argument follows the number of a call.  It is given once, and from  *)
(* then on it is at one place at most: with the goroutine that writes the  *)
(* call, on the wire, with the client, in the inbox, in the hands of the   *)
(* read loop, or in the response channel.                                  *)
(***************************************************************************)
EXTENDS Conn, SequenceTheorems, TLAPS

\* p has a number and has not written its call.
Writes(p) ==
  \/ pc[p] = "numbered"
  \/ pc[p] \in {"header", "body"} /\ msg[p].kind = "call"

\* The numbers of calls are given once, and who makes a call has one.
Numbers ==
  \A p \in Procs :
    /\ id[p] <= seq
    /\ \A q \in Procs : id[p] = id[q] /\ id[p] # 0 => p = q
    /\ pc[p] \in {"sent", "waiting", "returning"} \/ Writes(p) => id[p] # 0
    /\ pc[p] \in {"header", "body"} /\ msg[p].kind = "call" =>
         msg[p].id = id[p] /\ msg[p].from = p

\* The number of a message is that of its sender's call, or of nobody's any more.
Owned(m) == m.id \in 1..seq /\ \A q \in Procs : id[q] = m.id => m.from = q

IsAnswer(m) == m.kind \in {"response", "error"}

AllOwned ==
  /\ \A i \in DOMAIN out : out[i].msg.kind = "call" => Owned(out[i].msg)
  /\ \A m \in owed : Owned(m)
  /\ \A i \in DOMAIN inbox : IsAnswer(inbox[i]) => Owned(inbox[i])
  /\ pc[Loop] = "delivering" => Owned(msg[Loop]) /\ msg[Loop].kind = "response"
  /\ \A p \in Procs : \A i \in DOMAIN rchan[p] : rchan[p][i] = p
  /\ OwnResponse

\* The places where the call number n is.
Sent(n)     == {i \in DOMAIN out : out[i].part = "body" /\ out[i].msg.kind = "call" /\ out[i].msg.id = n}
Owed(n)     == {m \in owed : m.id = n}
Answered(n) == {i \in DOMAIN inbox : IsAnswer(inbox[i]) /\ inbox[i].id = n}

At(n, k) ==
  \/ k = 1 /\ \E p \in Procs : id[p] = n /\ Writes(p)
  \/ k = 2 /\ Sent(n) # {}
  \/ k = 3 /\ Owed(n) # {}
  \/ k = 4 /\ Answered(n) # {}
  \/ k = 5 /\ pc[Loop] = "delivering" /\ msg[Loop].id = n
  \/ k = 6 /\ \E p \in Procs : id[p] = n /\ pc[p] # "numbered" /\ rchan[p] # <<>>

\* It is at one of them at most, and there once.
OnePlace(n) == \A k, l \in 1..6 : At(n, k) /\ At(n, l) => k = l
Once(n) ==
  /\ \A i, j \in Sent(n) : i = j
  /\ \A i, j \in Owed(n) : i = j
  /\ \A i, j \in Answered(n) : i = j
Places == \A n \in Nat \ {0} : OnePlace(n) /\ Once(n)

Inv == TypeOK /\ Numbers /\ AllOwned /\ Places

LEMMA InitInv == Init => Inv
<1> SUFFICES ASSUME Init PROVE Inv
  OBVIOUS
<1>1. /\ out = <<>> /\ inbox = <<>> /\ owed = {} /\ seq = 0 /\ requests = 0
      /\ \A p \in Procs : /\ pc[p] \in {"idle", "reading"} /\ id[p] = 0
                          /\ rchan[p] = <<>> /\ got[p] = Nobody
  BY DEF Init
<1>2. TypeOK
  <2>1. NoMsg \in Messages
    BY DEF Messages, NoMsg, NotifyMsg
  <2>2. pc \in [Procs -> ProcStates] /\ id \in [Procs -> Nat] /\ msg \in [Procs -> Messages]
    BY <2>1 DEF Init, ProcStates
  <2>3. out \in Seq([part : {"header", "body"}, msg : Messages]) /\ inbox \in Seq(Messages)
    BY <1>1
  <2>4. rchan \in [Procs -> Seq(Procs)] /\ got \in [Procs -> Procs \cup {Nobody}]
    <3>1. <<>> \in Seq(Procs)
      OBVIOUS
    <3> QED
      BY <3>1 DEF Init
  <2>5. requests \in 0..MaxRequests
    BY <1>1, RequestsAssumption
  <2>6. cancelled \subseteq Cancellable /\ garbled \in BOOLEAN /\ crashed \in BOOLEAN
    BY DEF Init
  <2> QED
    BY <1>1, <2>2, <2>3, <2>4, <2>5, <2>6 DEF TypeOK
<1>3. Numbers
  BY <1>1 DEF Numbers, Writes
<1>4. AllOwned
  BY <1>1 DEF AllOwned, OwnResponse, Procs
<1>5. Places
  <2>1. \A n : Sent(n) = {} /\ Owed(n) = {} /\ Answered(n) = {}
    BY <1>1 DEF Sent, Owed, Answered
  <2>2. \A n \in Nat \ {0}, k \in 1..6 : ~At(n, k)
    BY <1>1, <2>1 DEF At, Procs
  <2> QED
    BY <2>1, <2>2 DEF Places, OnePlace, Once
<1> QED
  BY <1>2, <1>3, <1>4, <1>5 DEF Inv

-----------------------------------------------------------------------------
LEMMA Appended ==
  ASSUME NEW S, NEW s \in Seq(S), NEW e \in S
  PROVE  /\ Append(s, e) \in Seq(S)
         /\ DOMAIN Append(s, e) = DOMAIN s \cup {Len(s) + 1}
         /\ Len(s) + 1 \notin DOMAIN s
         /\ \A i \in DOMAIN s : Append(s, e)[i] = s[i]
         /\ Append(s, e)[Len(s) + 1] = e
<1>1. DOMAIN s = 1..Len(s) /\ Len(s) \in Nat
  OBVIOUS
<1>2. DOMAIN Append(s, e) = 1..(Len(s) + 1)
  BY AppendProperties, LenProperties
<1> QED
  BY <1>1, <1>2, AppendProperties

LEMMA Dropped ==
  ASSUME NEW S, NEW s \in Seq(S), NEW k \in Nat, k <= Len(s)
  PROVE  /\ SubSeq(s, k + 1, Len(s)) \in Seq(S)
         /\ \A i \in DOMAIN SubSeq(s, k + 1, Len(s)) :
              /\ i \in Nat \ {0} /\ i + k \in DOMAIN s
              /\ SubSeq(s, k + 1, Len(s))[i] = s[i + k]
         /\ DOMAIN SubSeq(s, k + 1, Len(s)) = 1..(Len(s) - k)
<1> DEFINE t == SubSeq(s, k + 1, Len(s))
<1>1. Len(s) \in Nat /\ DOMAIN s = 1..Len(s) /\ \A i \in (k + 1)..Len(s) : s[i] \in S
  BY ElementOfSeq
<1>2. /\ t \in Seq(S)
      /\ Len(t) = IF k + 1 <= Len(s) THEN Len(s) - (k + 1) + 1 ELSE 0
      /\ \A i \in 1..(Len(s) - (k + 1) + 1) : t[i] = s[(k + 1) + i - 1]
  BY <1>1, SubSeqProperties
<1> HIDE DEF t
<1>3. DOMAIN t = 1..Len(t) /\ Len(t) \in Nat
  BY <1>2, LenProperties
<1>4. Len(t) = Len(s) - k
  <2>1. CASE k + 1 <= Len(s)
    <3>1. Len(t) = Len(s) - (k + 1) + 1
      BY <1>2, <2>1
    <3>2. Len(s) - (k + 1) + 1 = Len(s) - k
      BY <1>1
    <3> QED
      BY <3>1, <3>2
  <2>2. CASE ~(k + 1 <= Len(s))
    <3>1. Len(t) = 0
      BY <1>2, <2>2
    <3>2. Len(s) \in Nat
      BY <1>1
    <3>3. Len(s) = k
      BY <2>2, <3>2
    <3> QED
      BY <3>1, <3>3
  <2> QED
    BY <2>1, <2>2
<1>5. ASSUME NEW i \in DOMAIN t
      PROVE  i \in Nat \ {0} /\ i + k \in DOMAIN s /\ t[i] = s[i + k]
  <2>1. i \in 1..(Len(s) - k)
    BY <1>3, <1>4
  <2>2. (k + 1) + i - 1 = i + k /\ Len(s) - (k + 1) + 1 = Len(s) - k
    BY <1>1, <2>1
  <2>3. i \in Nat \ {0} /\ i + k \in 1..Len(s)
    BY <1>1, <2>1
  <2>4. t[i] = s[(k + 1) + i - 1]
    BY <1>2, <2>1, <2>2
  <2> QED
    BY <1>1, <2>2, <2>3, <2>4
<1> QED
  BY <1>2, <1>5 DEF t

-----------------------------------------------------------------------------
\* A number that only moves on, from one place to the next, stays at one place.
LEMMA MovesOn ==
  ASSUME NEW n, OnePlace(n),
         \A k \in 1..6 : At(n, k)' => At(n, k) \/ (k # 1 /\ At(n, k - 1) /\ ~At(n, k - 1)')
  PROVE  OnePlace(n)'
<1> SUFFICES ASSUME NEW k \in 1..6, NEW l \in 1..6, At(n, k)', At(n, l)'
             PROVE  k = l
  BY DEF OnePlace
<1>1. CASE At(n, k) /\ At(n, l)
  BY <1>1 DEF OnePlace
<1>2. CASE At(n, k) /\ ~At(n, l)
  <2>1. l - 1 \in 1..6 /\ At(n, l - 1) /\ ~At(n, l - 1)'
    BY <1>2
  <2>2. k = l - 1
    BY <1>2, <2>1 DEF OnePlace
  <2> QED
    BY <2>1, <2>2
<1>3. CASE ~At(n, k) /\ At(n, l)
  <2>1. k - 1 \in 1..6 /\ At(n, k - 1) /\ ~At(n, k - 1)'
    BY <1>3
  <2>2. l = k - 1
    BY <1>3, <2>1 DEF OnePlace
  <2> QED
    BY <2>1, <2>2
<1>4. CASE ~At(n, k) /\ ~At(n, l)
  <2>1. /\ k - 1 \in 1..6 /\ At(n, k - 1)
        /\ l - 1 \in 1..6 /\ At(n, l - 1)
    BY <1>4
  <2>2. k - 1 = l - 1
    BY <2>1 DEF OnePlace
  <2> QED
    BY <2>2
<1> QED
  BY <1>1, <1>2, <1>3, <1>4

\* What is on the wire, with the client and in the inbox stays as it is.
LEMMA SamePlaces ==
  ASSUME UNCHANGED <<out, owed, inbox>>, NEW n
  PROVE  UNCHANGED <<Sent(n), Owed(n), Answered(n)>> /\ (Once(n) => Once(n)')
<1>1. UNCHANGED <<Sent(n), Owed(n), Answered(n)>>
  BY DEF Sent, Owed, Answered, IsAnswer
<1> QED
  BY <1>1 DEF Once

-----------------------------------------------------------------------------
(***************************************************************************)
(* Before and around the writing of a message.                             *)
(***************************************************************************)
LEMMA TakeIDInv ==
  ASSUME Inv, NEW p \in Procs, TakeID(p)
  PROVE  Inv'
<1>1. /\ pc[p] \in {"idle", "calling"}
      /\ seq' = seq + 1 /\ id' = [id EXCEPT ![p] = seq + 1]
      /\ pc' = [pc EXCEPT ![p] = "numbered"]
      /\ UNCHANGED <<msg, rchan, got, cancelled, out, inbox, owed, requests, garbled, crashed>>
  BY DEF TakeID, NextID, GoTo
<1>2. TypeOK'
  BY <1>1 DEF Inv, TypeOK, ProcStates
<1>3. Numbers'
  BY <1>1 DEF Inv, TypeOK, Numbers, Writes
<1>4. \A m : Owned(m) => Owned(m)'
  BY <1>1 DEF Inv, TypeOK, Owned
<1>5. AllOwned'
  BY <1>1, <1>4 DEF Inv, TypeOK, AllOwned, OwnResponse
<1>6. Places'
  <2> SUFFICES ASSUME NEW n \in Nat \ {0} PROVE OnePlace(n)' /\ Once(n)'
    BY DEF Places
  <2>1. UNCHANGED <<Sent(n), Owed(n), Answered(n)>> /\ Once(n)'
    BY <1>1, SamePlaces DEF Inv, Places
  <2>2. CASE n = seq + 1
    <3>1. Sent(n) = {} /\ Owed(n) = {} /\ Answered(n) = {}
      BY <2>2 DEF Inv, TypeOK, AllOwned, Owned, Sent, Owed, Answered
    <3>2. ~At(n, 5)' /\ ~At(n, 6)'
      BY <1>1, <2>2 DEF Inv, TypeOK, AllOwned, Owned, Numbers, At
    <3>3. \A k \in 2..6 : ~At(n, k)'
      BY <2>1, <3>1, <3>2 DEF At
    <3> QED
      BY <2>1, <3>3 DEF OnePlace
  <2>3. CASE n # seq + 1
    <3>1. At(n, 1)' => At(n, 1)
      BY <1>1, <2>3 DEF Inv, TypeOK, At, Writes
    <3>2. At(n, 5)' => At(n, 5)
      BY <1>1 DEF Inv, TypeOK, At
    <3>3. At(n, 6)' => At(n, 6)
      BY <1>1, <2>3 DEF Inv, TypeOK, At
    <3>4. \A k \in 1..6 : At(n, k)' => At(n, k)
      BY <2>1, <3>1, <3>2, <3>3 DEF At
    <3> QED
      BY <2>1, <3>4, MovesOn DEF Inv, Places
  <2> QED
    BY <2>2, <2>3
<1> QED
  BY <1>2, <1>3, <1>5, <1>6 DEF Inv

\* Nobody gets a number, and nothing is sent, answered or delivered.
LEMMA StayPlaces ==
  ASSUME Inv, UNCHANGED <<seq, id, out, owed, inbox>>,
         \A p \in Procs : Writes(p)' => Writes(p),
         pc'[Loop] = "delivering" => pc[Loop] = "delivering" /\ msg'[Loop] = msg[Loop],
         \A p \in Procs : pc'[p] # "numbered" /\ rchan'[p] # <<>> =>
                          pc[p] # "numbered" /\ rchan[p] # <<>>
  PROVE  Places'
<1> SUFFICES ASSUME NEW n \in Nat \ {0} PROVE OnePlace(n)' /\ Once(n)'
  BY DEF Places
<1>1. UNCHANGED <<Sent(n), Owed(n), Answered(n)>> /\ Once(n)'
  BY SamePlaces DEF Inv, Places
<1>2. At(n, 1)' => At(n, 1)
  BY DEF At
<1>3. At(n, 5)' => At(n, 5)
  BY DEF At
<1>4. At(n, 6)' => At(n, 6)
  BY DEF At
<1>5. \A k \in 1..6 : At(n, k)' => At(n, k)
  BY <1>1, <1>2, <1>3, <1>4 DEF At
<1> QED
  BY <1>1, <1>5, MovesOn DEF Inv, Places

LEMMA SameOwned ==
  ASSUME UNCHANGED <<seq, id>>
  PROVE  \A m : Owned(m)' <=> Owned(m)
  BY DEF Owned

LEMMA RegisterInv ==
  ASSUME Inv, NEW p \in Procs, Register(p)
  PROVE  Inv'
<1>1. /\ pc[p] = "numbered" /\ pc' = [pc EXCEPT ![p] = "header"]
      /\ msg' = [msg EXCEPT ![p] = CallMsg(p)]
      /\ rchan' = [rchan EXCEPT ![p] = <<>>]
      /\ UNCHANGED <<seq, id, got, cancelled, out, inbox, owed, requests, garbled, crashed>>
  BY DEF Register, StartWrite, GoTo
<1>2. id[p] \in Nat \ {0} /\ CallMsg(p) \in Messages
  <2>1. id[p] \in Nat \ {0}
    <3>1. id[p] \in Nat
      BY DEF Inv, TypeOK
    <3> QED
      BY <1>1, <3>1 DEF Inv, Numbers, Writes
  <2>2. CallMsg(p) \in Numbered
    BY <2>1 DEF CallMsg, Numbered
  <2> QED
    BY <2>1, <2>2 DEF Messages
<1>3. TypeOK'
  BY <1>1, <1>2 DEF Inv, TypeOK, ProcStates
<1>4. Numbers'
  BY <1>1, <1>2 DEF Inv, TypeOK, Numbers, Writes, CallMsg
<1>5. AllOwned'
  BY <1>1, SameOwned DEF Inv, TypeOK, AllOwned, OwnResponse
<1>6. Places'
  <2>1. \A q \in Procs : Writes(q)' => Writes(q)
    BY <1>1 DEF Inv, TypeOK, Writes
  <2>2. pc'[Loop] = "delivering" => pc[Loop] = "delivering" /\ msg'[Loop] = msg[Loop]
    BY <1>1 DEF Inv, TypeOK
  <2>3. \A q \in Procs : pc'[q] # "numbered" /\ rchan'[q] # <<>> =>
                          pc[q] # "numbered" /\ rchan[q] # <<>>
    BY <1>1 DEF Inv, TypeOK
  <2> QED
    BY <1>1, <2>1, <2>2, <2>3, StayPlaces
<1> QED
  BY <1>3, <1>4, <1>5, <1>6 DEF Inv

LEMMA NotifyInv ==
  ASSUME Inv, NEW p \in Procs, Notify(p)
  PROVE  Inv'
<1>1. /\ pc[p] = "idle" /\ pc' = [pc EXCEPT ![p] = "header"]
      /\ msg' = [msg EXCEPT ![p] = NotifyMsg(p)]
      /\ UNCHANGED <<seq, id, rchan, got, cancelled, out, inbox, owed, requests, garbled, crashed>>
  BY DEF Notify, StartWrite, GoTo
<1>2. NotifyMsg(p) \in Messages /\ NotifyMsg(p).kind = "notify"
  BY DEF NotifyMsg, Messages
<1>3. TypeOK'
  BY <1>1, <1>2 DEF Inv, TypeOK, ProcStates
<1>4. Numbers'
  BY <1>1, <1>2 DEF Inv, TypeOK, Numbers, Writes
<1>5. AllOwned'
  BY <1>1, SameOwned DEF Inv, TypeOK, AllOwned, OwnResponse
<1>6. Places'
  BY <1>1, <1>2, StayPlaces DEF Inv, TypeOK, Writes
<1> QED
  BY <1>3, <1>4, <1>5, <1>6 DEF Inv

\* What is added to the wire is the message of its writer.
LEMMA WrittenOwned ==
  ASSUME Inv, NEW p \in Procs, pc[p] \in {"header", "body"}, msg[p].kind = "call"
  PROVE  Owned(msg[p])
  BY DEF Inv, TypeOK, Numbers, Writes, Owned

LEMMA WriteHeaderInv ==
  ASSUME Inv, NEW p \in Procs, WriteHeader(p)
  PROVE  Inv'
<1> DEFINE header == [part |-> "header", msg |-> msg[p]]
<1>1. /\ pc[p] = "header"
      /\ UNCHANGED <<seq, id, msg, rchan, got, cancelled, inbox, owed, requests, garbled, crashed>>
  BY DEF WriteHeader
<1>2. PICK q \in {"returning", "done", "body"} :
        /\ pc' = [pc EXCEPT ![p] = q]
        /\ q = "returning" => msg[p].kind = "call"
        /\ out' = out \/ out' = Append(out, header)
  BY DEF WriteHeader, GoTo
<1>3. /\ header \in [part : {"header", "body"}, msg : Messages]
      /\ out \in Seq([part : {"header", "body"}, msg : Messages])
  BY DEF Inv, TypeOK
<1>4. /\ out' \in Seq([part : {"header", "body"}, msg : Messages])
      /\ \A i \in DOMAIN out' :
           \/ i \in DOMAIN out /\ out'[i] = out[i]
           \/ out'[i] = header
      /\ \A i \in DOMAIN out : i \in DOMAIN out' /\ out'[i] = out[i]
  <2>1. CASE out' = out
    BY <1>3, <2>1
  <2>2. CASE out' = Append(out, header)
    BY <1>3, <2>2, Appended
  <2> QED
    BY <1>2, <2>1, <2>2
<1>5. TypeOK'
  BY <1>1, <1>2, <1>4 DEF Inv, TypeOK, ProcStates
<1>6. Numbers'
  BY <1>1, <1>2 DEF Inv, TypeOK, Numbers, Writes
<1>7. AllOwned'
  <2>1. \A i \in DOMAIN out' : out'[i].msg.kind = "call" => Owned(out'[i].msg)
    BY <1>1, <1>4, WrittenOwned DEF Inv, AllOwned
  <2> QED
    BY <1>1, <1>2, <2>1, SameOwned DEF Inv, TypeOK, AllOwned, OwnResponse
<1>8. Places'
  <2> SUFFICES ASSUME NEW n \in Nat \ {0} PROVE OnePlace(n)' /\ Once(n)'
    BY DEF Places
  <2>1. Sent(n)' = Sent(n)
    BY <1>4 DEF Sent
  <2>2. UNCHANGED <<Owed(n), Answered(n)>>
    BY <1>1 DEF Owed, Answered, IsAnswer
  <2>3. At(n, 1)' => At(n, 1)
    BY <1>1, <1>2 DEF Inv, TypeOK, At, Writes
  <2>4. (At(n, 5)' => At(n, 5)) /\ (At(n, 6)' => At(n, 6))
    BY <1>1, <1>2 DEF Inv, TypeOK, At
  <2>5. \A k \in 1..6 : At(n, k)' => At(n, k)
    BY <2>1, <2>2, <2>3, <2>4 DEF At
  <2> QED
    BY <2>1, <2>2, <2>5, MovesOn DEF Inv, Places, Once
<1> QED
  BY <1>5, <1>6, <1>7, <1>8 DEF Inv

\* The body of a message is written: a call is on the wire now.
LEMMA WriteBodyInv ==
  ASSUME Inv, NEW p \in Procs, WriteBody(p)
  PROVE  Inv'
<1> DEFINE body == [part |-> "body", msg |-> msg[p]]
<1>1. /\ pc[p] = "body" /\ out' = Append(out, body)
      /\ UNCHANGED <<seq, id, msg, rchan, got, cancelled, inbox, owed, requests, garbled, crashed>>
  BY DEF WriteBody
<1>2. PICK s \in {"sent", "reading", "done"} :
        /\ pc' = [pc EXCEPT ![p] = s]
        /\ s = "sent" => msg[p].kind = "call"
  BY DEF WriteBody, GoTo
<1>3. /\ body \in [part : {"header", "body"}, msg : Messages]
      /\ out \in Seq([part : {"header", "body"}, msg : Messages])
  BY DEF Inv, TypeOK
<1>4. /\ out' \in Seq([part : {"header", "body"}, msg : Messages])
      /\ DOMAIN out' = DOMAIN out \cup {Len(out) + 1} /\ Len(out) + 1 \notin DOMAIN out
      /\ \A i \in DOMAIN out : out'[i] = out[i]
      /\ out'[Len(out) + 1] = body
  BY <1>1, <1>3, Appended
<1>5. TypeOK'
  BY <1>1, <1>2, <1>4 DEF Inv, TypeOK, ProcStates
<1>6. Numbers'
  BY <1>1, <1>2 DEF Inv, TypeOK, Numbers, Writes
<1>7. AllOwned'
  <2>1. \A i \in DOMAIN out' : out'[i].msg.kind = "call" => Owned(out'[i].msg)
    BY <1>1, <1>4, WrittenOwned DEF Inv, AllOwned
  <2> QED
    BY <1>1, <1>2, <2>1, SameOwned DEF Inv, TypeOK, AllOwned, OwnResponse
<1>8. Places'
  <2> SUFFICES ASSUME NEW n \in Nat \ {0} PROVE OnePlace(n)' /\ Once(n)'
    BY DEF Places
  <2>1. UNCHANGED <<Owed(n), Answered(n)>>
    BY <1>1 DEF Owed, Answered, IsAnswer
  <2>2. At(n, 1)' => At(n, 1)
    BY <1>1, <1>2 DEF Inv, TypeOK, At, Writes
  <2>3. (At(n, 5)' => At(n, 5)) /\ (At(n, 6)' => At(n, 6))
    BY <1>1, <1>2 DEF Inv, TypeOK, At
  <2>4. CASE msg[p].kind = "call" /\ id[p] = n
    <3>1. Sent(n)' = Sent(n) \cup {Len(out) + 1}
      BY <1>1, <1>4, <2>4 DEF Inv, Numbers, Sent
    <3>2. At(n, 1)
      BY <1>1, <2>4 DEF At, Writes
    <3>3. Sent(n) = {}
      <4>1. ~At(n, 2)
        BY <3>2 DEF Inv, Places, OnePlace
      <4> QED
        BY <4>1 DEF At
    <3>4. ~At(n, 1)'
      <4>1. \A q \in Procs : id[q] = n => q = p
        BY <2>4 DEF Inv, Numbers
      <4>2. ~Writes(p)'
        BY <1>2 DEF Inv, TypeOK, Writes
      <4> QED
        BY <1>1, <4>1, <4>2 DEF At
    <3>5. \A k \in 1..6 : At(n, k)' => At(n, k) \/ (k # 1 /\ At(n, k - 1) /\ ~At(n, k - 1)')
      BY <2>1, <2>3, <3>2, <3>4 DEF At
    <3>6. OnePlace(n)'
      BY <3>5, MovesOn DEF Inv, Places
    <3> QED
      BY <2>1, <3>1, <3>3, <3>6 DEF Inv, Places, Once
  <2>5. CASE ~(msg[p].kind = "call" /\ id[p] = n)
    <3>1. Sent(n)' = Sent(n)
      BY <1>1, <1>4, <2>5 DEF Inv, Numbers, Sent
    <3>2. \A k \in 1..6 : At(n, k)' => At(n, k)
      BY <2>1, <2>2, <2>3, <3>1 DEF At
    <3> QED
      BY <2>1, <3>1, <3>2, MovesOn DEF Inv, Places, Once
  <2> QED
    BY <2>4, <2>5
<1> QED
  BY <1>5, <1>6, <1>7, <1>8 DEF Inv

-----------------------------------------------------------------------------
(***************************************************************************)
(* After the write.                                                        *)
(***************************************************************************)
LEMMA AwaitInv ==
  ASSUME Inv, NEW p \in Procs, AwaitResponse(p)
  PROVE  Inv'
<1>1. /\ pc[p] = "sent" /\ pc' = [pc EXCEPT ![p] = "waiting"]
      /\ UNCHANGED <<seq, id, msg, rchan, got, cancelled, out, inbox, owed, requests, garbled, crashed>>
  BY DEF AwaitResponse, GoTo
<1>2. TypeOK'
  BY <1>1 DEF Inv, TypeOK, ProcStates
<1>3. Numbers'
  BY <1>1 DEF Inv, TypeOK, Numbers, Writes
<1>4. AllOwned'
  BY <1>1, SameOwned DEF Inv, TypeOK, AllOwned, OwnResponse
<1>5. Places'
  BY <1>1, StayPlaces DEF Inv, TypeOK, Writes
<1> QED
  BY <1>2, <1>3, <1>4, <1>5 DEF Inv

LEMMA ReceiveInv ==
  ASSUME Inv, NEW p \in Procs, Receive(p)
  PROVE  Inv'
<1>1. /\ pc[p] = "waiting" /\ pc' = [pc EXCEPT ![p] = "returning"]
      /\ UNCHANGED <<seq, id, msg, cancelled, out, inbox, owed, requests, garbled, crashed>>
  BY DEF Receive, GoTo
<1>2. rchan[p] \in Seq(Procs) /\ \A i \in DOMAIN rchan[p] : rchan[p][i] = p
  BY DEF Inv, TypeOK, AllOwned
<1>3. /\ rchan' \in [Procs -> Seq(Procs)] /\ got' \in [Procs -> Procs \cup {Nobody}]
      /\ \A q \in Procs : /\ rchan'[q] # <<>> => rchan[q] # <<>>
                          /\ \A i \in DOMAIN rchan'[q] : rchan'[q][i] = q
                          /\ got'[q] \in {q, Nobody}
  <2>1. CASE UNCHANGED <<got, rchan>>
    BY <2>1 DEF Inv, TypeOK, AllOwned, OwnResponse
  <2>2. CASE /\ rchan[p] # <<>>
             /\ got' = [got EXCEPT ![p] = Head(rchan[p])]
             /\ rchan' = [rchan EXCEPT ![p] = Tail(@)]
    <3>1. /\ Tail(rchan[p]) \in Seq(Procs)
          /\ \A i \in DOMAIN Tail(rchan[p]) : Tail(rchan[p])[i] = rchan[p][i + 1] /\ i + 1 \in DOMAIN rchan[p]
          /\ Head(rchan[p]) = p
      BY <1>2, <2>2
    <3>2. \A i \in DOMAIN Tail(rchan[p]) : Tail(rchan[p])[i] = p
      BY <1>2, <3>1
    <3>3. /\ rchan' \in [Procs -> Seq(Procs)]
          /\ \A q \in Procs : rchan'[q] = IF q = p THEN Tail(rchan[p]) ELSE rchan[q]
      BY <2>2, <3>1 DEF Inv, TypeOK
    <3>4. /\ got' \in [Procs -> Procs \cup {Nobody}]
          /\ \A q \in Procs : got'[q] \in {q, Nobody}
      BY <2>2, <3>1 DEF Inv, TypeOK, AllOwned, OwnResponse
    <3> QED
      BY <2>2, <3>2, <3>3, <3>4 DEF Inv, AllOwned
  <2> QED
    BY <2>1, <2>2 DEF Receive
<1>4. TypeOK'
  BY <1>1, <1>3 DEF Inv, TypeOK, ProcStates
<1>5. Numbers'
  BY <1>1 DEF Inv, TypeOK, Numbers, Writes
<1>6. AllOwned'
  BY <1>1, <1>3, SameOwned DEF Inv, TypeOK, AllOwned, OwnResponse
<1>7. Places'
  <2>1. \A q \in Procs : Writes(q)' => Writes(q)
    BY <1>1 DEF Inv, TypeOK, Writes
  <2>2. pc'[Loop] = "delivering" => pc[Loop] = "delivering" /\ msg'[Loop] = msg[Loop]
    BY <1>1 DEF Inv, TypeOK
  <2>3. \A q \in Procs : pc'[q] # "numbered" /\ rchan'[q] # <<>> =>
                          pc[q] # "numbered" /\ rchan[q] # <<>>
    BY <1>1, <1>3 DEF Inv, TypeOK
  <2> QED
    BY <1>1, <2>1, <2>2, <2>3, StayPlaces
<1> QED
  BY <1>4, <1>5, <1>6, <1>7 DEF Inv

LEMMA ReturnInv ==
  ASSUME Inv, NEW p \in Procs, Return(p)
  PROVE  Inv'
<1>1. /\ pc[p] = "returning"
      /\ UNCHANGED <<seq, id, rchan, got, cancelled, out, inbox, owed, requests, garbled, crashed>>
  BY DEF Return
<1>2. id[p] \in Nat \ {0}
  BY <1>1 DEF Inv, TypeOK, Numbers
<1>3. PICK m \in Messages :
        /\ m.kind # "call"
        /\ \/ pc' = [pc EXCEPT ![p] = "header"] /\ msg' = [msg EXCEPT ![p] = m]
           \/ pc' = [pc EXCEPT ![p] = "done"] /\ UNCHANGED msg
  <2>1. ReplyMsg \in Messages /\ ReplyMsg.kind # "call"
    BY DEF ReplyMsg, Messages, Procs
  <2>2. CancelMsg(p) \in Messages /\ CancelMsg(p).kind # "call"
    BY <1>2 DEF CancelMsg, Messages, Numbered
  <2> QED
    BY <2>1, <2>2 DEF Return, StartWrite, GoTo
<1>4. TypeOK'
  BY <1>1, <1>3 DEF Inv, TypeOK, ProcStates
<1>5. Numbers'
  BY <1>1, <1>3 DEF Inv, TypeOK, Numbers, Writes
<1>6. pc'[Loop] = "delivering" => pc[Loop] = "delivering" /\ msg'[Loop] = msg[Loop]
  <2>1. Loop \in Procs
    BY DEF Procs
  <2>2. pc'[p] \in {"header", "done"}
    BY <1>3 DEF Inv, TypeOK
  <2>3. Loop # p => pc'[Loop] = pc[Loop] /\ msg'[Loop] = msg[Loop]
    BY <1>3, <2>1 DEF Inv, TypeOK
  <2> QED
    BY <2>2, <2>3
<1>7. AllOwned'
  BY <1>1, <1>6, SameOwned DEF Inv, AllOwned, OwnResponse
<1>8. Places'
  <2>1. \A q \in Procs : Writes(q)' => Writes(q)
    BY <1>1, <1>3 DEF Inv, TypeOK, Writes
  <2>2. \A q \in Procs : pc'[q] # "numbered" => pc[q] # "numbered"
    BY <1>1, <1>3 DEF Inv, TypeOK
  <2> QED
    BY <1>1, <1>6, <2>1, <2>2, StayPlaces
<1> QED
  BY <1>4, <1>5, <1>7, <1>8 DEF Inv

-----------------------------------------------------------------------------
(***************************************************************************)
(* The read loop.                                                          *)
(***************************************************************************)
LEMMA ReadInv ==
  ASSUME Inv, Read
  PROVE  Inv'
<1> DEFINE m == Head(inbox)
<1>1. /\ pc[Loop] = "reading" /\ inbox # <<>> /\ inbox' = Tail(inbox)
      /\ UNCHANGED <<seq, id, rchan, got, cancelled, out, owed, requests, garbled>>
  BY DEF Read
<1>2. Loop \in Procs
  BY DEF Procs
<1>3. /\ m \in Messages /\ 1 \in DOMAIN inbox /\ m = inbox[1]
      /\ inbox' \in Seq(Messages)
      /\ \A i \in DOMAIN inbox' : /\ i \in Nat \ {0} /\ i + 1 \in DOMAIN inbox
                                  /\ inbox'[i] = inbox[i + 1]
  <2>1. inbox \in Seq(Messages)
    BY DEF Inv, TypeOK
  <2>2. 1 <= Len(inbox) /\ Len(inbox) \in Nat /\ DOMAIN inbox = 1..Len(inbox)
    BY <1>1, <2>1
  <2>3. inbox' = SubSeq(inbox, 1 + 1, Len(inbox))
    BY <1>1, <2>1, TailIsSubSeq
  <2>4. m \in Messages /\ m = inbox[1]
    BY <1>1, <2>1, HeadTailProperties
  <2> QED
    BY <2>1, <2>2, <2>3, <2>4, Dropped
<1> HIDE DEF m
<1>4. PICK q \in {"reading", "delivering", "calling", "header"}, w \in Messages :
        /\ pc' = [pc EXCEPT ![Loop] = q] /\ msg' = [msg EXCEPT ![Loop] = w]
        /\ q = "delivering" => w = m /\ m.kind = "response"
        /\ q = "header" => w.kind = "reply"
        /\ crashed' \in BOOLEAN
  <2>1. /\ pc = [pc EXCEPT ![Loop] = "reading"]
        /\ msg = [msg EXCEPT ![Loop] = msg[Loop]] /\ msg[Loop] \in Messages
        /\ crashed \in BOOLEAN
    BY <1>1, <1>2 DEF Inv, TypeOK
  <2>2. ReplyMsg \in Messages /\ ReplyMsg.kind = "reply"
    BY DEF ReplyMsg, Messages, Procs
  <2>3. CASE UNCHANGED <<pc, msg>>
    BY <2>1, <2>3 DEF Read
  <2>4. CASE GoTo(Loop, "delivering") /\ msg' = [msg EXCEPT ![Loop] = m] /\ Decoded(m) = "response"
    <3>1. m.kind = "response"
      BY <2>4 DEF Decoded
    <3> QED
      BY <1>3, <2>1, <2>4, <3>1 DEF Read, GoTo
  <2>5. CASE GoTo(Loop, "calling") /\ UNCHANGED msg
    BY <2>1, <2>5 DEF Read, GoTo
  <2>6. CASE StartWrite(Loop, ReplyMsg)
    BY <2>1, <2>2, <2>6 DEF Read, StartWrite, GoTo
  <2> QED
    BY <2>3, <2>4, <2>5, <2>6 DEF Read, m
<1>5. TypeOK'
  BY <1>1, <1>3, <1>4 DEF Inv, TypeOK, ProcStates
<1>6. Numbers'
  BY <1>1, <1>2, <1>4 DEF Inv, TypeOK, Numbers, Writes
<1>7. AllOwned'
  <2>1. \A i \in DOMAIN inbox' : IsAnswer(inbox'[i]) => Owned(inbox'[i])
    BY <1>3 DEF Inv, AllOwned
  <2>2. pc'[Loop] = "delivering" => Owned(msg'[Loop]) /\ msg'[Loop].kind = "response"
    BY <1>2, <1>3, <1>4 DEF Inv, TypeOK, AllOwned, IsAnswer
  <2> QED
    BY <1>1, <2>1, <2>2, SameOwned DEF Inv, AllOwned, OwnResponse
<1>8. Places'
  <2> SUFFICES ASSUME NEW n \in Nat \ {0} PROVE OnePlace(n)' /\ Once(n)'
    BY DEF Places
  <2>1. UNCHANGED <<Sent(n), Owed(n)>>
    BY <1>1 DEF Sent, Owed
  <2>2. \A i \in Answered(n)' : i \in Nat \ {0} /\ i + 1 \in Answered(n)
    BY <1>3 DEF Answered, IsAnswer
  <2>3. \A i, j \in Answered(n)' : i = j
    BY <2>2 DEF Inv, Places, Once
  <2>4. At(n, 1)' => At(n, 1)
    <3>1. \A p \in Procs : Writes(p)' => Writes(p)
      BY <1>1, <1>2, <1>4 DEF Inv, TypeOK, Writes
    <3> QED
      BY <1>1, <3>1 DEF At
  <2>5. At(n, 6)' => At(n, 6)
    <3>1. \A p \in Procs : pc'[p] # "numbered" => pc[p] # "numbered"
      BY <1>1, <1>2, <1>4 DEF Inv, TypeOK
    <3> QED
      BY <1>1, <3>1 DEF At
  <2>6. At(n, 4)' => At(n, 4)
    BY <2>2 DEF At
  <2>7. At(n, 5)' => At(n, 4) /\ ~At(n, 4)'
    <3> SUFFICES ASSUME At(n, 5)' PROVE At(n, 4) /\ ~At(n, 4)'
      OBVIOUS
    <3>1. pc'[Loop] = "delivering" /\ msg'[Loop].id = n
      BY DEF At
    <3>2. m.id = n /\ m.kind = "response"
      BY <1>2, <1>4, <3>1 DEF Inv, TypeOK
    <3>3. 1 \in Answered(n)
      BY <1>3, <3>2 DEF Answered, IsAnswer
    <3>4. Answered(n)' = {}
      BY <2>2, <3>3 DEF Inv, Places, Once
    <3> QED
      BY <3>3, <3>4 DEF At
  <2>8. \A k \in 1..6 : At(n, k)' => At(n, k) \/ (k # 1 /\ At(n, k - 1) /\ ~At(n, k - 1)')
    <3>1. At(n, 2)' => At(n, 2)
      BY <2>1 DEF At
    <3>2. At(n, 3)' => At(n, 3)
      BY <2>1 DEF At
    <3> QED
      BY <2>4, <2>5, <2>6, <2>7, <3>1, <3>2
  <2>9. OnePlace(n)'
    BY <2>8, MovesOn DEF Inv, Places
  <2> QED
    BY <2>1, <2>3, <2>9 DEF Inv, Places, Once
<1> QED
  BY <1>5, <1>6, <1>7, <1>8 DEF Inv

LEMMA DeliverInv ==
  ASSUME Inv, NEW p \in Procs, Deliver(p)
  PROVE  Inv'
<1>1. /\ pc[Loop] = "delivering" /\ id[p] = msg[Loop].id
      /\ rchan' = [rchan EXCEPT ![p] = Append(@, msg[Loop].from)]
      /\ pc' = [pc EXCEPT ![Loop] = "reading"]
      /\ UNCHANGED <<seq, id, msg, got, cancelled, out, inbox, owed, requests, garbled, crashed>>
  BY DEF Deliver, GoTo
<1>2. Loop \in Procs
  BY DEF Procs
<1>3. msg[Loop].from = p /\ id[p] # 0
  BY <1>1 DEF Inv, TypeOK, AllOwned, Owned
<1>4. /\ rchan' \in [Procs -> Seq(Procs)]
      /\ \A q \in Procs \ {p} : rchan'[q] = rchan[q]
      /\ \A i \in DOMAIN rchan'[p] : rchan'[p][i] = p
  <2>1. rchan[p] \in Seq(Procs) /\ \A i \in DOMAIN rchan[p] : rchan[p][i] = p
    BY DEF Inv, TypeOK, AllOwned
  <2>2. /\ Append(rchan[p], p) \in Seq(Procs)
        /\ \A i \in DOMAIN Append(rchan[p], p) : Append(rchan[p], p)[i] = p
    BY <2>1, Appended
  <2> QED
    BY <1>1, <1>3, <2>2 DEF Inv, TypeOK
<1>5. TypeOK'
  BY <1>1, <1>4 DEF Inv, TypeOK, ProcStates
<1>6. Numbers'
  BY <1>1, <1>2 DEF Inv, TypeOK, Numbers, Writes
<1>7. AllOwned'
  <2>1. pc'[Loop] # "delivering"
    BY <1>1, <1>2 DEF Inv, TypeOK
  <2>2. \A q \in Procs : \A i \in DOMAIN rchan'[q] : rchan'[q][i] = q
    BY <1>4 DEF Inv, AllOwned
  <2> QED
    BY <1>1, <2>1, <2>2, SameOwned DEF Inv, AllOwned, OwnResponse
<1>8. Places'
  <2> SUFFICES ASSUME NEW n \in Nat \ {0} PROVE OnePlace(n)' /\ Once(n)'
    BY DEF Places
  <2>1. UNCHANGED <<Sent(n), Owed(n), Answered(n)>> /\ Once(n)'
    BY <1>1, SamePlaces DEF Inv, Places
  <2>2. At(n, 1)' => At(n, 1)
    <3>1. \A q \in Procs : Writes(q)' => Writes(q)
      BY <1>1, <1>2 DEF Inv, TypeOK, Writes
    <3> QED
      BY <1>1, <3>1 DEF At
  <2>3. ~At(n, 5)'
    BY <1>1, <1>2 DEF Inv, TypeOK, At
  <2>4. At(n, 6)' => At(n, 6) \/ At(n, 5)
    <3> SUFFICES ASSUME NEW q \in Procs, id[q] = n, pc'[q] # "numbered", rchan'[q] # <<>>
                 PROVE  At(n, 6) \/ At(n, 5)
      BY <1>1 DEF At
    <3>1. CASE q = p
      BY <1>1, <3>1 DEF At
    <3>2. CASE q # p
      <4>1. pc[q] # "numbered" /\ rchan[q] # <<>>
        BY <1>1, <1>2, <1>4, <3>2 DEF Inv, TypeOK
      <4> QED
        BY <4>1 DEF At
    <3> QED
      BY <3>1, <3>2
  <2>5. \A k \in 1..6 : At(n, k)' => At(n, k) \/ (k # 1 /\ At(n, k - 1) /\ ~At(n, k - 1)')
    <3>1. (At(n, 2)' => At(n, 2)) /\ (At(n, 3)' => At(n, 3)) /\ (At(n, 4)' => At(n, 4))
      BY <2>1 DEF At
    <3> QED
      BY <2>2, <2>3, <2>4, <3>1
  <2> QED
    BY <2>1, <2>5, MovesOn DEF Inv, Places
<1> QED
  BY <1>5, <1>6, <1>7, <1>8 DEF Inv

-----------------------------------------------------------------------------
(***************************************************************************)
(* The client.                                                             *)
(***************************************************************************)
\* The goroutines are not touched, so only the wire, the client and the inbox
\* decide where a number is.
LEMMA ProcsStay ==
  ASSUME Inv, UNCHANGED <<pc, seq, id, msg, rchan>>, NEW n
  PROVE  /\ Numbers'
         /\ At(n, 1)' <=> At(n, 1)
         /\ At(n, 5)' <=> At(n, 5)
         /\ At(n, 6)' <=> At(n, 6)
<1>1. Numbers'
  BY DEF Inv, Numbers, Writes
<1>2. At(n, 1)' <=> At(n, 1)
  BY DEF At, Writes
<1>3. (At(n, 5)' <=> At(n, 5)) /\ (At(n, 6)' <=> At(n, 6))
  BY DEF At
<1> QED
  BY <1>1, <1>2, <1>3

LEMMA PeerReadInv ==
  ASSUME Inv, PeerRead
  PROVE  Inv'
<1> DEFINE Parts == [part : {"header", "body"}, msg : Messages]
<1> DEFINE m == out[1].msg
<1> DEFINE whole == out[2] = [part |-> "body", msg |-> m]
<1>1. /\ Len(out) >= 2 /\ out' = SubSeq(out, 3, Len(out))
      /\ garbled' = ~whole
      /\ owed' = IF whole /\ m.kind = "call" THEN owed \cup {m} ELSE owed
      /\ UNCHANGED <<pc, seq, id, msg, rchan, got, cancelled, inbox, requests, crashed>>
  BY DEF PeerRead
<1>2. out \in Seq(Parts) /\ Len(out) \in Nat /\ DOMAIN out = 1..Len(out)
  BY DEF Inv, TypeOK
<1>3. 1 \in DOMAIN out /\ 2 \in DOMAIN out /\ m \in Messages
  <2>1. 1 \in DOMAIN out /\ 2 \in DOMAIN out
    BY <1>1, <1>2
  <2>2. out[1] \in Parts
    BY <1>2, <2>1, ElementOfSeq
  <2> QED
    BY <2>1, <2>2
<1>4. /\ out' \in Seq(Parts)
      /\ \A i \in DOMAIN out' : i \in Nat \ {0} /\ i + 2 \in DOMAIN out /\ out'[i] = out[i + 2]
  <2> HIDE DEF Parts, m, whole
  <2>1. ASSUME NEW k \in Nat, k = 2
        PROVE  /\ SubSeq(out, k + 1, Len(out)) \in Seq(Parts)
               /\ \A i \in DOMAIN SubSeq(out, k + 1, Len(out)) :
                    /\ i \in Nat \ {0} /\ i + k \in DOMAIN out
                    /\ SubSeq(out, k + 1, Len(out))[i] = out[i + k]
    <3>1. k <= Len(out)
      BY <1>1, <2>1
    <3> QED
      BY <1>2, <3>1, Dropped
  <2>2. SubSeq(out, 2 + 1, Len(out)) = out'
    BY <1>1
  <2> QED
    BY <2>1, <2>2
<1> HIDE DEF m, whole
<1>5. TypeOK'
  <2>1. m.kind = "call" => m \in Numbered
    BY <1>3 DEF Messages
  <2>2. owed' \subseteq Numbered
    BY <1>1, <2>1 DEF Inv, TypeOK
  <2>3. garbled' \in BOOLEAN
    BY <1>1 DEF whole
  <2> QED
    BY <1>1, <1>4, <2>2, <2>3 DEF Inv, TypeOK
<1>6. AllOwned'
  <2>1. \A i \in DOMAIN out' : out'[i].msg.kind = "call" => Owned(out'[i].msg)
    BY <1>4 DEF Inv, AllOwned
  <2>2. \A w \in owed' : Owned(w)
    BY <1>1, <1>3 DEF Inv, AllOwned, m
  <2> QED
    BY <1>1, <2>1, <2>2, SameOwned DEF Inv, AllOwned, OwnResponse
<1>7. Places'
  <2> SUFFICES ASSUME NEW n \in Nat \ {0} PROVE OnePlace(n)' /\ Once(n)'
    BY DEF Places
  <2>1. Answered(n)' = Answered(n)
    BY <1>1 DEF Answered, IsAnswer
  <2>2. \A i \in Sent(n)' : i \in Nat \ {0} /\ i + 2 \in Sent(n)
    BY <1>4 DEF Sent
  <2>3. \A i, j \in Sent(n)' : i = j
    BY <2>2 DEF Inv, Places, Once
  <2>4. At(n, 2)' => At(n, 2)
    BY <2>2 DEF At
  <2>5. At(n, 4)' <=> At(n, 4)
    BY <2>1 DEF At
  <2>6. CASE whole /\ m.kind = "call" /\ m.id = n
    <3>1. 2 \in Sent(n)
      BY <1>3, <2>6 DEF Sent, whole
    <3>2. Sent(n)' = {}
      BY <2>2, <3>1 DEF Inv, Places, Once
    <3>3. At(n, 2) /\ ~At(n, 2)'
      BY <3>1, <3>2 DEF At
    <3>4. Owed(n) = {}
      <4>1. ~At(n, 3)
        BY <3>3 DEF Inv, Places, OnePlace
      <4> QED
        BY <4>1 DEF At
    <3>5. Owed(n)' = {m}
      BY <1>1, <2>6, <3>4 DEF Owed
    <3>6. \A k \in 1..6 : At(n, k)' => At(n, k) \/ (k # 1 /\ At(n, k - 1) /\ ~At(n, k - 1)')
      BY <1>1, <2>4, <2>5, <3>3, ProcsStay
    <3> QED
      BY <2>1, <2>3, <3>5, <3>6, MovesOn DEF Inv, Places, Once
  <2>7. CASE ~(whole /\ m.kind = "call" /\ m.id = n)
    <3>1. Owed(n)' = Owed(n)
      BY <1>1, <2>7 DEF Owed
    <3>2. At(n, 3)' => At(n, 3)
      BY <3>1 DEF At
    <3>3. \A k \in 1..6 : At(n, k)' => At(n, k)
      BY <1>1, <2>4, <2>5, <3>2, ProcsStay
    <3> QED
      BY <2>1, <2>3, <3>1, <3>3, MovesOn DEF Inv, Places, Once
  <2> QED
    BY <2>6, <2>7
<1> QED
  BY <1>1, <1>5, <1>6, <1>7, ProcsStay DEF Inv

LEMMA PeerAnswerInv ==
  ASSUME Inv, NEW m \in owed, NEW kind \in {"response", "error"}, PeerAnswer(m, kind)
  PROVE  Inv'
<1> DEFINE answer == [m EXCEPT !.kind = kind]
<1>1. /\ owed' = owed \ {m} /\ inbox' = Append(inbox, answer)
      /\ UNCHANGED <<pc, seq, id, msg, rchan, got, cancelled, out, requests, garbled, crashed>>
  BY DEF PeerAnswer
<1>2. m \in Numbered /\ inbox \in Seq(Messages)
  BY DEF Inv, TypeOK
<1>3. /\ answer \in Messages /\ IsAnswer(answer)
      /\ answer.id = m.id /\ answer.from = m.from
  <2>1. answer \in Numbered /\ answer.kind = kind /\ answer.id = m.id /\ answer.from = m.from
    BY <1>2 DEF Numbered
  <2> QED
    BY <2>1 DEF Messages, IsAnswer
<1> HIDE DEF answer
<1>4. /\ inbox' \in Seq(Messages)
      /\ DOMAIN inbox' = DOMAIN inbox \cup {Len(inbox) + 1}
      /\ \A i \in DOMAIN inbox : inbox'[i] = inbox[i]
      /\ inbox'[Len(inbox) + 1] = answer /\ Len(inbox) + 1 \notin DOMAIN inbox
  BY <1>1, <1>2, <1>3, Appended
<1>5. TypeOK'
  BY <1>1, <1>4 DEF Inv, TypeOK
<1>6. AllOwned'
  <2>1. Owned(answer)
    BY <1>3 DEF Inv, AllOwned, Owned
  <2>2. \A i \in DOMAIN inbox' : IsAnswer(inbox'[i]) => Owned(inbox'[i])
    BY <1>4, <2>1 DEF Inv, AllOwned
  <2> QED
    BY <1>1, <2>2, SameOwned DEF Inv, AllOwned, OwnResponse
<1>7. Places'
  <2> SUFFICES ASSUME NEW n \in Nat \ {0} PROVE OnePlace(n)' /\ Once(n)'
    BY DEF Places
  <2>1. Sent(n)' = Sent(n)
    BY <1>1 DEF Sent
  <2>2. At(n, 2)' <=> At(n, 2)
    BY <2>1 DEF At
  <2>3. \A v \in Owed(n)' : v \in Owed(n)
    BY <1>1 DEF Owed
  <2>4. At(n, 3)' => At(n, 3)
    BY <2>3 DEF At
  <2>5. CASE m.id = n
    <3>1. m \in Owed(n)
      BY <2>5 DEF Owed
    <3>2. Owed(n)' = {}
      BY <1>1, <2>3, <3>1 DEF Inv, Places, Once, Owed
    <3>3. At(n, 3) /\ ~At(n, 3)'
      BY <3>1, <3>2 DEF At
    <3>4. Answered(n) = {}
      <4>1. ~At(n, 4)
        BY <3>3 DEF Inv, Places, OnePlace
      <4> QED
        BY <4>1 DEF At
    <3>5. Answered(n)' = {Len(inbox) + 1}
      <4>1. \A i \in DOMAIN inbox : ~(IsAnswer(inbox[i]) /\ inbox[i].id = n)
        BY <3>4 DEF Answered
      <4> QED
        BY <1>3, <1>4, <2>5, <4>1 DEF Answered, IsAnswer
    <3>6. \A k \in 1..6 : At(n, k)' => At(n, k) \/ (k # 1 /\ At(n, k - 1) /\ ~At(n, k - 1)')
      BY <1>1, <2>2, <2>4, <3>3, ProcsStay
    <3> QED
      BY <2>1, <3>2, <3>5, <3>6, MovesOn DEF Inv, Places, Once
  <2>6. CASE m.id # n
    <3>1. Answered(n)' = Answered(n)
      BY <1>3, <1>4, <2>6 DEF Answered, IsAnswer
    <3>2. At(n, 4)' => At(n, 4)
      BY <3>1 DEF At
    <3>3. \A k \in 1..6 : At(n, k)' => At(n, k)
      BY <1>1, <2>2, <2>4, <3>2, ProcsStay
    <3> QED
      BY <2>1, <2>3, <3>1, <3>3, MovesOn DEF Inv, Places, Once
  <2> QED
    BY <2>5, <2>6
<1> QED
  BY <1>1, <1>5, <1>6, <1>7, ProcsStay DEF Inv

LEMMA PeerRequestInv ==
  ASSUME Inv, PeerRequest
  PROVE  Inv'
<1> DEFINE request == [kind |-> "request", id |-> 0, from |-> Nobody]
<1>1. /\ requests < MaxRequests /\ requests' = requests + 1
      /\ inbox' = Append(inbox, request)
      /\ UNCHANGED <<pc, seq, id, msg, rchan, got, cancelled, out, owed, garbled, crashed>>
  BY DEF PeerRequest
<1>2. request \in Messages /\ ~IsAnswer(request) /\ inbox \in Seq(Messages)
  BY DEF Inv, TypeOK, Messages, IsAnswer
<1> HIDE DEF request
<1>3. /\ inbox' \in Seq(Messages)
      /\ DOMAIN inbox' = DOMAIN inbox \cup {Len(inbox) + 1}
      /\ \A i \in DOMAIN inbox : inbox'[i] = inbox[i]
      /\ inbox'[Len(inbox) + 1] = request
  BY <1>1, <1>2, Appended
<1>4. TypeOK'
  <2>1. requests' \in 0..MaxRequests
    BY <1>1, RequestsAssumption DEF Inv, TypeOK
  <2> QED
    BY <1>1, <1>3, <2>1 DEF Inv, TypeOK
<1>5. AllOwned'
  <2>1. \A i \in DOMAIN inbox' : IsAnswer(inbox'[i]) => Owned(inbox'[i])
    BY <1>2, <1>3 DEF Inv, AllOwned
  <2> QED
    BY <1>1, <2>1, SameOwned DEF Inv, AllOwned, OwnResponse
<1>6. Places'
  <2> SUFFICES ASSUME NEW n \in Nat \ {0} PROVE OnePlace(n)' /\ Once(n)'
    BY DEF Places
  <2>1. UNCHANGED <<Sent(n), Owed(n)>>
    BY <1>1 DEF Sent, Owed
  <2>2. Answered(n)' = Answered(n)
    BY <1>2, <1>3 DEF Answered, IsAnswer
  <2>3. (At(n, 2)' => At(n, 2)) /\ (At(n, 3)' => At(n, 3)) /\ (At(n, 4)' => At(n, 4))
    BY <2>1, <2>2 DEF At
  <2>4. \A k \in 1..6 : At(n, k)' => At(n, k)
    BY <1>1, <2>3, ProcsStay
  <2> QED
    BY <2>1, <2>2, <2>4, MovesOn DEF Inv, Places, Once
<1> QED
  BY <1>1, <1>4, <1>5, <1>6, ProcsStay DEF Inv

-----------------------------------------------------------------------------
\* A step that touches none of what the invariant is about.
LEMMA IdleInv ==
  ASSUME Inv, UNCHANGED <<pc, seq, id, msg, rchan, got, out, inbox, owed, requests, garbled, crashed>>,
         cancelled' \subseteq Cancellable
  PROVE  Inv'
<1>1. TypeOK'
  BY DEF Inv, TypeOK
<1>2. Numbers'
  BY DEF Inv, Numbers, Writes
<1>3. AllOwned'
  BY SameOwned DEF Inv, AllOwned, OwnResponse
<1>4. Places'
  BY StayPlaces DEF Writes
<1> QED
  BY <1>1, <1>2, <1>3, <1>4 DEF Inv

LEMMA StepInv == Inv /\ [Next]_vars => Inv'
<1> SUFFICES ASSUME Inv, [Next]_vars PROVE Inv'
  OBVIOUS
<1>1. ASSUME NEW p \in Procs, ProcStep(p) PROVE Inv'
  BY <1>1, TakeIDInv, RegisterInv, NotifyInv, WriteHeaderInv, WriteBodyInv, AwaitInv,
     ReceiveInv, ReturnInv DEF ProcStep
<1>2. ASSUME NEW p \in Procs, Cancel(p) PROVE Inv'
  <2>1. cancelled' \subseteq Cancellable
    BY <1>2 DEF Cancel, Inv, TypeOK
  <2> QED
    BY <1>2, <2>1, IdleInv DEF Cancel
<1>3. CASE LoopStep
  BY <1>3, ReadInv, DeliverInv DEF LoopStep
<1>4. CASE PeerStep \/ \E m \in owed : PeerAnswer(m, "error")
  BY <1>4, PeerReadInv, PeerAnswerInv DEF PeerStep
<1>5. CASE UNCHANGED vars
  <2>1. cancelled' \subseteq Cancellable
    BY <1>5 DEF vars, Inv, TypeOK
  <2> QED
    BY <1>5, <2>1, IdleInv DEF vars
<1> QED
  BY <1>1, <1>2, <1>3, <1>4, <1>5, PeerRequestInv DEF Next

LEMMA AlwaysInv == Spec => []Inv
  BY InitInv, StepInv, PTL DEF Spec

\* Every variable of the connection keeps its type.
THEOREM ConnTypes == Spec => []TypeOK
<1>1. Inv => TypeOK
  BY DEF Inv
<1> QED
  BY <1>1, AlwaysInv, PTL

\* A response reaches the goroutine whose call it answers (conn.go:62-101), for any
\* number of callers, cancellations and handlers that call.
THEOREM ResponsesAreOwn == Spec => []OwnResponse
<1>1. Inv => OwnResponse
  BY DEF Inv, AllOwned
<1> QED
  BY <1>1, AlwaysInv, PTL

\* A buffer of one is enough for the read loop never to block (conn.go:69-72): while
\* it has a response in its hands the number is at no other place, so the channel
\* that it goes to is empty.
THEOREM DeliveryNeverBlocks == Spec => []LoopNeverBlocks
<1>1. Inv => LoopNeverBlocks
  <2> SUFFICES ASSUME Inv, pc[Loop] = "delivering", NEW p \in Procs, id[p] = msg[Loop].id
               PROVE  RoomFor(p)
    BY DEF LoopNeverBlocks
  <2>1. id[p] \in Nat \ {0}
    BY DEF Inv, TypeOK, AllOwned, Owned
  <2>2. At(id[p], 5)
    BY DEF At
  <2>3. ~At(id[p], 1) /\ ~At(id[p], 6)
    BY <2>1, <2>2 DEF Inv, Places, OnePlace
  <2>4. pc[p] # "numbered"
    BY <2>3 DEF At, Writes
  <2>5. rchan[p] = <<>>
    BY <2>3, <2>4 DEF At
  <2> QED
    BY <2>5 DEF RoomFor
<1> QED
  BY <1>1, AlwaysInv, PTL

-----------------------------------------------------------------------------
(***************************************************************************)
(* What a call waits for comes: it is never at no place at all.            *)
(***************************************************************************)
\* Call has sent the call of p and has not got the response.
Awaits(p) == pc[p] \in {"sent", "waiting"}

WaitForCalls == \A p \in Procs : Awaits(p) => msg[p].kind = "call"

Somewhere(p, n) ==
  \/ Sent(n) # {} \/ Owed(n) # {} \/ Answered(n) # {}
  \/ pc[Loop] = "delivering" /\ msg[Loop].id = n
  \/ rchan[p] # <<>>

\* The call that p waits for is on the wire, with the client, on its way back, or in
\* the response channel.
NeverLost ==
  ~garbled /\ ~crashed => \A p \in Procs : Awaits(p) => \E n \in Nat \ {0} : n = id[p] /\ Somewhere(p, n)

\* A step of a goroutine that waits for no place of the number changes none.
LEMMA ElsewhereStays ==
  ASSUME Inv, NEW n, NEW q \in Procs, Somewhere(q, n),
         UNCHANGED <<out, owed, inbox>>, rchan'[q] = rchan[q],
         pc[Loop] = "delivering" => pc'[Loop] = "delivering" /\ msg'[Loop] = msg[Loop]
  PROVE  Somewhere(q, n)'
<1>1. UNCHANGED <<Sent(n), Owed(n), Answered(n)>>
  BY SamePlaces
<1> QED
  BY <1>1 DEF Somewhere

\* One goroutine's step and another's call.
LEMMA OthersAwaited ==
  ASSUME Inv, NEW n \in Nat \ {0}, NEW q \in Procs, n = id[q], Awaits(q), Somewhere(q, n),
         NEW p \in Procs, p # q, ProcStep(p)
  PROVE  id'[q] = n /\ Somewhere(q, n)'
<1>1. id'[q] = n /\ rchan'[q] = rchan[q] /\ UNCHANGED <<owed, inbox>>
  BY DEF ProcStep, TakeID, Register, Notify, WriteHeader, WriteBody, AwaitResponse, Receive, Return,
     StartWrite, Inv, TypeOK
<1>2. pc[Loop] = "delivering" => pc'[Loop] = "delivering" /\ msg'[Loop] = msg[Loop]
  <2> SUFFICES ASSUME pc[Loop] = "delivering"
               PROVE  pc'[Loop] = "delivering" /\ msg'[Loop] = msg[Loop]
    OBVIOUS
  <2>1. p # Loop
    BY DEF ProcStep, TakeID, Register, Notify, WriteHeader, WriteBody, AwaitResponse, Receive, Return,
       StartWrite
  <2>2. Loop \in Procs
    BY DEF Procs
  <2> QED
    BY <2>1, <2>2 DEF ProcStep, TakeID, Register, Notify, WriteHeader, WriteBody, AwaitResponse,
       Receive, Return, StartWrite, GoTo, Inv, TypeOK
<1>3. CASE UNCHANGED out
  BY <1>1, <1>2, <1>3, ElsewhereStays
<1>4. ASSUME NEW e \in [part : {"header", "body"}, msg : Messages], out' = Append(out, e)
      PROVE  Somewhere(q, n)'
  <2>1. out \in Seq([part : {"header", "body"}, msg : Messages])
    BY DEF Inv, TypeOK
  <2>2. DOMAIN out' = DOMAIN out \cup {Len(out) + 1} /\ \A i \in DOMAIN out : out'[i] = out[i]
    BY <1>4, <2>1, Appended
  <2>3. Sent(n) \subseteq Sent(n)'
    BY <2>2 DEF Sent
  <2>4. UNCHANGED <<Owed(n), Answered(n)>>
    BY <1>1 DEF Owed, Answered, IsAnswer
  <2> QED
    BY <1>1, <1>2, <2>3, <2>4 DEF Somewhere
<1>5. \/ UNCHANGED out
      \/ \E e \in [part : {"header", "body"}, msg : Messages] : out' = Append(out, e)
  <2>1. msg[p] \in Messages
    BY DEF Inv, TypeOK
  <2> QED
    BY <2>1 DEF ProcStep, TakeID, Register, Notify, WriteHeader, WriteBody, AwaitResponse, Receive, Return
<1> QED
  BY <1>1, <1>3, <1>4, <1>5

\* The step that makes a goroutine wait, and those it makes while it does.
LEMMA OwnAwaited ==
  ASSUME Inv, NEW q \in Procs, ProcStep(q), Awaits(q)',
         Awaits(q) => \E n \in Nat \ {0} : n = id[q] /\ Somewhere(q, n)
  PROVE  \E n \in Nat \ {0} : n = id'[q] /\ Somewhere(q, n)'
<1>1. AwaitResponse(q) \/ WriteBody(q)
  BY DEF ProcStep, TakeID, Register, Notify, WriteHeader, Receive, Return, StartWrite, GoTo, Awaits,
     Inv, TypeOK
<1>2. CASE AwaitResponse(q)
  <2>1. /\ pc[q] = "sent" /\ pc' = [pc EXCEPT ![q] = "waiting"]
        /\ UNCHANGED <<id, msg, rchan, out, inbox, owed>>
    BY <1>2 DEF AwaitResponse, GoTo
  <2>2. PICK n \in Nat \ {0} : n = id[q] /\ Somewhere(q, n)
    BY <2>1 DEF Awaits
  <2>3. Somewhere(q, n)'
    BY <2>1, <2>2, ElsewhereStays DEF Inv, TypeOK
  <2> QED
    BY <2>1, <2>2, <2>3
<1>3. CASE WriteBody(q)
  <2> DEFINE body == [part |-> "body", msg |-> msg[q]]
  <2>1. /\ pc[q] = "body" /\ out' = Append(out, body) /\ UNCHANGED id
        /\ msg[q].kind = "call"
    BY <1>3 DEF WriteBody, GoTo, Awaits, Inv, TypeOK
  <2>2. /\ out \in Seq([part : {"header", "body"}, msg : Messages])
        /\ body \in [part : {"header", "body"}, msg : Messages]
    BY DEF Inv, TypeOK
  <2>3. Len(out) + 1 \in DOMAIN out' /\ out'[Len(out) + 1] = body
    BY <2>1, <2>2, Appended
  <2>4. PICK n \in Nat \ {0} : n = id[q] /\ msg[q].id = n
    BY <2>1 DEF Inv, TypeOK, Numbers, Writes
  <2>5. Len(out) + 1 \in Sent(n)'
    BY <2>1, <2>3, <2>4 DEF Sent
  <2> QED
    BY <2>1, <2>4, <2>5 DEF Somewhere
<1> QED
  BY <1>1, <1>2, <1>3

\* A response that the read loop takes from the inbox goes to who waits for it.
LEMMA ReadAwaited ==
  ASSUME Inv, NEW n \in Nat \ {0}, NEW q \in Procs, n = id[q], Awaits(q), Somewhere(q, n),
         Read, ~crashed', WaitForCalls
  PROVE  Somewhere(q, n)'
<1> DEFINE m == Head(inbox)
<1>1. /\ pc[Loop] = "reading" /\ inbox # <<>> /\ inbox' = Tail(inbox)
      /\ UNCHANGED <<seq, id, rchan, out, owed>>
  BY DEF Read
<1>2. Sent(n)' = Sent(n) /\ Owed(n)' = Owed(n)
  BY <1>1 DEF Sent, Owed
<1>3. CASE Answered(n) = {}
  BY <1>1, <1>2, <1>3 DEF Somewhere
<1>4. CASE Answered(n) # {}
  <2>1. /\ inbox \in Seq(Messages) /\ Len(inbox) \in Nat /\ DOMAIN inbox = 1..Len(inbox)
        /\ m = inbox[1] /\ m \in Messages
        /\ Len(inbox') = Len(inbox) - 1 /\ inbox' \in Seq(Messages)
        /\ \A i \in 1..(Len(inbox) - 1) : inbox'[i] = inbox[i + 1]
    BY <1>1 DEF Inv, TypeOK
  <2>2. PICK i \in Answered(n) : TRUE
    BY <1>4
  <2>3. i \in 1..Len(inbox) /\ IsAnswer(inbox[i]) /\ inbox[i].id = n
    BY <2>1, <2>2 DEF Answered
  <2> HIDE DEF m
  <2>4. CASE i # 1
    <3>1. i - 1 \in 1..(Len(inbox) - 1) /\ inbox'[i - 1] = inbox[i] /\ i - 1 \in DOMAIN inbox'
      BY <2>1, <2>3, <2>4
    <3>2. i - 1 \in Answered(n)'
      BY <2>3, <3>1 DEF Answered, IsAnswer
    <3> QED
      BY <3>2 DEF Somewhere
  <2>5. CASE i = 1
    <3>1. m.id = n /\ m.kind \in {"response", "error"}
      BY <2>1, <2>3, <2>5 DEF IsAnswer
    <3>2. Decoded(m) = "response"
      <4>1. ~crashed' => Decoded(m) # "failure"
        BY <3>1 DEF Read, Decoded, m
      <4> QED
        BY <3>1, <4>1 DEF Decoded
    <3>3. Registered(q)
      BY DEF Awaits, Registered, WaitForCalls
    <3>4. GoTo(Loop, "delivering") /\ msg' = [msg EXCEPT ![Loop] = m]
      BY <3>1, <3>2, <3>3 DEF Read, m
    <3>5. pc'[Loop] = "delivering" /\ msg'[Loop] = m
      BY <3>4 DEF GoTo, Inv, TypeOK, Procs
    <3> QED
      BY <3>1, <3>5 DEF Somewhere
  <2> QED
    BY <2>4, <2>5
<1> QED
  BY <1>3, <1>4

LEMMA WaitForCallsStep ==
  ASSUME Inv, WaitForCalls, Next
  PROVE  WaitForCalls'
<1> SUFFICES ASSUME NEW q \in Procs, Awaits(q)' PROVE msg'[q].kind = "call"
  BY DEF WaitForCalls
<1> USE DEF Inv, TypeOK, Awaits, WaitForCalls
<1>1. ASSUME NEW p \in Procs, ProcStep(p) PROVE msg'[q].kind = "call"
  <2>1. CASE WriteBody(p)
    BY <2>1 DEF WriteBody, GoTo
  <2>2. CASE ~WriteBody(p)
    <3>1. Awaits(q) /\ msg'[q] = msg[q]
      BY <1>1, <2>2 DEF ProcStep, TakeID, Register, Notify, WriteHeader, AwaitResponse, Receive,
         Return, StartWrite, GoTo
    <3> QED
      BY <3>1
  <2> QED
    BY <2>1, <2>2
<1>2. CASE Read
  <2>1. q # Loop
    BY <1>2 DEF Read, StartWrite, GoTo, Procs
  <2> QED
    BY <1>2, <2>1 DEF Read, StartWrite, GoTo
<1>3. ASSUME NEW p \in Procs, Deliver(p) PROVE msg'[q].kind = "call"
  BY <1>3 DEF Deliver, GoTo
<1>4. CASE UNCHANGED <<pc, msg>>
  BY <1>4
<1> QED
  BY <1>1, <1>2, <1>3, <1>4 DEF Next, Cancel, LoopStep, PeerStep, PeerRead, PeerAnswer, PeerRequest

\* The client and the read loop's delivery move a number on.
LEMMA MovedOn ==
  ASSUME Inv, NEW n \in Nat \ {0}, NEW q \in Procs, n = id[q], Awaits(q), Somewhere(q, n),
         ~garbled',
         \/ PeerRead
         \/ \E m \in owed, kind \in {"response", "error"} : PeerAnswer(m, kind)
         \/ PeerRequest
         \/ \E p \in Procs : Deliver(p)
  PROVE  Somewhere(q, n)'
<1>1. CASE PeerRead
  <2> DEFINE m == out[1].msg
  <2>1. /\ Len(out) >= 2 /\ out' = SubSeq(out, 3, Len(out))
        /\ out[2] = [part |-> "body", msg |-> m]
        /\ owed' = IF m.kind = "call" THEN owed \cup {m} ELSE owed
        /\ UNCHANGED <<pc, id, msg, rchan, inbox>>
    BY <1>1 DEF PeerRead
  <2>2. /\ out \in Seq([part : {"header", "body"}, msg : Messages])
        /\ Len(out) \in Nat /\ DOMAIN out = 1..Len(out)
    BY DEF Inv, TypeOK
  <2> HIDE DEF m
  <2>3. /\ DOMAIN out' = 1..(Len(out) - 2)
        /\ \A i \in 1..(Len(out) - 2) : out'[i] = out[i + 2]
    <3>1. ASSUME NEW k \in Nat, k = 2
          PROVE  LET t == SubSeq(out, k + 1, Len(out))
                 IN  DOMAIN t = 1..(Len(out) - k) /\ \A i \in DOMAIN t : t[i] = out[i + k]
      BY <2>1, <2>2, <3>1, Dropped
    <3> QED
      BY <2>1, <3>1
  <2>4. Owed(n) \subseteq Owed(n)' /\ Answered(n)' = Answered(n)
    BY <2>1 DEF Owed, Answered, IsAnswer
  <2>5. ASSUME NEW i \in Sent(n) PROVE Somewhere(q, n)'
    <3>1. i \in 1..Len(out) /\ out[i].part = "body" /\ out[i].msg.kind = "call" /\ out[i].msg.id = n
      BY <2>2 DEF Sent
    <3>2. CASE i \in {1, 2}
      <4>1. m.kind = "call" /\ m.id = n
        <5>1. out[1].msg = m /\ out[2].msg = m
          BY <2>1 DEF m
        <5> QED
          BY <3>1, <3>2, <5>1
      <4>2. m \in Owed(n)'
        BY <2>1, <4>1 DEF Owed
      <4> QED
        BY <4>2 DEF Somewhere
    <3>3. CASE i \notin {1, 2}
      <4>1. i - 2 \in 1..(Len(out) - 2) /\ i - 2 \in DOMAIN out' /\ out'[i - 2] = out[i]
        BY <2>2, <2>3, <3>1, <3>3
      <4>2. i - 2 \in Sent(n)'
        BY <3>1, <4>1 DEF Sent
      <4> QED
        BY <4>2 DEF Somewhere
    <3> QED
      BY <3>2, <3>3
  <2> QED
    BY <2>1, <2>4, <2>5 DEF Somewhere
<1>2. ASSUME NEW m \in owed, NEW kind \in {"response", "error"}, PeerAnswer(m, kind)
      PROVE  Somewhere(q, n)'
  <2> DEFINE answer == [m EXCEPT !.kind = kind]
  <2>1. /\ owed' = owed \ {m} /\ inbox' = Append(inbox, answer)
        /\ UNCHANGED <<pc, id, msg, rchan, out>>
    BY <1>2 DEF PeerAnswer
  <2>2. m \in Numbered /\ inbox \in Seq(Messages)
    BY DEF Inv, TypeOK
  <2>3. answer \in Messages /\ IsAnswer(answer) /\ answer.id = m.id
    BY <2>2 DEF Numbered, Messages, IsAnswer
  <2> HIDE DEF answer
  <2>4. /\ DOMAIN inbox' = DOMAIN inbox \cup {Len(inbox) + 1}
        /\ \A i \in DOMAIN inbox : inbox'[i] = inbox[i]
        /\ inbox'[Len(inbox) + 1] = answer
    BY <2>1, <2>2, <2>3, Appended
  <2>5. Answered(n) \subseteq Answered(n)' /\ Sent(n)' = Sent(n)
    BY <2>1, <2>4 DEF Answered, IsAnswer, Sent
  <2>6. ASSUME NEW v \in Owed(n) PROVE Somewhere(q, n)'
    <3>1. CASE v = m
      <4>1. Len(inbox) + 1 \in Answered(n)'
        BY <2>3, <2>4, <3>1 DEF Owed, Answered, IsAnswer
      <4> QED
        BY <4>1 DEF Somewhere
    <3>2. CASE v # m
      <4>1. v \in Owed(n)'
        BY <2>1, <3>2 DEF Owed
      <4> QED
        BY <4>1 DEF Somewhere
    <3> QED
      BY <3>1, <3>2
  <2> QED
    BY <2>1, <2>5, <2>6 DEF Somewhere
<1>3. CASE PeerRequest
  <2> DEFINE request == [kind |-> "request", id |-> 0, from |-> Nobody]
  <2>1. inbox' = Append(inbox, request) /\ UNCHANGED <<pc, id, msg, rchan, out, owed>>
    BY <1>3 DEF PeerRequest
  <2>2. inbox \in Seq(Messages) /\ request \in Messages
    BY DEF Inv, TypeOK, Messages
  <2> HIDE DEF request
  <2>3. DOMAIN inbox' = DOMAIN inbox \cup {Len(inbox) + 1} /\ \A i \in DOMAIN inbox : inbox'[i] = inbox[i]
    BY <2>1, <2>2, Appended
  <2>4. Answered(n) \subseteq Answered(n)' /\ Sent(n)' = Sent(n) /\ Owed(n)' = Owed(n)
    BY <2>1, <2>3 DEF Answered, IsAnswer, Sent, Owed
  <2> QED
    BY <2>1, <2>4 DEF Somewhere
<1>4. ASSUME NEW p \in Procs, Deliver(p) PROVE Somewhere(q, n)'
  <2>1. /\ pc[Loop] = "delivering" /\ id[p] = msg[Loop].id
        /\ rchan' = [rchan EXCEPT ![p] = Append(@, msg[Loop].from)]
        /\ UNCHANGED <<out, inbox, owed>>
    BY <1>4 DEF Deliver
  <2>2. UNCHANGED <<Sent(n), Owed(n), Answered(n)>>
    BY <2>1, SamePlaces
  <2>3. rchan[q] # <<>> \/ p = q => rchan'[q] # <<>>
    <3>1. \A c \in Seq(Procs) : \A e : Append(c, e) # <<>>
      OBVIOUS
    <3> QED
      BY <2>1, <3>1 DEF Inv, TypeOK
  <2>4. msg[Loop].id = n => p = q
    BY <2>1 DEF Inv, Numbers
  <2> QED
    BY <2>2, <2>3, <2>4 DEF Somewhere
<1> QED
  BY <1>1, <1>2, <1>3, <1>4

LEMMA NeverLostStep ==
  ASSUME Inv, WaitForCalls, NeverLost, Next
  PROVE  NeverLost'
<1> SUFFICES ASSUME ~garbled', ~crashed', NEW q \in Procs, Awaits(q)'
             PROVE  \E n \in Nat \ {0} : n = id'[q] /\ Somewhere(q, n)'
  BY DEF NeverLost
<1>1. ~garbled /\ ~crashed
  <2>1. ASSUME NEW p \in Procs, ProcStep(p) PROVE UNCHANGED garbled
    BY <2>1 DEF ProcStep, TakeID, Register, Notify, WriteHeader, WriteBody, AwaitResponse, Receive,
       Return
  <2>2. garbled' = garbled \/ PeerRead
    BY <2>1 DEF Next, Cancel, LoopStep, Read, Deliver, PeerStep, PeerAnswer, PeerRequest
  <2> QED
    BY <2>2 DEF Next, PeerRead
<1>2. Awaits(q) => \E n \in Nat \ {0} : n = id[q] /\ Somewhere(q, n)
  BY <1>1 DEF NeverLost
<1>3. CASE ProcStep(q)
  BY <1>2, <1>3, OwnAwaited
<1>4. ASSUME NEW p \in Procs, p # q, ProcStep(p)
      PROVE  \E n \in Nat \ {0} : n = id'[q] /\ Somewhere(q, n)'
  <2>1. Awaits(q)
    BY <1>4 DEF ProcStep, TakeID, Register, Notify, WriteHeader, WriteBody, AwaitResponse, Receive,
       Return, StartWrite, GoTo, Awaits, Inv, TypeOK
  <2>2. PICK n \in Nat \ {0} : n = id[q] /\ Somewhere(q, n)
    BY <1>2, <2>1
  <2>3. id'[q] = n /\ Somewhere(q, n)'
    BY <1>4, <2>1, <2>2, OthersAwaited
  <2> QED
    BY <2>3
<1>5. ASSUME NEW p \in Procs, Cancel(p)
      PROVE  \E n \in Nat \ {0} : n = id'[q] /\ Somewhere(q, n)'
  <2>1. UNCHANGED <<pc, id, msg, rchan, out, inbox, owed>>
    BY <1>5 DEF Cancel
  <2>2. PICK n \in Nat \ {0} : n = id[q] /\ Somewhere(q, n)
    BY <1>2, <2>1 DEF Awaits
  <2>3. Somewhere(q, n)'
    BY <2>1, <2>2, ElsewhereStays
  <2> QED
    BY <2>1, <2>2, <2>3
<1>6. CASE Read
  <2>1. Awaits(q) /\ UNCHANGED id
    BY <1>6 DEF Read, StartWrite, GoTo, Awaits, Inv, TypeOK
  <2>2. PICK n \in Nat \ {0} : n = id[q] /\ Somewhere(q, n)
    BY <1>2, <2>1
  <2>3. Somewhere(q, n)'
    BY <1>6, <2>1, <2>2, ReadAwaited
  <2> QED
    BY <2>1, <2>2, <2>3
<1>7. CASE \/ PeerRead
           \/ \E m \in owed, kind \in {"response", "error"} : PeerAnswer(m, kind)
           \/ PeerRequest
           \/ \E p \in Procs : Deliver(p)
  <2>1. Awaits(q) /\ UNCHANGED id
    BY <1>7 DEF PeerRead, PeerAnswer, PeerRequest, Deliver, GoTo, Awaits, Inv, TypeOK
  <2>2. PICK n \in Nat \ {0} : n = id[q] /\ Somewhere(q, n)
    BY <1>2, <2>1
  <2>3. Somewhere(q, n)'
    BY <1>7, <2>1, <2>2, MovedOn
  <2> QED
    BY <2>1, <2>2, <2>3
<1> QED
  BY <1>3, <1>4, <1>5, <1>6, <1>7 DEF Next, LoopStep, PeerStep

\* A call that is waiting is not forgotten (conn.go:62-101): unless the client was
\* sent garbage or Run has panicked, its number is on the wire, with the client, on
\* its way back, with the read loop or in its own response channel, and at one of
\* these places only. No response is dropped as one that nobody waits for while
\* somebody does, however calls, cancellations and requests overlap.
ExactlyOnce ==
  ~garbled /\ ~crashed =>
    \A p \in Procs : Awaits(p) => id[p] # 0 /\ Somewhere(p, id[p]) /\ OnePlace(id[p]) /\ Once(id[p])

\* A call that waits for its response is always on its way, in one place: the half of
\* CallsReturn that is not fairness (conn.go:62-101).
THEOREM CallsNotForgotten == Spec => []ExactlyOnce
<1>1. Init => WaitForCalls /\ NeverLost
  BY DEF Init, WaitForCalls, NeverLost, Awaits
<1>2. Inv /\ WaitForCalls /\ NeverLost /\ [Next]_vars => WaitForCalls' /\ NeverLost'
  <2>1. CASE UNCHANGED vars
    <3> SUFFICES ASSUME WaitForCalls, NeverLost, UNCHANGED vars PROVE WaitForCalls' /\ NeverLost'
      BY <2>1
    <3>1. UNCHANGED <<pc, id, msg, rchan, out, inbox, owed, garbled, crashed>>
      BY DEF vars
    <3>2. \A n : Sent(n)' = Sent(n) /\ Owed(n)' = Owed(n) /\ Answered(n)' = Answered(n)
      BY <3>1 DEF Sent, Owed, Answered, IsAnswer
    <3> QED
      BY <3>1, <3>2 DEF WaitForCalls, NeverLost, Awaits, Somewhere
  <2> QED
    BY <2>1, WaitForCallsStep, NeverLostStep
<1>3. Inv /\ NeverLost => ExactlyOnce
  BY DEF Inv, Places, NeverLost, ExactlyOnce
<1> QED
  BY <1>1, <1>2, <1>3, AlwaysInv, PTL DEF Spec
=============================================================================
