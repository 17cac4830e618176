------------------------------- MODULE Runner -------------------------------
(***************************************************************************)
(* What Runner.Run promises to those who call it, and to the store of      *)
(* events that it fills for them: one preview at a time, however many      *)
(* callers there are; a caller may be refused; and after Run has returned  *)
(* at most one event more comes to the store.  How it does that is         *)
(* PreviewRun's subject.  Session relies on the first, Diagnose on the     *)
(* last.                                                                   *)
(***************************************************************************)
EXTENDS Integers

CONSTANT Runs  \* the calls of Run

VARIABLES
  stage,   \* of a call: "waiting" for the runner, "running", "returned"
  stored,  \* how many events the store of a call has
  owed     \* the events that a preview has logged and that were not in the store
           \* when Run returned, and still are not

vars == <<stage, stored, owed>>

Init ==
  /\ stage = [r \in Runs |-> "waiting"]
  /\ stored = [r \in Runs |-> 0]
  /\ owed = [r \in Runs |-> 0]

\* Run: both semaphores are taken.
Start(r) ==
  /\ stage[r] = "waiting"
  /\ \A s \in Runs : stage[s] # "running"
  /\ stage' = [stage EXCEPT ![r] = "running"]
  /\ UNCHANGED <<stored, owed>>

\* Run: the context's error, or a caller that never gets as far as Run.
Refuse(r) ==
  /\ stage[r] = "waiting"
  /\ stage' = [stage EXCEPT ![r] = "returned"]
  /\ UNCHANGED <<stored, owed>>

\* processGrpcEvents, while the preview runs or Close drains its log.
Store(r) ==
  /\ stage[r] = "running"
  /\ stored' = [stored EXCEPT ![r] = @ + 1]
  /\ UNCHANGED <<stage, owed>>

\* Run returns: of all that the preview has logged one event may be missing.
Return(r) ==
  /\ stage[r] = "running"
  /\ stage' = [stage EXCEPT ![r] = "returned"]
  /\ \E n \in 0..1 : owed' = [owed EXCEPT ![r] = n]
  /\ UNCHANGED stored

\* processGrpcEvents, after Run has returned.
StoreLate(r) ==
  /\ stage[r] = "returned"
  /\ owed[r] = 1
  /\ owed' = [owed EXCEPT ![r] = 0]
  /\ stored' = [stored EXCEPT ![r] = @ + 1]
  /\ UNCHANGED stage

Next == \E r \in Runs : Start(r) \/ Refuse(r) \/ Store(r) \/ Return(r) \/ StoreLate(r)

Spec == Init /\ [][Next]_vars
=============================================================================
