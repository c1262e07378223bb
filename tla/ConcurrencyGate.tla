---------------------------- MODULE ConcurrencyGate ----------------------------
(***************************************************************************)
(* ConcurrencyGate of loadShield.ts, which the sign-in at the university   *)
(* and other expensive work pass through.  A caller that finds every       *)
(* permit taken waits in a bounded queue; whoever ends hands its permit to *)
(* the first of the queue, which resumes later, in a step of its own, and  *)
(* by then may have been aborted or be past its deadline.                  *)
(***************************************************************************)
EXTENDS Naturals, FiniteSets, SequencesExt

CONSTANTS
  Tasks,        \* callers of run
  Concurrency,  \* permits
  MaxQueue      \* places in the queue

ASSUME GateAssumption == Concurrency \in Nat \ {0} /\ MaxQueue \in Nat

VARIABLES
  running,  \* the permits that are out
  queue,    \* the callers that wait
  state,    \* state[t]: where the call of t is
  aborted,  \* the callers whose signal is aborted
  overdue   \* the callers past the deadline of their wait

vars == <<running, queue, state, aborted, overdue>>

TypeOK ==
  /\ running \in 0..Concurrency
  /\ queue \in Seq(Tasks) /\ Len(queue) <= MaxQueue
  /\ state \in [Tasks -> {"idle", "queued", "handed", "running"}]
  /\ aborted \subseteq Tasks
  /\ overdue \subseteq Tasks

Init ==
  /\ running = 0 /\ queue = <<>>
  /\ state = [t \in Tasks |-> "idle"]
  /\ aborted = {} /\ overdue = {}

-------------------------------------------------------------------------------
\* A permit or a place in the queue; who finds neither is refused, and nothing
\* has changed.
EnterGate(t) ==
  \/ /\ running < Concurrency
     /\ running' = running + 1
     /\ state' = [state EXCEPT ![t] = "running"]
     /\ UNCHANGED queue
  \/ /\ running >= Concurrency /\ Len(queue) < MaxQueue
     /\ queue' = Append(queue, t)
     /\ state' = [state EXCEPT ![t] = "queued"]
     /\ UNCHANGED running

\* run is called with a signal that is not aborted (it throws at once otherwise).
Call(t) ==
  /\ state[t] = "idle"
  /\ EnterGate(t)
  /\ aborted' = aborted \ {t}
  /\ overdue' = overdue \ {t}

\* Mutant: the permit goes to the last of the queue.
ReleaseToLast(t) ==
  \/ /\ queue = <<>>
     /\ running' = running - 1
     /\ state' = [state EXCEPT ![t] = "idle"]
     /\ UNCHANGED queue
  \/ /\ queue # <<>>
     /\ state' = [state EXCEPT ![t] = "idle", ![queue[Len(queue)]] = "handed"]
     /\ queue' = SubSeq(queue, 1, Len(queue) - 1)
     /\ UNCHANGED running

\* The finally block: the permit goes to the first of the queue, or is free.
Release(t) ==
  \/ /\ queue = <<>>
     /\ running' = running - 1
     /\ state' = [state EXCEPT ![t] = "idle"]
     /\ UNCHANGED queue
  \/ /\ queue # <<>>
     /\ state' = [state EXCEPT ![t] = "idle", ![Head(queue)] = "handed"]
     /\ queue' = Tail(queue)
     /\ UNCHANGED running

\* A waiter leaves the queue ("remove"): its signal was aborted, or its timer
\* has fired.
Withdraw(t) ==
  /\ \E i \in DOMAIN queue : queue[i] = t /\ queue' = RemoveAt(queue, i)
  /\ state' = [state EXCEPT ![t] = "idle"]
  /\ UNCHANGED running

\* The signal of a waiter is aborted; nothing looks at it once the task runs.
Abort(t) ==
  /\ t \notin aborted
  /\ \/ state[t] = "queued" /\ Withdraw(t)
     \/ state[t] = "handed" /\ UNCHANGED <<running, queue, state>>
  /\ aborted' = aborted \cup {t}
  /\ UNCHANGED overdue

QueueTimeout(t) ==
  /\ state[t] = "queued" /\ t \in overdue
  /\ Withdraw(t)
  /\ UNCHANGED <<aborted, overdue>>

\* The deadline of a waiter passes; the event loop may be late with its timer.
DeadlinePasses(t) ==
  /\ state[t] \in {"queued", "handed"} /\ t \notin overdue
  /\ overdue' = overdue \cup {t}
  /\ UNCHANGED <<running, queue, state, aborted>>

\* Mutant: who resumes too late throws without giving its permit back.
ResumeKeepsPermit(t) ==
  /\ state[t] = "handed"
  /\ IF t \in aborted \cup overdue
       THEN state' = [state EXCEPT ![t] = "idle"] /\ UNCHANGED <<running, queue>>
       ELSE state' = [state EXCEPT ![t] = "running"] /\ UNCHANGED <<running, queue>>
  /\ UNCHANGED <<aborted, overdue>>

\* A waiter resumes with the permit it was handed.
Resume(t) ==
  /\ state[t] = "handed"
  /\ IF t \in aborted \cup overdue
       THEN Release(t)
       ELSE state' = [state EXCEPT ![t] = "running"] /\ UNCHANGED <<running, queue>>
  /\ UNCHANGED <<aborted, overdue>>

TaskEnds(t) ==
  /\ state[t] = "running"
  /\ Release(t)
  /\ UNCHANGED <<aborted, overdue>>

Next ==
  \E t \in Tasks :
    \/ Call(t) \/ Abort(t) \/ QueueTimeout(t) \/ DeadlinePasses(t)
    \/ Resume(t) \/ TaskEnds(t)

Spec == Init /\ [][Next]_vars

\* The event loop resumes who was handed a permit, and tasks end.  Timers need
\* not fire, and nobody need abort.
FairSpec == Spec /\ \A t \in Tasks : WF_vars(Resume(t)) /\ WF_vars(TaskEnds(t))

-------------------------------------------------------------------------------
(* Properties.                                                              *)

Holders == {t \in Tasks : state[t] \in {"handed", "running"}}

\* The counter is the number of callers that hold a permit, also while one is
\* on its way to a waiter that has given up: none is lost and none is made.
PermitsAreHeld == running = Cardinality(Holders)

\* Seen from outside, the gate hands out permits in the order of arrival and keeps
\* none back while somebody waits.
Permits == INSTANCE FairPermits WITH
  Callers <- Tasks, Limit <- Concurrency, holders <- Holders, waiting <- queue
GrantsInOrder == Permits!Spec

\* Nobody waits for ever, however many come after: a waiter gets its permit
\* or gives up.
WaitersAreServed == \A t \in Tasks : state[t] = "queued" ~> state[t] # "queued"

===============================================================================
