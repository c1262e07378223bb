---------------------------- MODULE AiProviderLane ----------------------------
(***************************************************************************)
(* The lanes of aiUpstreamScheduler.ts: a self-hosted model endpoint works *)
(* on MaxActive requests at a time, the others queue in its lane, and the  *)
(* caller gets its response at once while the request keeps its place in   *)
(* the lane until the response body is closed.  A lane is an object made   *)
(* for the first request and dropped after the last, so that there can be  *)
(* more than one, though no more than one is registered.                   *)
(*                                                                         *)
(* One endpoint is modelled: lanes of different endpoints share nothing.   *)
(* The names that ConcurrencyGate uses too say which they are of, so that  *)
(* a module may be about both limiters.                                    *)
(***************************************************************************)
EXTENDS Naturals, FiniteSets, SequencesExt

CONSTANTS
  Requests,   \* requests to the endpoint
  MaxActive,  \* OLLAMA_MAX_ACTIVE_REQUESTS
  Lanes,      \* lane objects
  NoLane

ASSUME LaneAssumption == MaxActive \in Nat \ {0} /\ NoLane \notin Lanes

VARIABLES
  registered,  \* the lane in providerLanes, or NoLane
  active,      \* active[l]: the requests lane l counts
  laneQueue,   \* laneQueue[l]: those that wait in it
  laneState,   \* laneState[r]: where request r is
  laneOf       \* laneOf[r]: its lane, while it is in one

laneVars == <<registered, active, laneQueue, laneState, laneOf>>

LaneTypeOK ==
  /\ registered \in Lanes \cup {NoLane}
  /\ active \in [Lanes -> 0..MaxActive]
  /\ laneQueue \in [Lanes -> Seq(Requests)]
  /\ laneState \in [Requests -> {"idle", "queued", "running", "streaming"}]
  /\ laneOf \in [Requests -> Lanes \cup {NoLane}]

LaneInit ==
  /\ registered = NoLane
  /\ active = [l \in Lanes |-> 0] /\ laneQueue = [l \in Lanes |-> <<>>]
  /\ laneState = [r \in Requests |-> "idle"]
  /\ laneOf = [r \in Requests |-> NoLane]

-------------------------------------------------------------------------------
Lesser(a, b) == IF a < b THEN a ELSE b

\* How many of a queue a lane with a requests at work has room for.
Room(a, q) == Lesser(MaxActive - a, Len(q))

\* Mutant: a lane that nobody waits in is dropped, with requests at work.
DrainDropsLane(l, a, q, st, reg) ==
  LET started == ToSet(SubSeq(q, 1, Room(a, q))) IN
  /\ active' = [active EXCEPT ![l] = a + Room(a, q)]
  /\ laneQueue' = [laneQueue EXCEPT ![l] = SubSeq(q, 1 + Room(a, q), Len(q))]
  /\ laneState' = [r \in Requests |-> IF r \in started THEN "running" ELSE st[r]]
  /\ registered' = IF reg = l /\ Len(q) = Room(a, q) THEN NoLane ELSE reg

\* Mutant: the lane starts the latest of its queue first.
DrainLatest(l, a, q, st, reg) ==
  LET started == ToSet(SubSeq(q, 1 + Len(q) - Room(a, q), Len(q))) IN
  /\ active' = [active EXCEPT ![l] = a + Room(a, q)]
  /\ laneQueue' = [laneQueue EXCEPT ![l] = SubSeq(q, 1, Len(q) - Room(a, q))]
  /\ laneState' = [r \in Requests |-> IF r \in started THEN "running" ELSE st[r]]
  /\ registered' = IF reg = l /\ a + Room(a, q) = 0 THEN NoLane ELSE reg

\* drainProviderLane and cleanupProviderLane: lane l, which counts a requests at
\* work and has q waiting, starts those it has room for, and is dropped when it
\* is left empty.  st and reg are what laneState and registered had become before.
Drain(l, a, q, st, reg) ==
  LET started == ToSet(SubSeq(q, 1, Room(a, q))) IN
  /\ active' = [active EXCEPT ![l] = a + Room(a, q)]
  /\ laneQueue' = [laneQueue EXCEPT ![l] = SubSeq(q, 1 + Room(a, q), Len(q))]
  /\ laneState' = [r \in Requests |-> IF r \in started THEN "running" ELSE st[r]]
  /\ registered' = IF reg = l /\ a + Room(a, q) = 0 THEN NoLane ELSE reg

-------------------------------------------------------------------------------
\* A new lane object: nothing refers to it.
New(l) ==
  /\ l # registered /\ active[l] = 0 /\ laneQueue[l] = <<>>
  /\ \A r \in Requests : laneOf[r] # l

\* runWithAiProviderIsolation is called with a signal that is not aborted.
RunIsolated(r, l) ==
  /\ laneState[r] = "idle"
  /\ IF registered = NoLane THEN New(l) ELSE l = registered
  /\ Drain(l, active[l], Append(laneQueue[l], r), [laneState EXCEPT ![r] = "queued"], l)
  /\ laneOf' = [laneOf EXCEPT ![r] = l]

\* settleQueued: the request was aborted or has waited for its thirty seconds.
GiveUp(r) ==
  LET l == laneOf[r] IN
  /\ laneState[r] = "queued"
  /\ \E i \in DOMAIN laneQueue[l] :
       /\ laneQueue[l][i] = r
       /\ Drain(l, active[l], RemoveAt(laneQueue[l], i), [laneState EXCEPT ![r] = "idle"],
                registered)
  /\ laneOf' = [laneOf EXCEPT ![r] = NoLane]

\* run resolves: the caller has the response, the lane still counts the request.
Responds(r) ==
  /\ laneState[r] = "running"
  /\ laneState' = [laneState EXCEPT ![r] = "streaming"]
  /\ UNCHANGED <<registered, active, laneQueue, laneOf>>

\* run rejects, or the body is closed (at once, when there is none).
\* A response may never come and a body never be closed: nothing is assumed fair.
Ends(r) ==
  LET l == laneOf[r] IN
  /\ laneState[r] \in {"running", "streaming"}
  /\ Drain(l, IF active[l] = 0 THEN 0 ELSE active[l] - 1, laneQueue[l],
           [laneState EXCEPT ![r] = "idle"], registered)
  /\ laneOf' = [laneOf EXCEPT ![r] = NoLane]

LaneNext ==
  \E r \in Requests :
    \/ \E l \in Lanes : RunIsolated(r, l)
    \/ GiveUp(r) \/ Responds(r) \/ Ends(r)

LaneSpec == LaneInit /\ [][LaneNext]_laneVars

-------------------------------------------------------------------------------
(* Properties.                                                              *)

AtWork(r) == laneState[r] \in {"running", "streaming"}

\* Whatever is at work or waits is in the registered lane, which counts it: no
\* second lane is opened while the first one is in use.
OneLane ==
  /\ \A r \in Requests : laneState[r] # "idle" => laneOf[r] = registered
  /\ registered # NoLane =>
       /\ active[registered] = Cardinality({r \in Requests : AtWork(r)})
       /\ active[registered] > 0

\* Seen from outside, the endpoint has MaxActive permits: a request keeps its own
\* until the body is closed, and waiters get theirs in the order of arrival.
LanePermits == INSTANCE FairPermits WITH
  Callers <- Requests, Limit <- MaxActive,
  holders <- {r \in Requests : AtWork(r)},
  waiting <- IF registered = NoLane THEN <<>> ELSE laneQueue[registered]
LaneGrantsInOrder == LanePermits!Spec

===============================================================================
