----------------------------- MODULE AgentGateway -----------------------------
(***************************************************************************)
(* The gateway of the main service to one campus node: the registration of *)
(* the node's WebSocket connections, the requests sent over them, and the  *)
(* heartbeat, timeout and configuration changes that race with both        *)
(* (jwxtAgentGateway.ts), with the node's admission of requests            *)
(* (jwxtAgentClient.ts).                                                   *)
(*                                                                         *)
(* Time is abstract: a timer is an action that may fire at any moment      *)
(* while it is armed, so every race of a timer with an answer is explored. *)
(***************************************************************************)
EXTENDS Naturals, FiniteSets

CONSTANTS
  Conns,        \* connections, each used once
  Procs,        \* node processes that hold this node's id and token
  Reqs,         \* requests of the main service, each issued once
  Maintenance,  \* the requests that are the node's own update or its status
  Limit,        \* maxConcurrent of the node
  QueueLimit,   \* most requests that wait for a slot
  NoConn

ASSUME SentinelAssumption == NoConn \notin Conns
ASSUME RequestAssumption == IsFiniteSet(Reqs) /\ Maintenance \subseteq Reqs
ASSUME LimitAssumption == Limit \in Nat \ {0} /\ QueueLimit \in Nat

VARIABLES
  config,   \* the administrator's setting of the node
  current,  \* sessions.get(agentId): the registered connection, or NoConn
  conn,     \* conn[c]: the connection c
  req,      \* req[r]: the request r
  queued    \* queuedRequests.get(agentId)

vars == <<config, current, conn, req, queued>>

Settings == {"enabled", "paused", "absent"}

(* sock: the state of the gateway's socket.  ready: the node has answered   *)
(* the welcome.  up: the node's end is still there.  proc: the process at   *)
(* that end.  pending: the requests sent on it that have no answer.         *)
Conn == [sock : {"new", "open", "closing", "closed"}, ready : BOOLEAN,
         up : BOOLEAN, proc : Procs, pending : SUBSET Reqs]

(* stage: what the caller's promise waits for.  on: the connection the      *)
(* request chose.  work: its message, then its work, then its answer.       *)
Req == [stage : {"idle", "loading", "queued", "awaiting", "persisting", "settled"},
        on : Conns \cup {NoConn},
        work : {"none", "sent", "running", "answering", "refusing", "over"}]

TypeOK ==
  /\ config \in Settings
  /\ current \in Conns \cup {NoConn}
  /\ conn \in [Conns -> Conn]
  /\ req \in [Reqs -> Req]
  /\ queued \in Nat

Init ==
  /\ config \in Settings
  /\ current = NoConn
  /\ conn \in [Conns -> {k \in Conn : /\ k.sock = "new" /\ k.pending = {}
                                      /\ ~k.ready /\ ~k.up}]
  /\ req = [r \in Reqs |-> [stage |-> "idle", on |-> NoConn, work |-> "none"]]
  /\ queued = 0

-------------------------------------------------------------------------------
(* Connections.                                                             *)

Attached(c) == conn[c].sock \in {"open", "closing"}

Usable(c) == current = c /\ c # NoConn /\ conn[c].sock = "open" /\ conn[c].ready

\* Mutant: the session's map and timers are cleared, the promises forgotten.
Dropped(R) == req

\* rejectSessionRequests: the promises in a session's map are rejected.
Rejected(R) == [r \in Reqs |-> IF r \in R THEN [req[r] EXCEPT !.stage = "settled"]
                                          ELSE req[r]]

Open(k) == [k EXCEPT !.sock = "open", !.up = TRUE]
Refused(k) == [k EXCEPT !.sock = "closing", !.up = TRUE]
Cleared(k) == [k EXCEPT !.sock = IF @ = "open" THEN "closing" ELSE @,
                        !.pending = {}]

\* registerAgentSocket.  A process has one connection at a time; a second
\* process with the same id is turned away while the first one's socket is open.
Connect(c) ==
  /\ config # "absent"
  /\ conn[c].sock = "new"
  /\ \A d \in Conns : conn[d].proc = conn[c].proc => ~conn[d].up
  /\ \/ /\ current # NoConn /\ conn[current].sock = "open"
        /\ conn' = [conn EXCEPT ![c] = Refused(@)]
        /\ UNCHANGED <<current, req>>
     \/ /\ current # NoConn /\ conn[current].sock # "open"
        /\ req' = Rejected(conn[current].pending)
        /\ conn' = [conn EXCEPT ![current] = Cleared(@), ![c] = Open(@)]
        /\ current' = c
     \/ /\ current = NoConn
        /\ conn' = [conn EXCEPT ![c] = Open(@)]
        /\ current' = c
        /\ UNCHANGED req
  /\ UNCHANGED <<config, queued>>

\* The node's "ready" answer to the welcome, its key accepted.
Ready(c) ==
  /\ current = c /\ Attached(c) /\ conn[c].up /\ ~conn[c].ready
  /\ conn' = [conn EXCEPT ![c].ready = TRUE]
  /\ UNCHANGED <<config, current, req, queued>>

\* A message the protocol does not allow: the socket is closed, and its
\* requests wait for the close event.
ProtocolError(c) ==
  /\ current = c /\ conn[c].sock = "open" /\ conn[c].up
  /\ conn' = [conn EXCEPT ![c].sock = "closing"]
  /\ UNCHANGED <<config, current, req, queued>>

\* The node's end goes away (network, watchdog); the gateway may not notice.
Break(c) ==
  /\ Attached(c) /\ conn[c].up
  /\ conn' = [conn EXCEPT ![c].up = FALSE]
  /\ UNCHANGED <<config, current, req, queued>>

\* Mutant: the close event forgets the node's session, whichever it is.
ClosedAnySession(c) ==
  /\ conn[c].sock = "closing" \/ (conn[c].sock = "open" /\ ~conn[c].up)
  /\ current' = NoConn
  /\ conn' = [conn EXCEPT ![c] = [@ EXCEPT !.sock = "closed", !.up = FALSE,
                                           !.pending = {}]]
  /\ req' = Rejected(conn[c].pending)
  /\ UNCHANGED <<config, queued>>

\* Mutant: the close event leaves the session's requests to their timers.
ClosedKeepsPending(c) ==
  /\ conn[c].sock = "closing" \/ (conn[c].sock = "open" /\ ~conn[c].up)
  /\ current' = IF current = c THEN NoConn ELSE current
  /\ conn' = [conn EXCEPT ![c] = [@ EXCEPT !.sock = "closed", !.up = FALSE]]
  /\ UNCHANGED <<config, req, queued>>

\* The socket's close event.  Messages in flight on it are lost.
Closed(c) ==
  /\ conn[c].sock = "closing" \/ (conn[c].sock = "open" /\ ~conn[c].up)
  /\ current' = IF current = c THEN NoConn ELSE current
  /\ conn' = [conn EXCEPT ![c] = [@ EXCEPT !.sock = "closed", !.up = FALSE,
                                           !.pending = {}]]
  /\ req' = [r \in Reqs |->
               IF req[r].on = c /\ req[r].work \in {"sent", "answering", "refusing"}
               THEN [Rejected(conn[c].pending)[r] EXCEPT !.work = "over"]
               ELSE Rejected(conn[c].pending)[r]]
  /\ UNCHANGED <<config, queued>>

\* Mutant: a silent session's requests are rejected, its socket left open.
HeartbeatKeepsSocket(c) ==
  /\ current = c /\ Attached(c)
  /\ conn' = [conn EXCEPT ![c].pending = {}]
  /\ req' = Rejected(conn[c].pending)
  /\ UNCHANGED <<config, current, queued>>

\* runHeartbeat: no pong for jwxtAgentOfflineMs, or the ping fails.
Heartbeat(c) ==
  /\ current = c /\ Attached(c)
  /\ conn' = [conn EXCEPT ![c] = Cleared(@)]
  /\ req' = Rejected(conn[c].pending)
  /\ UNCHANGED <<config, current, queued>>

\* reconcileAgentSessions: the administrator saves the node with setting s.
\* Removing the node or changing its token closes and forgets its session.
Reconcile(s, newToken) ==
  /\ s # config \/ newToken
  /\ config' = s
  /\ IF current # NoConn /\ (newToken \/ s = "absent")
     THEN /\ req' = Rejected(conn[current].pending)
          /\ conn' = [conn EXCEPT ![current] = Cleared(@)]
          /\ current' = NoConn
     ELSE UNCHANGED <<current, conn, req>>
  /\ UNCHANGED queued

-------------------------------------------------------------------------------
(* Requests.                                                                *)

\* Mutant: one request too many.
FullOffByOne(c) == Cardinality(conn[c].pending) > Limit

Full(c) == Cardinality(conn[c].pending) >= Limit

Allowed(r) == config = "enabled" \/ (config = "paused" /\ r \in Maintenance)

Settle(r) == req' = [req EXCEPT ![r].stage = "settled"]

Send(r) ==
  /\ req' = [req EXCEPT ![r].stage = "awaiting", ![r].work = "sent"]
  /\ conn' = [conn EXCEPT ![req[r].on].pending = @ \cup {r}]

\* requestJwxtAgent up to its first await, the read of the replica record.
Request(r) ==
  /\ req[r].stage = "idle"
  /\ IF Allowed(r) /\ Usable(current)
     THEN req' = [req EXCEPT ![r].stage = "loading", ![r].on = current]
     ELSE Settle(r)
  /\ UNCHANGED <<config, current, conn, queued>>

\* With a slot free the request is sent at once; else it waits or is refused.
AfterLoad(r) ==
  /\ req[r].stage = "loading"
  /\ IF Full(req[r].on)
     THEN /\ IF queued >= QueueLimit
             THEN Settle(r) /\ UNCHANGED queued
             ELSE /\ req' = [req EXCEPT ![r].stage = "queued"]
                  /\ queued' = queued + 1
          /\ UNCHANGED conn
     ELSE /\ IF Usable(req[r].on) THEN Send(r) ELSE Settle(r) /\ UNCHANGED conn
          /\ UNCHANGED queued
  /\ UNCHANGED <<config, current>>

\* Mutant: after one wait the slots are not counted again.
PollOnce(r) ==
  /\ req[r].stage = "queued"
  /\ queued' = IF queued > 0 THEN queued - 1 ELSE 0
  /\ IF Usable(req[r].on) THEN Send(r) ELSE Settle(r) /\ UNCHANGED conn
  /\ UNCHANGED <<config, current>>

\* Mutant: a request that finds the session gone leaves the queue uncounted.
PollLeaks(r) ==
  /\ req[r].stage = "queued"
  /\ IF Usable(req[r].on)
     THEN /\ queued' = IF queued > 0 THEN queued - 1 ELSE 0
          /\ IF ~Full(req[r].on) THEN Send(r) ELSE Settle(r) /\ UNCHANGED conn
     ELSE Settle(r) /\ UNCHANGED <<conn, queued>>
  /\ UNCHANGED <<config, current>>

\* The 25 ms polls of a waiting request, the last of which may find the slots
\* still taken after five seconds or at the deadline.
Poll(r) ==
  /\ req[r].stage = "queued"
  /\ queued' = IF queued > 0 THEN queued - 1 ELSE 0
  /\ IF Usable(req[r].on) /\ ~Full(req[r].on)
     THEN Send(r)
     ELSE Settle(r) /\ UNCHANGED conn
  /\ UNCHANGED <<config, current>>

Forget(r) == conn' = [conn EXCEPT ![req[r].on].pending = @ \ {r}]

\* The request's own timer.
Timeout(r) ==
  /\ req[r].stage = "awaiting"
  /\ r \in conn[req[r].on].pending
  /\ Forget(r) /\ Settle(r)
  /\ UNCHANGED <<config, current, queued>>

\* The callback of socket.send reports an error.
SendFails(r) ==
  /\ req[r].work = "sent"
  /\ IF r \in conn[req[r].on].pending
     THEN /\ Forget(r)
          /\ req' = [req EXCEPT ![r].stage = "settled", ![r].work = "over"]
     ELSE req' = [req EXCEPT ![r].work = "over"] /\ UNCHANGED conn
  /\ UNCHANGED <<config, current, queued>>

\* A response: one that no longer has a pending request is ignored.
Answer(r) ==
  /\ req[r].work \in {"answering", "refusing"}
  /\ Attached(req[r].on)
  /\ IF r \in conn[req[r].on].pending
     THEN /\ Forget(r)
          /\ req' = [req EXCEPT ![r].stage = "persisting", ![r].work = "over"]
     ELSE req' = [req EXCEPT ![r].work = "over"] /\ UNCHANGED conn
  /\ UNCHANGED <<config, current, queued>>

\* persistResponseSessionSnapshot has returned, whatever it could save.
Persisted(r) ==
  /\ req[r].stage = "persisting"
  /\ Settle(r)
  /\ UNCHANGED <<config, current, conn, queued>>

-------------------------------------------------------------------------------
(* The node.                                                                *)

Running(p) == {r \in Reqs : req[r].work = "running" /\ conn[req[r].on].proc = p}

\* handleMessage: activeRequests counts the work of the process, whatever
\* connection it came over.
NodeReceive(r) ==
  /\ req[r].work = "sent"
  /\ conn[req[r].on].up
  /\ req' = [req EXCEPT ![r].work =
               IF Cardinality(Running(conn[req[r].on].proc)) >= Limit
               THEN "refusing" ELSE "running"]
  /\ UNCHANGED <<config, current, conn, queued>>

\* The dispatched action ends; with its connection gone the answer is dropped.
NodeFinish(r) ==
  /\ req[r].work = "running"
  /\ req' = [req EXCEPT ![r].work = IF conn[req[r].on].up THEN "answering"
                                                          ELSE "over"]
  /\ UNCHANGED <<config, current, conn, queued>>

\* The process dies with its work and its connections.
Crash(p) ==
  /\ \E c \in Conns : conn[c].proc = p /\ conn[c].up
  /\ conn' = [c \in Conns |-> IF conn[c].proc = p THEN [conn[c] EXCEPT !.up = FALSE]
                                                  ELSE conn[c]]
  /\ req' = [r \in Reqs |-> IF r \in Running(p) THEN [req[r] EXCEPT !.work = "over"]
                                                ELSE req[r]]
  /\ UNCHANGED <<config, current, queued>>

ConnStep(c) == \/ Connect(c) \/ Ready(c) \/ ProtocolError(c) \/ Break(c)
               \/ Closed(c) \/ Heartbeat(c)
ReqStep(r) == \/ Request(r) \/ AfterLoad(r) \/ Poll(r) \/ Timeout(r)
              \/ SendFails(r) \/ Answer(r) \/ Persisted(r)
              \/ NodeReceive(r) \/ NodeFinish(r)

Next == \/ \E c \in Conns : ConnStep(c)
        \/ \E r \in Reqs : ReqStep(r)
        \/ \E s \in Settings, newToken \in BOOLEAN : Reconcile(s, newToken)
        \/ \E p \in Procs : Crash(p)

Spec == Init /\ [][Next]_vars

\* The timers, the replica store's replies and the sockets' close events come;
\* nothing is assumed of the node, its network or the administrator.
Fairness ==
  /\ \A r \in Reqs : /\ WF_vars(AfterLoad(r)) /\ WF_vars(Poll(r))
                     /\ WF_vars(Timeout(r)) /\ WF_vars(Persisted(r))
  /\ \A c \in Conns : /\ WF_vars(conn[c].sock = "closing" /\ Closed(c))
                      /\ WF_vars(~conn[c].up /\ Heartbeat(c))

FairSpec == Spec /\ Fairness

-------------------------------------------------------------------------------
(* Properties.                                                              *)

\* A caller that waits for an answer is in the map of the registered session,
\* whose socket is still to be closed, and a map holds no one else: close,
\* replacement, heartbeat, timeout, send failure and late answers never strand a
\* promise, never leave an entry behind, and never leave one to a session that
\* has lost its place.
PendingIsAwaited ==
  /\ \A r \in Reqs : req[r].stage = "awaiting" => req[r].on \in Conns
  /\ \A c \in Conns : /\ conn[c].pending = {r \in Reqs : /\ req[r].stage = "awaiting"
                                                         /\ req[r].on = c}
                      /\ conn[c].pending # {} => current = c /\ Attached(c)

\* The gateway never has more requests out on a connection than the node is
\* configured for, although a waiting request sleeps between looking and sending.
CapacityRespected == \A c \in Conns : Cardinality(conn[c].pending) <= Limit

\* The queue counter is the number of waiting requests on every path out of the
\* wait; a leak would in time refuse every request as busy.
QueueIsCounted == queued = Cardinality({r \in Reqs : req[r].stage = "queued"})

\* A registered session loses its place only when its own socket goes: neither a
\* second process with the same id nor the late close event of an older
\* connection evicts a working one.
OpenSessionKeepsItsPlace ==
  [][\A c \in Conns : current = c /\ current' # c => conn'[c].sock # "open"]_vars

\* A node turns a request away as busy only if it still works on one the
\* gateway has given up: the two counts of the same limit agree otherwise.
BusyOnlyFromAbandoned ==
  [][\A r \in Reqs :
       /\ req[r].work = "sent" /\ req'[r].work = "refusing"
       /\ req[r].stage = "awaiting"
       => \E q \in Running(conn[req[r].on].proc) : req[q].stage # "awaiting"]_vars

\* Every request that was issued is settled, whatever the node, the network and
\* the administrator do.
RequestsSettle ==
  \A r \in Reqs : req[r].stage # "idle" ~> req[r].stage = "settled"

\* A session whose node is gone gives up its place, so that the node, refused as
\* a duplicate of itself until then, can come back.
DeadSessionYields ==
  \A c \in Conns : current = c /\ ~conn[c].up ~> current # c

===============================================================================
