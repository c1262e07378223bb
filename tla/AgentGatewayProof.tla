-------------------------- MODULE AgentGatewayProof --------------------------
(***************************************************************************)
(* Proofs about AgentGateway, for every number of connections, processes   *)
(* and requests and every limit.                                           *)
(***************************************************************************)
EXTENDS AgentGateway, FiniteSetTheorems, TLAPS

\* A request past its first checks has chosen a connection.
Routed == \A r \in Reqs : \/ req[r].stage \in {"loading", "queued", "awaiting"}
                          \/ req[r].work # "none"
                          => req[r].on \in Conns

LEMMA RejectedType ==
  ASSUME req \in [Reqs -> Req], NEW R
  PROVE  Rejected(R) \in [Reqs -> Req]
BY DEF Rejected, Req

LEMMA TypeInit == Init => TypeOK
BY DEF Init, TypeOK, Req, Conn

LEMMA ConnEdits ==
  ASSUME NEW k \in Conn
  PROVE  /\ Open(k) \in Conn /\ Refused(k) \in Conn /\ Cleared(k) \in Conn
         /\ [k EXCEPT !.sock = "closed", !.up = FALSE, !.pending = {}] \in Conn
         /\ [k EXCEPT !.sock = "closing"] \in Conn
         /\ [k EXCEPT !.ready = TRUE] \in Conn
         /\ [k EXCEPT !.up = FALSE] \in Conn
         /\ \A P \in SUBSET Reqs : [k EXCEPT !.pending = P] \in Conn
BY DEF Open, Refused, Cleared, Conn

LEMMA TypeNext == TypeOK /\ [Next]_vars => TypeOK'
<1> SUFFICES ASSUME TypeOK, [Next]_vars PROVE TypeOK'
  OBVIOUS
<1> USE DEF TypeOK
<1>0. \A R : Rejected(R) \in [Reqs -> Req]
  BY RejectedType
<1>1. ASSUME NEW c \in Conns, Connect(c) PROVE TypeOK'
  <2>1. conn' \in [Conns -> Conn] /\ current' \in Conns \cup {NoConn}
    BY <1>1, ConnEdits DEF Connect
  <2> QED BY <1>0, <1>1, <2>1 DEF Connect
<1>2. ASSUME NEW c \in Conns, Ready(c) \/ ProtocolError(c) \/ Break(c) PROVE TypeOK'
  <2>1. CASE Ready(c)
    BY <2>1, ConnEdits DEF Ready
  <2>2. CASE ProtocolError(c)
    BY <2>2, ConnEdits DEF ProtocolError
  <2>3. CASE Break(c)
    BY <2>3, ConnEdits DEF Break
  <2> QED BY <1>2, <2>1, <2>2, <2>3
<1>3. ASSUME NEW c \in Conns, Closed(c) PROVE TypeOK'
  <2>1. conn' \in [Conns -> Conn] /\ current' \in Conns \cup {NoConn}
    BY <1>3, ConnEdits DEF Closed
  <2>2. \A q \in Req : [q EXCEPT !.work = "over"] \in Req
    BY DEF Req
  <2>3. req' \in [Reqs -> Req]
    BY <1>0, <1>3, <2>2 DEF Closed
  <2> QED BY <1>3, <2>1, <2>3 DEF Closed
<1>4. ASSUME NEW c \in Conns, Heartbeat(c) PROVE TypeOK'
  <2>1. conn' \in [Conns -> Conn]
    BY <1>4, ConnEdits DEF Heartbeat
  <2> QED BY <1>0, <1>4, <2>1 DEF Heartbeat
<1>5. ASSUME NEW s \in Settings, NEW newToken \in BOOLEAN, Reconcile(s, newToken)
      PROVE TypeOK'
  <2>1. conn' \in [Conns -> Conn] /\ current' \in Conns \cup {NoConn}
    BY <1>5, ConnEdits DEF Reconcile
  <2> QED BY <1>0, <1>5, <2>1 DEF Reconcile
<1>6. ASSUME NEW r \in Reqs, Request(r) PROVE TypeOK'
  BY <1>6 DEF Request, Settle, Usable, Req
<1>7. ASSUME NEW r \in Reqs, Send(r) PROVE conn' \in [Conns -> Conn]
  <2>1. ASSUME NEW k \in Conn PROVE [k EXCEPT !.pending = @ \cup {r}] \in Conn
    BY DEF Conn
  <2> QED BY <1>7, <2>1 DEF Send
<1>8. ASSUME NEW r \in Reqs, AfterLoad(r) \/ Poll(r) PROVE TypeOK'
  <2>1. conn' \in [Conns -> Conn]
    BY <1>7, <1>8 DEF AfterLoad, Poll
  <2>2. req' \in [Reqs -> Req]
    BY <1>8 DEF AfterLoad, Poll, Settle, Send, Req
  <2> QED BY <1>8, <2>1, <2>2 DEF AfterLoad, Poll
<1>9. ASSUME NEW r \in Reqs, Timeout(r) \/ SendFails(r) \/ Answer(r) \/ Persisted(r)
      PROVE TypeOK'
  <2>1. ASSUME NEW k \in Conn PROVE [k EXCEPT !.pending = @ \ {r}] \in Conn
    BY DEF Conn
  <2>2. conn' \in [Conns -> Conn]
    BY <1>9, <2>1 DEF Timeout, SendFails, Answer, Persisted, Forget
  <2>3. req' \in [Reqs -> Req]
    BY <1>9 DEF Timeout, SendFails, Answer, Persisted, Settle, Req
  <2> QED BY <1>9, <2>2, <2>3 DEF Timeout, SendFails, Answer, Persisted
<1>10. ASSUME NEW r \in Reqs, NodeReceive(r) \/ NodeFinish(r) PROVE TypeOK'
  BY <1>10 DEF NodeReceive, NodeFinish, Req
<1>11. ASSUME NEW p \in Procs, Crash(p) PROVE TypeOK'
  <2>1. conn' \in [Conns -> Conn]
    BY <1>11, ConnEdits DEF Crash
  <2>2. req' \in [Reqs -> Req]
    BY <1>11 DEF Crash, Req
  <2> QED BY <1>11, <2>1, <2>2 DEF Crash
<1>12. CASE UNCHANGED vars
  BY <1>12 DEF vars
<1> QED BY <1>1, <1>2, <1>3, <1>4, <1>5, <1>6, <1>8, <1>9, <1>10, <1>11, <1>12
        DEF Next, ConnStep, ReqStep

-------------------------------------------------------------------------------
(* The pending maps, request by request.                                    *)

Held == /\ \A c \in Conns, r \in Reqs :
             r \in conn[c].pending <=> req[r].stage = "awaiting" /\ req[r].on = c
        /\ \A c \in Conns : conn[c].pending # {} => current = c /\ Attached(c)

LEMMA HeldIsPending == TypeOK /\ Routed => (PendingIsAwaited <=> Held)
BY DEF TypeOK, Routed, PendingIsAwaited, Held, Conn

LEMMA HeldIsPendingNext == TypeOK' /\ Routed' => (PendingIsAwaited' <=> Held')
BY DEF TypeOK, Routed, PendingIsAwaited, Held, Conn

LEMMA RejectedAt ==
  ASSUME TypeOK, NEW R \in SUBSET Reqs, NEW r \in Reqs
  PROVE  /\ Rejected(R)[r].on = req[r].on
         /\ Rejected(R)[r].work = req[r].work
         /\ Rejected(R)[r].stage = IF r \in R THEN "settled" ELSE req[r].stage
BY DEF TypeOK, Rejected, Req

LEMMA RoutedNext == TypeOK /\ Routed /\ [Next]_vars => Routed'
<1> SUFFICES ASSUME TypeOK, Routed, [Next]_vars, NEW r \in Reqs,
                    req'[r].stage \in {"loading", "queued", "awaiting"}
                    \/ req'[r].work # "none"
             PROVE  req'[r].on \in Conns
  BY DEF Routed
<1> USE DEF Routed
<1>0. \A c \in Conns : conn[c].pending \in SUBSET Reqs
  BY DEF TypeOK, Conn
<1>1. ASSUME NEW c \in Conns, Connect(c) PROVE req'[r].on \in Conns
  BY <1>0, <1>1, RejectedAt DEF Connect, TypeOK
<1>2. ASSUME NEW c \in Conns, Closed(c) PROVE req'[r].on \in Conns
  <2>1. /\ req'[r].on = Rejected(conn[c].pending)[r].on
        /\ req'[r].stage = Rejected(conn[c].pending)[r].stage
        /\ req'[r].work # Rejected(conn[c].pending)[r].work => req[r].on = c
    BY <1>2, RejectedType DEF Closed, TypeOK, Req
  <2> QED BY <1>0, <2>1, RejectedAt
<1>3. ASSUME NEW c \in Conns, Heartbeat(c) PROVE req'[r].on \in Conns
  BY <1>0, <1>3, RejectedAt DEF Heartbeat
<1>4. ASSUME NEW s \in Settings, NEW newToken \in BOOLEAN, Reconcile(s, newToken)
      PROVE req'[r].on \in Conns
  BY <1>0, <1>4, RejectedAt DEF Reconcile, TypeOK
<1>5. ASSUME NEW q \in Reqs, ReqStep(q) PROVE req'[r].on \in Conns
  BY <1>5 DEF ReqStep, Request, AfterLoad, Poll, Timeout, SendFails, Answer, Persisted,
     NodeReceive, NodeFinish, Settle, Send, Usable, TypeOK, Req
<1>6. ASSUME NEW p \in Procs, Crash(p) PROVE req'[r].on \in Conns
  BY <1>6 DEF Crash, Running, TypeOK, Req
<1>7. CASE UNCHANGED req
  BY <1>7
<1> QED BY <1>1, <1>2, <1>3, <1>4, <1>5, <1>6, <1>7
        DEF Next, ConnStep, Ready, ProtocolError, Break, vars

-------------------------------------------------------------------------------
(* The steps of the map.                                                    *)

\* Clearing the maps of the connections D and rejecting what they held.
LEMMA ClearedHeld ==
  ASSUME TypeOK, TypeOK', Held, NEW D \in SUBSET Conns,
         \A d \in Conns : conn'[d].pending = IF d \in D THEN {} ELSE conn[d].pending,
         \A d \in Conns \ D : current = d /\ conn[d].pending # {}
                              => current' = d /\ Attached(d)',
         \A r \in Reqs :
           /\ req'[r].on = req[r].on
           /\ req'[r].stage = IF \E d \in D : r \in conn[d].pending THEN "settled"
                              ELSE req[r].stage
  PROVE  Held'
<1>1. ASSUME NEW c \in Conns, NEW r \in Reqs
      PROVE  r \in conn'[c].pending <=> req'[r].stage = "awaiting" /\ req'[r].on = c
  BY <1>1 DEF Held
<1>2. ASSUME NEW c \in Conns, conn'[c].pending # {}
      PROVE  current' = c /\ Attached(c)'
  BY <1>2 DEF Held
<1> QED BY <1>1, <1>2 DEF Held

LEMMA EditedFields ==
  ASSUME NEW k \in Conn
  PROVE  /\ Open(k).pending = k.pending /\ Refused(k).pending = k.pending
         /\ Cleared(k).pending = {}
         /\ Cleared(k).sock = IF k.sock = "open" THEN "closing" ELSE k.sock
         /\ Open(k).sock = "open" /\ Refused(k).sock = "closing"
BY DEF Open, Refused, Cleared, Conn

\* The registered connection has been opened and its close event is to come.
Registered == current # NoConn => Attached(current)

LEMMA RegisteredNext == TypeOK /\ Registered /\ [Next]_vars => Registered'
<1> SUFFICES ASSUME TypeOK, Registered, [Next]_vars PROVE Registered'
  OBVIOUS
<1> USE DEF TypeOK, Registered, Attached
<1>1. ASSUME NEW c \in Conns, Connect(c) PROVE Registered'
  BY <1>1, EditedFields DEF Connect
<1>2. ASSUME NEW c \in Conns, Ready(c) \/ ProtocolError(c) \/ Break(c) PROVE Registered'
  <2>1. /\ current' = current
        /\ \A d \in Conns : conn'[d].sock \in {conn[d].sock, "closing"}
    BY <1>2 DEF Ready, ProtocolError, Break, Conn
  <2> QED BY <2>1
<1>3. ASSUME NEW c \in Conns, Closed(c) PROVE Registered'
  BY <1>3 DEF Closed
<1>4. ASSUME NEW c \in Conns, Heartbeat(c) PROVE Registered'
  BY <1>4, EditedFields DEF Heartbeat
<1>5. ASSUME NEW s \in Settings, NEW newToken \in BOOLEAN, Reconcile(s, newToken)
      PROVE Registered'
  BY <1>5, EditedFields DEF Reconcile
<1>6. ASSUME NEW r \in Reqs, ReqStep(r) PROVE Registered'
  <2>1. current' = current
    BY <1>6 DEF ReqStep, Request, AfterLoad, Poll, Timeout, SendFails, Answer,
                Persisted, NodeReceive, NodeFinish
  <2>2. \A d \in Conns : conn'[d].sock = conn[d].sock
    BY <1>6 DEF ReqStep, Request, AfterLoad, Poll, Timeout, SendFails, Answer,
                Persisted, NodeReceive, NodeFinish, Send, Forget, Conn
  <2> QED BY <2>1, <2>2
<1>7. ASSUME NEW p \in Procs, Crash(p) PROVE Registered'
  <2>1. \A d \in Conns : conn'[d].sock = conn[d].sock
    BY <1>7 DEF Crash, Conn
  <2> QED BY <1>7, <2>1 DEF Crash
<1>8. CASE UNCHANGED vars
  BY <1>8 DEF vars
<1> QED BY <1>1, <1>2, <1>3, <1>4, <1>5, <1>6, <1>7, <1>8 DEF Next, ConnStep

LEMMA HeldNext ==
  TypeOK /\ TypeOK' /\ Routed /\ Registered /\ Held /\ [Next]_vars => Held'
<1> SUFFICES ASSUME TypeOK, TypeOK', Routed, Registered, Held, [Next]_vars PROVE Held'
  OBVIOUS
<1>0. \A c \in Conns : conn[c].pending \in SUBSET Reqs
  BY DEF TypeOK, Conn
<1>1. ASSUME NEW c \in Conns, Connect(c) PROVE Held'
  <2>0. conn[c].pending = {}
    BY <1>1 DEF Held, Attached, Connect
  <2>1. CASE current # NoConn /\ conn[current].sock # "open"
    <3>1. /\ current \in Conns /\ current # c
          /\ req' = Rejected(conn[current].pending)
          /\ conn' = [conn EXCEPT ![current] = Cleared(@), ![c] = Open(@)]
      BY <1>1, <2>1 DEF TypeOK, Connect, Registered, Attached
    <3>2. \A d \in Conns : conn'[d].pending = IF d \in {current} THEN {}
                                              ELSE conn[d].pending
      BY <2>0, <3>1, EditedFields DEF TypeOK
    <3>3. \A r \in Reqs : /\ req'[r].on = req[r].on
                          /\ req'[r].stage = IF r \in conn[current].pending
                                             THEN "settled" ELSE req[r].stage
      BY <1>0, <3>1, RejectedAt
    <3> QED BY <3>1, <3>2, <3>3, ClearedHeld
  <2>2. CASE ~(current # NoConn /\ conn[current].sock # "open")
    <3>1. req' = req
      BY <1>1, <2>2 DEF Connect
    <3>2. \A d \in Conns : conn'[d].pending = conn[d].pending
      BY <1>1, <2>2, EditedFields DEF Connect, TypeOK
    <3>3. \A d \in Conns : conn[d].pending # {} => d # c /\ conn'[d] = conn[d]
                                                   /\ current = d /\ current' = d
      BY <1>1, <2>0, <2>2, SentinelAssumption DEF Connect, TypeOK, Held
    <3> QED BY <3>1, <3>2, <3>3 DEF Held, Attached
  <2> QED BY <2>1, <2>2
<1>2. ASSUME NEW c \in Conns, Ready(c) \/ ProtocolError(c) \/ Break(c) PROVE Held'
  <2>1. /\ req' = req /\ current' = current
        /\ \A d \in Conns : /\ conn'[d].pending = conn[d].pending
                            /\ Attached(d) => Attached(d)'
    BY <1>2 DEF Ready, ProtocolError, Break, Attached, TypeOK, Conn
  <2> QED BY <2>1 DEF Held
<1>3. ASSUME NEW c \in Conns, Closed(c) PROVE Held'
  <2>1. \A d \in Conns : conn'[d].pending = IF d \in {c} THEN {} ELSE conn[d].pending
    BY <1>3 DEF Closed, TypeOK, Conn
  <2>2. \A d \in Conns \ {c} : conn'[d] = conn[d] /\ (current = d => current' = d)
    BY <1>3 DEF Closed, TypeOK
  <2>3. \A r \in Reqs : /\ req'[r].on = Rejected(conn[c].pending)[r].on
                        /\ req'[r].stage = Rejected(conn[c].pending)[r].stage
    BY <1>3, RejectedType DEF Closed, TypeOK, Req
  <2>4. \A r \in Reqs : /\ req'[r].on = req[r].on
                        /\ req'[r].stage = IF r \in conn[c].pending
                                           THEN "settled" ELSE req[r].stage
    BY <1>0, <2>3, RejectedAt
  <2>5. \A d \in Conns \ {c} : current = d /\ conn[d].pending # {}
                               => current' = d /\ Attached(d)'
    BY <2>2 DEF Held, Attached
  <2> QED BY <2>1, <2>4, <2>5, ClearedHeld
<1>4. ASSUME NEW c \in Conns, Heartbeat(c) PROVE Held'
  <2>1. \A d \in Conns : conn'[d].pending = IF d \in {c} THEN {} ELSE conn[d].pending
    BY <1>4 DEF Heartbeat, Cleared, TypeOK, Conn
  <2>2. \A d \in Conns \ {c} : current # d
    BY <1>4 DEF Heartbeat
  <2>3. \A r \in Reqs : /\ req'[r].on = req[r].on
                        /\ req'[r].stage = IF r \in conn[c].pending
                                           THEN "settled" ELSE req[r].stage
    BY <1>0, <1>4, RejectedAt DEF Heartbeat
  <2> QED BY <2>1, <2>2, <2>3, ClearedHeld
<1>5. ASSUME NEW s \in Settings, NEW newToken \in BOOLEAN, Reconcile(s, newToken)
      PROVE Held'
  <2>1. CASE current # NoConn /\ (newToken \/ s = "absent")
    <3>1. /\ current \in Conns
          /\ req' = Rejected(conn[current].pending)
          /\ conn' = [conn EXCEPT ![current] = Cleared(@)]
      BY <1>5, <2>1 DEF TypeOK, Reconcile
    <3>2. \A d \in Conns : conn'[d].pending = IF d \in {current} THEN {}
                                              ELSE conn[d].pending
      BY <3>1 DEF TypeOK, Cleared, Conn
    <3>3. \A r \in Reqs : /\ req'[r].on = req[r].on
                          /\ req'[r].stage = IF r \in conn[current].pending
                                             THEN "settled" ELSE req[r].stage
      BY <1>0, <3>1, RejectedAt
    <3> QED BY <3>1, <3>2, <3>3, ClearedHeld
  <2>2. CASE ~(current # NoConn /\ (newToken \/ s = "absent"))
    BY <1>5, <2>2 DEF Reconcile, Held, Attached
  <2> QED BY <2>1, <2>2
<1>6. ASSUME NEW r \in Reqs, Send(r), UNCHANGED current, Usable(req[r].on),
             req[r].stage \in {"loading", "queued"}
      PROVE Held'
  <2>0. req[r].on \in Conns
    BY <1>6 DEF Routed
  <2>1. \A d \in Conns : /\ conn'[d].pending = IF d = req[r].on
                                               THEN conn[d].pending \cup {r}
                                               ELSE conn[d].pending
                         /\ conn'[d].sock = conn[d].sock
    BY <1>6 DEF Send, TypeOK, Conn
  <2>2. \A q \in Reqs : /\ req'[q].on = req[q].on
                        /\ req'[q].stage = IF q = r THEN "awaiting" ELSE req[q].stage
    BY <1>6 DEF Send, TypeOK, Req
  <2>3. \A c \in Conns, q \in Reqs :
          q \in conn'[c].pending <=> req'[q].stage = "awaiting" /\ req'[q].on = c
    <3> SUFFICES ASSUME NEW c \in Conns, NEW q \in Reqs
        PROVE  q \in conn'[c].pending <=> req'[q].stage = "awaiting" /\ req'[q].on = c
      OBVIOUS
    <3>a. q \in conn[c].pending <=> (req[q].stage = "awaiting" /\ req[q].on = c)
      BY DEF Held
    <3>0. q \in conn'[c].pending <=> (q \in conn[c].pending \/ (c = req[r].on /\ q = r))
      BY <2>1
    <3> QED BY <1>6, <2>2, <3>a, <3>0
  <2>4. \A c \in Conns : conn'[c].pending # {} => current' = c /\ Attached(c)'
    BY <1>6, <2>0, <2>1 DEF Held, Usable, Attached
  <2> QED BY <2>3, <2>4 DEF Held
<1>7. ASSUME NEW r \in Reqs, UNCHANGED <<conn, current>>, req[r].stage # "awaiting",
             req'[r].stage # "awaiting", \A q \in Reqs \ {r} : req'[q] = req[q]
      PROVE Held'
  BY <1>7 DEF Held, Attached
<1>8. ASSUME NEW r \in Reqs, Request(r) PROVE Held'
  BY <1>7, <1>8 DEF Request, Settle, TypeOK, Req
<1>9. ASSUME NEW r \in Reqs, AfterLoad(r) \/ Poll(r) PROVE Held'
  <2>1. CASE Send(r) /\ Usable(req[r].on)
    BY <1>6, <1>9, <2>1 DEF AfterLoad, Poll
  <2>2. CASE ~(Send(r) /\ Usable(req[r].on))
    BY <1>7, <1>9, <2>2 DEF AfterLoad, Poll, Settle, TypeOK, Req
  <2> QED BY <2>1, <2>2
<1>10. ASSUME NEW r \in Reqs, Forget(r), UNCHANGED current,
              r \in conn[req[r].on].pending, req[r].on \in Conns,
              req'[r].stage # "awaiting", \A q \in Reqs \ {r} : req'[q] = req[q]
       PROVE Held'
  <2>1. \A d \in Conns : /\ conn'[d].pending = IF d = req[r].on
                                               THEN conn[d].pending \ {r}
                                               ELSE conn[d].pending
                         /\ conn'[d].sock = conn[d].sock
    BY <1>10 DEF Forget, TypeOK, Conn
  <2>2. \A c \in Conns, q \in Reqs :
          q \in conn'[c].pending <=> req'[q].stage = "awaiting" /\ req'[q].on = c
    <3> SUFFICES ASSUME NEW c \in Conns, NEW q \in Reqs
        PROVE  q \in conn'[c].pending <=> req'[q].stage = "awaiting" /\ req'[q].on = c
      OBVIOUS
    <3>a. q \in conn[c].pending <=> (req[q].stage = "awaiting" /\ req[q].on = c)
      BY DEF Held
    <3>0. q \in conn'[c].pending <=> (q \in conn[c].pending /\ ~(c = req[r].on /\ q = r))
      BY <2>1
    <3>1. CASE q = r
      BY <1>10, <3>a, <3>0, <3>1
    <3>2. CASE q # r
      BY <1>10, <3>a, <3>0, <3>2
    <3> QED BY <3>1, <3>2
  <2>3. \A c \in Conns : conn'[c].pending # {} => current' = c /\ Attached(c)'
    BY <1>10, <2>1 DEF Held, Attached
  <2> QED BY <2>2, <2>3 DEF Held
<1>11. ASSUME NEW r \in Reqs, UNCHANGED <<conn, current>>,
              \A q \in Reqs : req'[q].stage = req[q].stage /\ req'[q].on = req[q].on
       PROVE Held'
  BY <1>11 DEF Held, Attached
<1>12. ASSUME NEW r \in Reqs, Timeout(r) PROVE Held'
  BY <1>10, <1>12 DEF Timeout, Settle, Routed, TypeOK, Req
<1>13. ASSUME NEW r \in Reqs, SendFails(r) \/ Answer(r) PROVE Held'
  <2>0. req[r].on \in Conns
    BY <1>13 DEF SendFails, Answer, Routed
  <2>1. CASE r \in conn[req[r].on].pending
    BY <1>10, <1>13, <2>0, <2>1 DEF SendFails, Answer, TypeOK, Req
  <2>2. CASE r \notin conn[req[r].on].pending
    BY <1>11, <1>13, <2>2 DEF SendFails, Answer, TypeOK, Req
  <2> QED BY <2>1, <2>2
<1>14. ASSUME NEW r \in Reqs, Persisted(r) PROVE Held'
  BY <1>7, <1>14 DEF Persisted, Settle, TypeOK, Req
<1>15. ASSUME NEW r \in Reqs, NodeReceive(r) \/ NodeFinish(r) PROVE Held'
  BY <1>11, <1>15 DEF NodeReceive, NodeFinish, TypeOK, Req
<1>16. ASSUME NEW p \in Procs, Crash(p) PROVE Held'
  <2>1. /\ current' = current
        /\ \A d \in Conns : conn'[d].pending = conn[d].pending /\ conn'[d].sock = conn[d].sock
    BY <1>16 DEF Crash, TypeOK, Conn
  <2>2. \A q \in Reqs : req'[q].stage = req[q].stage /\ req'[q].on = req[q].on
    BY <1>16 DEF Crash, TypeOK, Req
  <2> QED BY <2>1, <2>2 DEF Held, Attached
<1>17. CASE UNCHANGED vars
  BY <1>17 DEF vars, Held, Attached
<1> QED BY <1>1, <1>2, <1>3, <1>4, <1>5, <1>8, <1>9, <1>12, <1>13, <1>14, <1>15, <1>16,
           <1>17 DEF Next, ConnStep, ReqStep

-------------------------------------------------------------------------------
(* The limit and the queue.                                                 *)

\* A map grows by one request at a time, and only below the limit.
LEMMA MapGrows ==
  ASSUME TypeOK, Routed, [Next]_vars, NEW c \in Conns
  PROVE  \/ conn'[c].pending \subseteq conn[c].pending
         \/ ~Full(c) /\ \E r \in Reqs : conn'[c].pending = conn[c].pending \cup {r}
<1> DEFINE Shrinks == conn'[c].pending \subseteq conn[c].pending
           Grows == ~Full(c) /\ \E r \in Reqs : conn'[c].pending = conn[c].pending \cup {r}
<1> SUFFICES Shrinks \/ Grows
  OBVIOUS
<1> USE DEF TypeOK
<1>1. ASSUME NEW d \in Conns, Connect(d) PROVE Shrinks
  BY <1>1, EditedFields DEF Connect
<1>2. ASSUME NEW d \in Conns, Ready(d) \/ ProtocolError(d) \/ Break(d) PROVE Shrinks
  BY <1>2 DEF Ready, ProtocolError, Break, Conn
<1>3. ASSUME NEW d \in Conns, Closed(d) PROVE Shrinks
  BY <1>3 DEF Closed, Conn
<1>4. ASSUME NEW d \in Conns, Heartbeat(d) PROVE Shrinks
  BY <1>4, EditedFields DEF Heartbeat
<1>5. ASSUME NEW s \in Settings, NEW newToken \in BOOLEAN, Reconcile(s, newToken)
      PROVE Shrinks
  BY <1>5, EditedFields DEF Reconcile
<1>6. ASSUME NEW r \in Reqs, Send(r), req[r].on \in Conns, ~Full(req[r].on)
      PROVE Shrinks \/ Grows
  <2>1. CASE c = req[r].on
    <3>1. conn'[c].pending = conn[c].pending \cup {r}
      BY <1>6, <2>1 DEF Send, Conn
    <3> QED BY <1>6, <2>1, <3>1
  <2>2. CASE c # req[r].on
    BY <1>6, <2>2 DEF Send
  <2> QED BY <2>1, <2>2
<1>7. ASSUME NEW r \in Reqs, AfterLoad(r) \/ Poll(r) PROVE Shrinks \/ Grows
  <2>1. req[r].on \in Conns
    BY <1>7 DEF AfterLoad, Poll, Routed
  <2>2. UNCHANGED conn \/ (Send(r) /\ ~Full(req[r].on))
    BY <1>7 DEF AfterLoad, Poll
  <2> QED BY <1>6, <2>1, <2>2
<1>8. ASSUME NEW r \in Reqs, Forget(r) PROVE Shrinks
  BY <1>8 DEF Forget, Conn
<1>9. ASSUME NEW r \in Reqs, ReqStep(r) PROVE Shrinks \/ Grows
  BY <1>7, <1>8, <1>9 DEF ReqStep, Request, Timeout, SendFails, Answer, Persisted,
                          NodeReceive, NodeFinish
<1>10. ASSUME NEW p \in Procs, Crash(p) PROVE Shrinks
  BY <1>10 DEF Crash, Conn
<1>11. CASE UNCHANGED vars
  BY <1>11 DEF vars
<1> QED BY <1>1, <1>2, <1>3, <1>4, <1>5, <1>9, <1>10, <1>11 DEF Next, ConnStep

LEMMA CapacityNext ==
  TypeOK /\ TypeOK' /\ Routed /\ CapacityRespected /\ [Next]_vars => CapacityRespected'
<1> SUFFICES ASSUME TypeOK, TypeOK', Routed, CapacityRespected, [Next]_vars,
                    NEW c \in Conns
             PROVE  Cardinality(conn'[c].pending) <= Limit
  BY DEF CapacityRespected
<1>1. IsFiniteSet(conn[c].pending) /\ Cardinality(conn[c].pending) \in Nat
  <2>1. conn[c].pending \subseteq Reqs
    BY DEF TypeOK, Conn
  <2> QED BY <2>1, FS_Subset, FS_CardinalityType, RequestAssumption
<1>2. Cardinality(conn[c].pending) <= Limit
  BY DEF CapacityRespected
<1>3. CASE conn'[c].pending \subseteq conn[c].pending
  <2>1. /\ Cardinality(conn'[c].pending) <= Cardinality(conn[c].pending)
        /\ IsFiniteSet(conn'[c].pending)
    BY <1>1, <1>3, FS_Subset
  <2>2. Cardinality(conn'[c].pending) \in Nat
    BY <2>1, FS_CardinalityType
  <2> QED BY <1>1, <1>2, <2>1, <2>2, LimitAssumption
<1>4. ASSUME ~Full(c), NEW r \in Reqs, conn'[c].pending = conn[c].pending \cup {r}
      PROVE  Cardinality(conn'[c].pending) <= Limit
  <2>0. Cardinality(conn[c].pending \cup {r})
          \in {Cardinality(conn[c].pending), Cardinality(conn[c].pending) + 1}
    BY <1>1, FS_AddElement
  <2>1. Cardinality(conn[c].pending \cup {r}) <= Cardinality(conn[c].pending) + 1
    BY <1>1, <2>0
  <2>2. Cardinality(conn[c].pending \cup {r}) \in Nat
    BY <1>1, FS_AddElement, FS_CardinalityType
  <2> QED BY <1>1, <1>4, <2>1, <2>2, LimitAssumption DEF Full
<1> QED BY <1>3, <1>4, MapGrows

Waiting == {r \in Reqs : req[r].stage = "queued"}

LEMMA WaitingFinite == IsFiniteSet(Waiting) /\ Cardinality(Waiting) \in Nat
BY FS_Subset, FS_CardinalityType, RequestAssumption DEF Waiting

LEMMA QueueNext ==
  TypeOK /\ Routed /\ Held /\ QueueIsCounted /\ [Next]_vars => QueueIsCounted'
<1> SUFFICES ASSUME TypeOK, Routed, Held, queued = Cardinality(Waiting), [Next]_vars
             PROVE  queued' = Cardinality(Waiting')
  BY DEF QueueIsCounted, Waiting
<1>0. \A c \in Conns : conn[c].pending \in SUBSET Reqs /\ conn[c].pending \cap Waiting = {}
  BY DEF TypeOK, Conn, Held, Waiting
<1>1. ASSUME NEW c \in Conns, UNCHANGED queued,
             \A r \in Reqs : req'[r].stage = Rejected(conn[c].pending)[r].stage
      PROVE  queued' = Cardinality(Waiting')
  <2>1. Waiting' = Waiting
    BY <1>0, <1>1, RejectedAt DEF Waiting
  <2> QED BY <1>1, <2>1
<1>2. ASSUME UNCHANGED queued, \A r \in Reqs : req'[r].stage = "queued"
                                               <=> req[r].stage = "queued"
      PROVE  queued' = Cardinality(Waiting')
  <2>1. Waiting' = Waiting
    BY <1>2 DEF Waiting
  <2> QED BY <1>2, <2>1
<1>3. ASSUME NEW c \in Conns, Connect(c) PROVE queued' = Cardinality(Waiting')
  BY <1>1, <1>2, <1>3 DEF Connect, TypeOK
<1>4. ASSUME NEW c \in Conns, Closed(c) PROVE queued' = Cardinality(Waiting')
  <2>1. \A r \in Reqs : req'[r].stage = Rejected(conn[c].pending)[r].stage
    BY <1>4, RejectedType DEF Closed, TypeOK, Req
  <2> QED BY <1>1, <1>4, <2>1 DEF Closed
<1>5. ASSUME NEW c \in Conns, Heartbeat(c) PROVE queued' = Cardinality(Waiting')
  BY <1>1, <1>5 DEF Heartbeat
<1>6. ASSUME NEW s \in Settings, NEW newToken \in BOOLEAN, Reconcile(s, newToken)
      PROVE queued' = Cardinality(Waiting')
  BY <1>1, <1>2, <1>6 DEF Reconcile, TypeOK
<1>7. ASSUME NEW r \in Reqs, AfterLoad(r) PROVE queued' = Cardinality(Waiting')
  <2>1. CASE req' = [req EXCEPT ![r].stage = "queued"] /\ queued' = queued + 1
    <3>1. Waiting' = Waiting \cup {r} /\ r \notin Waiting
      BY <1>7, <2>1 DEF AfterLoad, Waiting, TypeOK, Req
    <3> QED BY <2>1, <3>1, WaitingFinite, FS_AddElement
  <2>2. CASE UNCHANGED queued /\ (Send(r) \/ Settle(r))
    BY <1>2, <1>7, <2>2 DEF AfterLoad, Send, Settle, TypeOK, Req
  <2> QED BY <1>7, <2>1, <2>2 DEF AfterLoad
<1>8. ASSUME NEW r \in Reqs, Poll(r) PROVE queued' = Cardinality(Waiting')
  <2>1. Waiting' = Waiting \ {r} /\ r \in Waiting
    BY <1>8 DEF Poll, Send, Settle, Waiting, TypeOK, Req
  <2>2. Cardinality(Waiting \ {r}) = Cardinality(Waiting) - 1 /\ Cardinality(Waiting) > 0
    BY <2>1, WaitingFinite, FS_RemoveElement, FS_EmptySet, FS_CardinalityType
  <2> QED BY <1>8, <2>1, <2>2 DEF Poll
<1>9. ASSUME NEW r \in Reqs, Request(r) \/ Timeout(r) \/ SendFails(r) \/ Answer(r)
                             \/ Persisted(r) \/ NodeReceive(r) \/ NodeFinish(r)
      PROVE queued' = Cardinality(Waiting')
  <2>1. UNCHANGED queued
    BY <1>9 DEF Request, Timeout, SendFails, Answer, Persisted, NodeReceive, NodeFinish
  <2>2. \A q \in Reqs : q # r => req'[q] = req[q]
    BY <1>9 DEF Request, Timeout, SendFails, Answer, Persisted, NodeReceive, NodeFinish,
                Settle, TypeOK
  <2>3. CASE req[r].stage = "queued"
    <3>1. r \notin conn[req[r].on].pending
      BY <2>3 DEF Held, Routed
    <3>2. req'[r].stage = "queued"
      BY <1>9, <2>3, <3>1 DEF Request, Timeout, SendFails, Answer, Persisted, NodeReceive,
                              NodeFinish, TypeOK, Req
    <3> QED BY <1>2, <2>1, <2>2, <2>3, <3>2
  <2>4. CASE req[r].stage # "queued"
    <3>1. req'[r].stage # "queued"
      BY <1>9, <2>4 DEF Request, Timeout, SendFails, Answer, Persisted, NodeReceive,
                        NodeFinish, Settle, TypeOK, Req
    <3> QED BY <1>2, <2>1, <2>2, <2>4, <3>1
  <2> QED BY <2>3, <2>4
<1>10. ASSUME NEW p \in Procs, Crash(p) PROVE queued' = Cardinality(Waiting')
  <2>1. \A q \in Reqs : req'[q].stage = req[q].stage
    BY <1>10 DEF Crash, TypeOK, Req
  <2> QED BY <1>2, <1>10, <2>1 DEF Crash
<1>11. CASE UNCHANGED req /\ UNCHANGED queued
  BY <1>2, <1>11
<1> QED BY <1>3, <1>4, <1>5, <1>6, <1>7, <1>8, <1>9, <1>10, <1>11
        DEF Next, ConnStep, ReqStep, Ready, ProtocolError, Break, vars

-------------------------------------------------------------------------------
(* The theorems.                                                            *)

\* The limit needs the maps to be what the requests say, and these need the
\* requests' choices to be connections and the registered one to be open.
IInv == /\ TypeOK
        /\ Routed
        /\ Registered
        /\ PendingIsAwaited
        /\ CapacityRespected
        /\ QueueIsCounted

LEMMA IInvInit == Init => IInv
<1> SUFFICES ASSUME Init PROVE IInv
  OBVIOUS
<1>1. TypeOK
  BY TypeInit
<1>2. Routed /\ Registered
  BY DEF Init, Routed, Registered
<1>3. \A c \in Conns : conn[c].pending = {}
  BY DEF Init
<1>4. PendingIsAwaited
  BY <1>3 DEF Init, PendingIsAwaited
<1>5. CapacityRespected
  BY <1>3, FS_EmptySet, LimitAssumption DEF CapacityRespected
<1>6. QueueIsCounted
  <2>1. {r \in Reqs : req[r].stage = "queued"} = {}
    BY DEF Init
  <2> QED BY <2>1, FS_EmptySet DEF Init, QueueIsCounted
<1> QED BY <1>1, <1>2, <1>4, <1>5, <1>6 DEF IInv

LEMMA IInvNext == IInv /\ [Next]_vars => IInv'
<1> SUFFICES ASSUME IInv, [Next]_vars PROVE IInv'
  OBVIOUS
<1> USE DEF IInv
<1>1. TypeOK'
  BY TypeNext
<1>2. Routed' /\ Registered'
  BY RoutedNext, RegisteredNext
<1>3. Held /\ Held'
  BY <1>1, HeldIsPending, HeldNext
<1>4. PendingIsAwaited'
  BY <1>1, <1>2, <1>3, HeldIsPendingNext
<1>5. CapacityRespected'
  BY <1>1, CapacityNext
<1>6. QueueIsCounted'
  BY <1>3, QueueNext
<1> QED BY <1>1, <1>2, <1>4, <1>5, <1>6

LEMMA IInvHolds == Spec => []IInv
BY IInvInit, IInvNext, PTL DEF Spec

\* Every variable has values of its type in every reachable state.
THEOREM TypeCorrect == Spec => []TypeOK
BY IInvHolds, PTL DEF IInv

\* No caller is stranded: the pending map of a session holds exactly the
\* requests whose callers wait, and only the registered session has any.
THEOREM NoPromiseIsLost == Spec => []PendingIsAwaited
BY IInvHolds, PTL DEF IInv

\* The node never has more unanswered requests of the gateway than its limit.
THEOREM LimitHolds == Spec => []CapacityRespected
BY IInvHolds, PTL DEF IInv

\* The queue counter never leaks.
THEOREM QueueCounterIsExact == Spec => []QueueIsCounted
BY IInvHolds, PTL DEF IInv

\* A registered session is only displaced together with its socket.
THEOREM RegistrationIsStable == Spec => OpenSessionKeepsItsPlace
<1>1. ASSUME IInv, [Next]_vars
      PROVE  [\A c \in Conns : current = c /\ current' # c => conn'[c].sock # "open"]_vars
  <2> SUFFICES ASSUME NEW c \in Conns, current = c, current' # c
               PROVE  conn'[c].sock # "open"
    OBVIOUS
  <2> USE <1>1 DEF IInv, TypeOK, Registered
  <2>0. c # NoConn
    BY SentinelAssumption
  <2>1. ASSUME NEW d \in Conns, Connect(d) PROVE conn'[c].sock # "open"
    <3>1. conn' = [conn EXCEPT ![c] = Cleared(@), ![d] = Open(@)] /\ d # c
      BY <2>0, <2>1 DEF Connect, Attached
    <3> QED BY <3>1, EditedFields
  <2>2. ASSUME NEW d \in Conns, Closed(d) PROVE conn'[c].sock # "open"
    BY <2>2 DEF Closed, Conn
  <2>3. ASSUME NEW s \in Settings, NEW newToken \in BOOLEAN, Reconcile(s, newToken)
        PROVE conn'[c].sock # "open"
    <3>1. conn' = [conn EXCEPT ![c] = Cleared(@)]
      BY <2>0, <2>3 DEF Reconcile
    <3> QED BY <3>1, EditedFields
  <2> QED BY <2>1, <2>2, <2>3 DEF Next, ConnStep, ReqStep, Ready, ProtocolError, Break,
          Heartbeat, Request, AfterLoad, Poll, Timeout, SendFails, Answer, Persisted,
          NodeReceive, NodeFinish, Crash, vars
<1> QED BY <1>1, IInvHolds, PTL DEF OpenSessionKeepsItsPlace, Spec

\* A node refuses a live request only while it works on one that was given up.
THEOREM BusyMeansAbandoned == Spec => BusyOnlyFromAbandoned
<1> DEFINE B == \A r \in Reqs :
                  /\ req[r].work = "sent" /\ req'[r].work = "refusing"
                  /\ req[r].stage = "awaiting"
                  => \E q \in Running(conn[req[r].on].proc) : req[q].stage # "awaiting"
<1>1. ASSUME IInv, [Next]_vars PROVE [B]_vars
  <2> SUFFICES ASSUME NEW r \in Reqs, req[r].work = "sent", req'[r].work = "refusing",
                      req[r].stage = "awaiting",
                      \A q \in Running(conn[req[r].on].proc) : req[q].stage = "awaiting"
               PROVE  FALSE
    OBVIOUS
  <2> DEFINE c == req[r].on
             P == conn[c].pending
             W == Running(conn[c].proc)
  <2> USE <1>1 DEF IInv
  <2>1. c \in Conns /\ c = current /\ r \in P
    BY DEF Routed, PendingIsAwaited
  <2>2. \A q \in W : q \in P /\ q # r
    BY <2>1 DEF Running, Routed, PendingIsAwaited
  <2>3. P \subseteq Reqs /\ IsFiniteSet(P) /\ Cardinality(P) \in Nat /\ Cardinality(P) <= Limit
    <3>1. P \subseteq Reqs
      BY <2>1 DEF TypeOK, Conn
    <3> QED BY <2>1, <3>1, FS_Subset, FS_CardinalityType, RequestAssumption
            DEF CapacityRespected
  <2>4. IsFiniteSet(P \ {r}) /\ Cardinality(P \ {r}) = Cardinality(P) - 1
    BY <2>1, <2>3, FS_RemoveElement
  <2>5. W \subseteq P \ {r}
    BY <2>2
  <2>6. Cardinality(W) <= Cardinality(P) - 1 /\ Cardinality(W) \in Nat
    BY <2>4, <2>5, FS_Subset, FS_CardinalityType
  <2>7. Cardinality(W) >= Limit
    <3>0. \A d \in Conns : conn[d].pending \in SUBSET Reqs
      BY DEF TypeOK, Conn
    <3>1. ASSUME NEW d \in Conns, req' = Rejected(conn[d].pending) PROVE FALSE
      BY <3>0, <3>1, RejectedAt
    <3>2. ASSUME NEW d \in Conns, Closed(d) PROVE FALSE
      <4>1. req'[r].work \in {"over", Rejected(conn[d].pending)[r].work}
        BY <3>2, RejectedType DEF Closed, TypeOK, Req
      <4> QED BY <3>0, <4>1, RejectedAt
    <3>3. ASSUME req' = req PROVE FALSE
      BY <3>3
    <3>4. ASSUME NEW q \in Reqs, ReqStep(q), ~NodeReceive(q) PROVE FALSE
      BY <3>4 DEF ReqStep, Request, AfterLoad, Poll, Timeout, SendFails, Answer, Persisted,
                  NodeFinish, Settle, Send, TypeOK, Req
    <3>5. ASSUME NEW q \in Reqs, NodeReceive(q) PROVE Cardinality(W) >= Limit
      <4>1. q = r
        BY <3>5 DEF NodeReceive, TypeOK
      <4> QED BY <3>5, <4>1 DEF NodeReceive, TypeOK, Req
    <3>6. ASSUME NEW p \in Procs, Crash(p) PROVE FALSE
      BY <3>6 DEF Crash, TypeOK, Req
    <3> QED BY <3>1, <3>2, <3>3, <3>4, <3>5, <3>6
            DEF Next, ConnStep, Connect, Ready, ProtocolError, Break, Heartbeat,
                Reconcile, TypeOK, vars
  <2> QED BY <2>3, <2>6, <2>7, LimitAssumption
<1> QED BY <1>1, IInvHolds, PTL DEF BusyOnlyFromAbandoned, Spec

===============================================================================
