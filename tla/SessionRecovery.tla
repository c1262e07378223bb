---------------------------- MODULE SessionRecovery ----------------------------
(***************************************************************************)
(* How a request finds the node that holds its session, and how a session  *)
(* is restored when that node is gone or has lost it (jwxtAgentRemote.ts   *)
(* over jwxtSessionReplica.ts).  Requests of one process share the promise *)
(* of a recovery; recoveries of several processes exclude one another by a *)
(* lease in Redis.  The replica record is SessionReplica's, its saves one  *)
(* step each here.                                                         *)
(***************************************************************************)
EXTENDS Naturals

CONSTANTS
  Agents,    \* nodes
  Home,      \* the node of the sign-in, which the token names
  Procs,     \* processes of the main service
  Requests,  \* callers, each with one request at a time
  Outages,   \* sets of nodes that may be out of reach at first
  MaxFaults  \* bound: how often something fails, or a node comes back

ASSUME ConstantsAssumption ==
  /\ Home \in Agents
  /\ Outages \subseteq SUBSET Agents /\ MaxFaults \in Nat
  /\ "none" \notin Agents
  /\ Procs # {} /\ Procs \cap {"none", "dead"} = {}

VARIABLES
  rec,     \* the replica record: none, or one [owner, epoch, copies]
  live,    \* the nodes with the session in memory
  link,    \* link[a]: whether node a is configured, and its socket ready
  lock,    \* holder of the migration lock: "none", a process, or "dead"
  rcv,     \* rcv[p]: the recovery of process p, if it has one
  req,     \* req[w]: the request of caller w
  late,    \* takeovers at work in the gateway whose caller is gone
  faults,  \* how many of these events there have been
  \* Kept for the properties:
  blamed,  \* nodes given up by a request, as a target, or with the record
  calm     \* no trouble since everything was last at rest

vars == <<rec, live, link, lock, rcv, req, late, faults, blamed, calm>>

Record   == [owner : Agents, epoch : Nat \ {0}, copies : SUBSET Agents]
Takeover == [to : Agents, owner : Agents, epoch : Nat \ {0}]

\* What an error tells: 401, offline or broken transport, timeout, or nothing
\* that sessionFailureReason knows.
Errors == {"missing", "offline", "timeout", "other"}

\* first and error: the original error and the last.  result: the owner found.
Recovery == [at : {"none", "wait", "load", "own", "choose", "import", "save",
                   "commit", "settle"},
             source : Agents, lost : BOOLEAN, first : Errors, error : Errors,
             tried : SUBSET Agents, next : Takeover, result : Agents \cup {"none"}]

Request == [at : {"idle", "await", "call", "caught", "probe", "join", "retry",
                  "logout", "delete", "done"},
            proc : Procs, owner : Agents, had : BOOLEAN, to : Agents,
            error : Errors, answer : {"none", "ok", "error"}]

TypeOK ==
  /\ rec \subseteq Record /\ (\A r, s \in rec : r = s)
  /\ live \subseteq Agents
  /\ link \in [Agents -> {"ready", "offline", "removed"}]
  /\ lock \in Procs \cup {"none", "dead"}
  /\ rcv \in [Procs -> Recovery]
  /\ req \in [Requests -> Request]
  /\ late \subseteq Takeover
  /\ faults \in 0..MaxFaults
  /\ blamed \subseteq Agents
  /\ calm \in BOOLEAN

Owner == {r.owner : r \in rec}

\* Without a record, the node of the sign-in.
OwnerNow == IF rec = {} THEN Home ELSE CHOOSE a \in Agents : a \in Owner

NoRequest == [at |-> "idle", proc |-> CHOOSE p \in Procs : TRUE, owner |-> Home,
              had |-> FALSE, to |-> Home, error |-> "other", answer |-> "none"]

NoRecovery == [at |-> "none", source |-> Home, lost |-> FALSE, first |-> "other",
               error |-> "other", tried |-> {},
               next |-> [to |-> Home, owner |-> Home, epoch |-> 1],
               result |-> "none"]

\* A session that signed in at Home, before some nodes went out of reach.
Init ==
  /\ \E copies \in SUBSET Agents :
       /\ Home \in copies
       /\ rec = {[owner |-> Home, epoch |-> 1, copies |-> copies]}
  /\ live = {Home}
  /\ link \in [Agents -> {"ready", "offline", "removed"}]
  /\ {a \in Agents : link[a] # "ready"} \in Outages
  /\ lock = "none"
  /\ rcv = [p \in Procs |-> NoRecovery]
  /\ req = [w \in Requests |-> NoRequest]
  /\ late = {} /\ faults = 0 /\ blamed = {} /\ calm = TRUE

AtRest ==
  /\ \A w \in Requests : req[w].at \in {"idle", "done"}
  /\ \A p \in Procs : rcv[p].at = "none"
  /\ late = {}

Smooth == UNCHANGED <<faults, calm>>

Fault ==
  /\ faults < MaxFaults
  /\ faults' = faults + 1
  /\ calm' = FALSE

Nodes == <<live, link>>

-------------------------------------------------------------------------------
(* Requests.                                                                *)

\* The record is read; a recovery that runs in this process is waited for first.
Load(w, p) ==
  /\ req[w].at = "idle"
  /\ req' = [req EXCEPT ![w] =
       [at |-> IF rcv[p].at = "none" THEN "call" ELSE "await", proc |-> p,
        owner |-> OwnerNow, had |-> rec # {}, to |-> OwnerNow,
        error |-> "other", answer |-> "none"]]
  /\ calm' = (calm \/ AtRest)
  /\ UNCHANGED <<rec, Nodes, lock, rcv, late, faults, blamed>>

Answer(w, a) == req' = [req EXCEPT ![w] = [NoRequest EXCEPT !.at = "done", !.answer = a]]

\* What the node does not know is 401; so is a node that was removed.
Fails(a) ==
  CASE link[a] = "offline" -> "offline"
    [] link[a] = "removed" \/ a \notin live -> "missing"
    [] OTHER -> "none"

\* Node a has served: without a record its answer may make the first, with copies
\* for the nodes that are configured.  (Which copies later saves add is
\* SessionReplica's.)
Refreshed(a) ==
  IF rec # {} THEN {rec}
  ELSE {{}, {[owner |-> a, epoch |-> 1,
              copies |-> {a} \cup {b \in Agents : link[b] # "removed"}]}}

Served(w) ==
  /\ req[w].at \in {"call", "retry"}
  /\ Fails(req[w].to) = "none"
  /\ Answer(w, "ok")
  /\ rec' \in Refreshed(req[w].to)
  /\ Smooth
  /\ UNCHANGED <<Nodes, lock, rcv, late, blamed>>

\* The call ends in error e.  Only a first call is caught.
Fail(w, e) ==
  IF req[w].at = "call"
  THEN req' = [req EXCEPT ![w].at = "caught", ![w].error = e]
  ELSE Answer(w, "error")

Unserved(w) ==
  /\ req[w].at \in {"call", "retry"}
  /\ \/ /\ Fails(req[w].to) # "none"
        /\ Fail(w, Fails(req[w].to))
        /\ Smooth
     \/ \* slow, busy, or the school's own failure
        /\ link[req[w].to] = "ready"
        /\ \E e \in {"timeout", "other"} : Fail(w, e)
        /\ Fault
  /\ UNCHANGED <<rec, Nodes, lock, rcv, late, blamed>>

\* The error is laid to the owner that was read, also when a recovery that was
\* waited for in its place has failed or named another node.
\* Without a copy there is nothing to recover; otherwise join the recovery that
\* runs, whatever node it was started for, or start one.
Recover(w, lost) ==
  LET p == req[w].proc IN
  IF ~req[w].had
  THEN Answer(w, "error") /\ UNCHANGED <<rcv, blamed>>
  ELSE /\ req' = [req EXCEPT ![w] = [NoRequest EXCEPT !.at = "join", !.proc = p]]
       /\ rcv' = IF rcv[p].at # "none" THEN rcv
                 ELSE [rcv EXCEPT ![p] =
                   [NoRecovery EXCEPT !.at = "wait", !.source = req[w].owner,
                      !.lost = lost, !.first = req[w].error, !.error = req[w].error,
                      !.tried = {req[w].owner}]]
       /\ blamed' = blamed \cup {req[w].owner}

Catch(w) ==
  /\ req[w].at = "caught"
  /\ \/ /\ req[w].error = "timeout"
        /\ req' = [req EXCEPT ![w].at = "probe"]
        /\ UNCHANGED <<rcv, blamed>>
     \/ req[w].error \in {"missing", "offline"} /\ Recover(w, req[w].error = "missing")
     \/ req[w].error = "other" /\ Answer(w, "error") /\ UNCHANGED <<rcv, blamed>>
  /\ Smooth
  /\ UNCHANGED <<rec, Nodes, lock, late>>

\* A slow school is no evidence that the node is dead: ask for the session only.
Probe(w) ==
  LET a == req[w].owner IN
  /\ req[w].at = "probe"
  /\ \/ /\ Fails(a) = "none"
        /\ Answer(w, "error")
        /\ Smooth
        /\ UNCHANGED <<rcv, blamed>>
     \/ /\ Fails(a) # "none"
        /\ Recover(w, link[a] = "ready")
        /\ Smooth
     \/ /\ link[a] = "ready"
        /\ Recover(w, FALSE)
        /\ Fault
  /\ UNCHANGED <<rec, Nodes, lock, late>>

Return(w) ==
  /\ req[w].at = "done"
  /\ req' = [req EXCEPT ![w] = NoRequest]
  /\ Smooth
  /\ UNCHANGED <<rec, Nodes, lock, rcv, late, blamed>>

\* The owner is told, and whatever it says the record is deleted.
Logout(w, p) ==
  /\ req[w].at = "idle"
  /\ req' = [req EXCEPT ![w] = [NoRequest EXCEPT !.at = "logout", !.proc = p,
                                 !.to = OwnerNow]]
  /\ calm' = FALSE
  /\ UNCHANGED <<rec, Nodes, lock, rcv, late, faults, blamed>>

LogoutAtNode(w) ==
  /\ req[w].at = "logout"
  /\ live' = IF link[req[w].to] = "ready" THEN live \ {req[w].to} ELSE live
  /\ req' = [req EXCEPT ![w].at = "delete"]
  /\ Smooth
  /\ UNCHANGED <<rec, link, lock, rcv, late, blamed>>

Delete(w) ==
  /\ req[w].at = "delete"
  /\ rec' = {}
  /\ blamed' = blamed \cup Owner
  /\ Answer(w, "ok")
  /\ Smooth
  /\ UNCHANGED <<Nodes, lock, rcv, late>>

-------------------------------------------------------------------------------
(* The recovery of process p.                                               *)

At(p, at) == [rcv EXCEPT ![p].at = at]

Acquire(p) ==
  /\ rcv[p].at = "wait" /\ lock = "none"
  /\ lock' = p
  /\ rcv' = At(p, "load")
  /\ Smooth
  /\ UNCHANGED <<rec, Nodes, req, late, blamed>>

\* The deadline of who waits for the lock.
GiveUp(p) ==
  /\ rcv[p].at = "wait" /\ lock # "none"
  /\ rcv' = [rcv EXCEPT ![p] = [NoRecovery EXCEPT !.at = "settle", !.error = "other"]]
  /\ calm' = FALSE
  /\ UNCHANGED <<rec, Nodes, lock, req, late, faults, blamed>>

\* The lock is released before the promise settles.
Found(p, a) ==
  /\ rcv' = [rcv EXCEPT ![p] = [NoRecovery EXCEPT !.at = "settle", !.result = a]]
  /\ lock' = "none"

NotFound(p, e) ==
  /\ rcv' = [rcv EXCEPT ![p] = [NoRecovery EXCEPT !.at = "settle", !.error = e]]
  /\ lock' = "none"

\* The target has failed: the next is chosen.
Onward(p, e) ==
  /\ rcv' = [rcv EXCEPT ![p].at = "choose", ![p].error = e,
                       ![p].next = NoRecovery.next]
  /\ UNCHANGED lock

\* Mutants: the owner is not looked at again under the lock; a node that is in reach
\* does not get its own copy back.
ReloadUnchecked(p) ==
  LET v == rcv[p] IN
  /\ v.at = "load"
  /\ IF rec = {} THEN NotFound(p, v.first) ELSE rcv' = At(p, "choose") /\ UNCHANGED lock
  /\ Smooth
  /\ UNCHANGED <<rec, Nodes, req, late, blamed>>

ReloadMoves(p) ==
  LET v == rcv[p] IN
  /\ v.at = "load"
  /\ \/ rec = {} /\ NotFound(p, v.first)
     \/ \E r \in rec : r.owner # v.source /\ Found(p, r.owner)
     \/ /\ \E r \in rec : r.owner = v.source
        /\ rcv' = At(p, "choose")
        /\ UNCHANGED lock
  /\ Smooth
  /\ UNCHANGED <<rec, Nodes, req, late, blamed>>

Reload(p) ==
  LET v == rcv[p] IN
  /\ v.at = "load"
  /\ \/ rec = {} /\ NotFound(p, v.first)
     \/ \E r \in rec : r.owner # v.source /\ Found(p, r.owner)
     \/ \E r \in rec :
          /\ r.owner = v.source
          /\ rcv' = At(p, IF v.lost /\ link[v.source] = "ready" /\ v.source \in r.copies
                          THEN "own" ELSE "choose")
          /\ UNCHANGED lock
  /\ Smooth
  /\ UNCHANGED <<rec, Nodes, req, late, blamed>>

\* A node that only lost the session gets its own copy back.
RestoreOwn(p) ==
  LET v == rcv[p] IN
  /\ v.at = "own"
  /\ \/ /\ link[v.source] = "ready"
        /\ live' = live \cup {v.source}
        /\ Found(p, v.source)
        /\ Smooth
     \/ /\ link[v.source] # "ready"
        /\ Onward(p, "offline")
        /\ Smooth
        /\ UNCHANGED live
     \/ /\ live' \in {live, live \cup {v.source}}
        /\ Onward(p, "timeout")
        /\ Fault
  /\ UNCHANGED <<rec, link, req, late, blamed>>

\* The record is read again for each target.
Choose(p) ==
  LET v == rcv[p]
      Targets(r) == {a \in r.copies \ v.tried : link[a] = "ready"}
  IN
  /\ v.at = "choose"
  /\ \/ rec = {} /\ NotFound(p, v.first)
     \/ \E r \in rec : Targets(r) = {} /\ NotFound(p, v.error)
     \/ \E r \in rec : \E a \in Targets(r) :
          /\ rcv' = [rcv EXCEPT ![p].at = "import", ![p].tried = @ \cup {a},
                       ![p].next = [to |-> a, owner |-> r.owner, epoch |-> r.epoch]]
          /\ UNCHANGED lock
  /\ Smooth
  /\ UNCHANGED <<rec, Nodes, req, late, blamed>>

Import(p) ==
  LET a == rcv[p].next.to IN
  /\ rcv[p].at = "import"
  /\ \/ /\ link[a] = "ready"
        /\ live' = live \cup {a}
        /\ rcv' = At(p, "save")
        /\ Smooth
        /\ UNCHANGED <<lock, blamed>>
     \/ /\ link[a] # "ready"
        /\ Onward(p, "offline")
        /\ blamed' = blamed \cup {a}
        /\ Smooth
        /\ UNCHANGED live
     \/ /\ live' \in {live, live \cup {a}}
        /\ Onward(p, "timeout")
        /\ blamed' = blamed \cup {a}
        /\ Fault
  /\ UNCHANGED <<rec, link, req, late>>

\* A takeover's save, fenced by the tenure that was read before the import.
Moved(t) ==
  {IF r.owner = t.owner /\ r.epoch = t.epoch
   THEN [owner |-> t.to, epoch |-> IF r.owner = t.to THEN r.epoch ELSE r.epoch + 1,
         copies |-> r.copies]
   ELSE r : r \in rec}

\* The save may also be lost, or outlive a call whose connection to the gateway
\* broke.
Save(p) ==
  /\ rcv[p].at = "save"
  /\ \/ /\ rec' = Moved(rcv[p].next)
        /\ rcv' = At(p, "commit")
        /\ Smooth
        /\ UNCHANGED <<lock, late, blamed>>
     \/ /\ rcv' = At(p, "commit")
        /\ Fault
        /\ UNCHANGED <<rec, lock, late, blamed>>
     \/ /\ late' = late \cup {rcv[p].next}
        /\ blamed' = blamed \cup {rcv[p].next.to}
        /\ Onward(p, "other")
        /\ Fault
        /\ UNCHANGED rec
  /\ UNCHANGED <<Nodes, req>>

\* Only the record says whether the takeover took place.
Commit(p) ==
  LET v == rcv[p] IN
  /\ v.at = "commit"
  /\ \/ \E r \in rec : r.owner # v.source /\ Found(p, r.owner) /\ UNCHANGED blamed
     \/ /\ \A r \in rec : r.owner = v.source
        /\ Onward(p, "other")
        /\ blamed' = blamed \cup {v.next.to}
  /\ Smooth
  /\ UNCHANGED <<rec, Nodes, req, late>>

\* Mutant: whoever waited in place of a call is left waiting by a failure.
ResumedUnlessFailed(q, v) ==
  IF v.result = "none" /\ q.at = "await" THEN q
  ELSE CASE q.at = "await" -> [q EXCEPT !.at = "call", !.to = v.result]
         [] q.at = "join" /\ v.result # "none" -> [q EXCEPT !.at = "retry", !.to = v.result]
         [] q.at = "join" -> [NoRequest EXCEPT !.at = "done", !.answer = "error"]
         [] OTHER -> q

\* Everyone of the process who waits resumes: who had not called yet calls, or
\* has the error to catch; who had, calls once more, or fails.
Resumed(q, v) ==
  CASE q.at = "await" /\ v.result # "none" -> [q EXCEPT !.at = "call", !.to = v.result]
    [] q.at = "await" /\ v.result = "none" -> [q EXCEPT !.at = "caught", !.error = v.error]
    [] q.at = "join" /\ v.result # "none" -> [q EXCEPT !.at = "retry", !.to = v.result]
    [] q.at = "join" /\ v.result = "none" -> [NoRequest EXCEPT !.at = "done", !.answer = "error"]
    [] OTHER -> q

Settle(p) ==
  /\ rcv[p].at = "settle"
  /\ req' = [w \in Requests |->
              IF req[w].proc = p THEN Resumed(req[w], rcv[p]) ELSE req[w]]
  /\ rcv' = [rcv EXCEPT ![p] = NoRecovery]
  /\ Smooth
  /\ UNCHANGED <<rec, Nodes, lock, late, blamed>>

-------------------------------------------------------------------------------
(* What happens to processes and nodes.                                     *)

\* The process ends.  Its lease goes on, and so may a takeover in the gateway's
\* process, until its save.
Crash(p) ==
  /\ req' = [w \in Requests |-> IF req[w].proc = p /\ req[w].at # "idle"
                                THEN [NoRequest EXCEPT !.at = "done"] ELSE req[w]]
  /\ rcv' = [rcv EXCEPT ![p] = NoRecovery]
  /\ lock' = IF lock = p THEN "dead" ELSE lock
  /\ \/ /\ rcv[p].at \in {"import", "save"}
        /\ live' = IF rcv[p].at = "import" /\ link[rcv[p].next.to] = "ready"
                   THEN live \cup {rcv[p].next.to} ELSE live
        /\ late' = late \cup {rcv[p].next}
     \/ UNCHANGED <<live, late>>
  /\ Fault
  /\ UNCHANGED <<rec, link, blamed>>

\* The lease (15 s, renewed every 5) outlives the import its holder had begun (5 s).
Expire ==
  /\ lock = "dead" /\ late = {}
  /\ lock' = "none"
  /\ Smooth
  /\ UNCHANGED <<rec, Nodes, rcv, req, late, blamed>>

LateSave(t) ==
  /\ late' = late \ {t}
  /\ rec' \in {rec, Moved(t)}
  /\ Smooth
  /\ UNCHANGED <<Nodes, lock, rcv, req, blamed>>

\* A restart, or the idle limit of the node.
Forget(a) ==
  /\ a \in live
  /\ live' = live \ {a}
  /\ Fault
  /\ UNCHANGED <<rec, link, lock, rcv, req, late, blamed>>

Disconnect(a) ==
  /\ link[a] = "ready"
  /\ \E s \in {"offline", "removed"} : link' = [link EXCEPT ![a] = s]
  /\ Fault
  /\ UNCHANGED <<rec, live, lock, rcv, req, late, blamed>>

Reconnect(a) ==
  /\ link[a] = "offline"
  /\ link' = [link EXCEPT ![a] = "ready"]
  /\ Fault
  /\ UNCHANGED <<rec, live, lock, rcv, req, late, blamed>>

-------------------------------------------------------------------------------
RequestStep(w) ==
  Served(w) \/ Unserved(w) \/ Catch(w) \/ Probe(w) \/ LogoutAtNode(w) \/ Delete(w)

RecoveryStep(p) ==
  Acquire(p) \/ GiveUp(p) \/ Reload(p) \/ RestoreOwn(p) \/ Choose(p) \/ Import(p)
    \/ Save(p) \/ Commit(p) \/ Settle(p)

Next ==
  \/ \E w \in Requests : RequestStep(w) \/ Return(w)
  \/ \E w \in Requests, p \in Procs : Load(w, p) \/ Logout(w, p)
  \/ \E p \in Procs : RecoveryStep(p) \/ Crash(p)
  \/ \E a \in Agents : Forget(a) \/ Disconnect(a) \/ Reconnect(a)
  \/ \E t \in late : LateSave(t)
  \/ Expire

Spec == Init /\ [][Next]_vars

\* Calls have timeouts, polls deadlines and leases an end.
Fairness ==
  /\ \A w \in Requests : WF_vars(RequestStep(w))
  /\ \A p \in Procs : WF_vars(RecoveryStep(p))
  /\ WF_vars(Expire) /\ WF_vars(\E t \in late : LateSave(t))

FairSpec == Spec /\ Fairness

-------------------------------------------------------------------------------
(* Properties.                                                              *)

\* Once trouble is over and what was in flight has ended, requests find their
\* session however many come at once and to whichever processes, although its
\* node had lost it or is gone: one that fails has no node in reach with a copy.
QuietLossIsRecovered ==
  [][\A w \in Requests :
       calm' /\ req[w].at # "done" /\ req'[w].answer = "error"
         => \A r \in rec : \A a \in r.copies : link[a] # "ready"]_vars

\* A session is taken only from a node that some request found to be its owner and
\* gave up, or that failed as the target of a recovery; never from the node to which
\* another recovery has just moved it.
OnlyFailedNodesAreLeft ==
  [][\A r \in rec, s \in rec' : r.owner # s.owner => r.owner \in blamed]_vars

\* Every request is answered, whatever happens to nodes and other processes.
RequestsAreAnswered ==
  \A w \in Requests : (req[w].at # "idle") ~> (req[w].at = "done")

===============================================================================
