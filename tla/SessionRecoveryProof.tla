-------------------------- MODULE SessionRecoveryProof --------------------------
(***************************************************************************)
(* Proofs about SessionRecovery, for any nodes, processes and requests and *)
(* any number of faults.                                                   *)
(***************************************************************************)
EXTENDS SessionRecovery, TLAPS

LEMMA Blank == NoRequest \in Request /\ NoRecovery \in Recovery
<1>1. (CHOOSE p \in Procs : TRUE) \in Procs
  BY ConstantsAssumption
<1>2. QED
  BY <1>1, ConstantsAssumption DEF NoRequest, NoRecovery, Request, Recovery, Takeover, Errors

LEMMA OwnerType ==
  ASSUME TypeOK
  PROVE  OwnerNow \in Agents /\ (rec # {} => OwnerNow \in Owner) /\ Owner \subseteq Agents
<1>1. Owner \subseteq Agents
  BY DEF Owner, TypeOK, Record
<1>2. CASE rec = {}
  BY <1>1, <1>2, ConstantsAssumption DEF OwnerNow
<1>3. CASE rec # {}
  <2>1. \E a \in Agents : a \in Owner
    BY <1>1, <1>3 DEF Owner
  <2>2. QED
    BY <2>1, <1>1, <1>3 DEF OwnerNow
<1>4. QED
  BY <1>2, <1>3

-------------------------------------------------------------------------------
(* Types.                                                                   *)

LEMMA MovedType == ASSUME TypeOK, NEW t \in Takeover
                   PROVE  /\ Moved(t) \subseteq Record
                          /\ \A r, s \in Moved(t) : r = s
  BY DEF TypeOK, Moved, Takeover, Record

LEMMA RefreshedType ==
  ASSUME TypeOK, NEW a \in Agents, NEW R \in Refreshed(a)
  PROVE  R \subseteq Record /\ (\A r, s \in R : r = s)
<1>1. CASE R = rec
  BY <1>1 DEF TypeOK
<1>2. CASE R = {}
  BY <1>2
<1>3. CASE R = {[owner |-> a, epoch |-> 1, copies |-> {a} \cup {b \in Agents : link[b] # "removed"}]}
  BY <1>3 DEF Record
<1>4. QED
  BY <1>1, <1>2, <1>3 DEF Refreshed

\* What the edits of a request and of a recovery keep.
LEMMA RequestEdits ==
  ASSUME NEW q \in Request, NEW at, NEW e \in Errors, NEW a \in Agents,
         at \in {"idle", "await", "call", "caught", "probe", "join", "retry",
                 "logout", "delete", "done"}
  PROVE  /\ [q EXCEPT !.at = at] \in Request
         /\ [q EXCEPT !.at = at, !.error = e] \in Request
         /\ [q EXCEPT !.at = at, !.to = a] \in Request
         /\ [NoRequest EXCEPT !.at = at] \in Request
         /\ [NoRequest EXCEPT !.at = at, !.answer = "ok"] \in Request
         /\ [NoRequest EXCEPT !.at = at, !.answer = "error"] \in Request
         /\ \A p \in Procs : [NoRequest EXCEPT !.at = at, !.proc = p] \in Request
<1>1. NoRequest \in Request
  BY Blank
<1>2. [q EXCEPT !.at = at] \in Request
  BY DEF Request
<1>3. [q EXCEPT !.at = at, !.error = e] \in Request
  BY DEF Request
<1>4. [q EXCEPT !.at = at, !.to = a] \in Request
  BY DEF Request
<1>5. [NoRequest EXCEPT !.at = at, !.answer = "ok"] \in Request
  BY <1>1 DEF Request
<1>6. [NoRequest EXCEPT !.at = at, !.answer = "error"] \in Request
  BY <1>1 DEF Request
<1>7. ASSUME NEW p \in Procs PROVE [NoRequest EXCEPT !.at = at, !.proc = p] \in Request
  BY <1>1 DEF Request
<1>8. [NoRequest EXCEPT !.at = at] \in Request
  BY <1>1 DEF Request
<1>9. QED
  BY <1>2, <1>3, <1>4, <1>5, <1>6, <1>7, <1>8

LEMMA RecoveryEdits ==
  ASSUME NEW v \in Recovery, NEW at, NEW e \in Errors, NEW a \in Agents,
         at \in {"none", "wait", "load", "own", "choose", "import", "save",
                 "commit", "settle"}
  PROVE  /\ [v EXCEPT !.at = at] \in Recovery
         /\ [v EXCEPT !.at = at, !.error = e, !.next = NoRecovery.next] \in Recovery
         /\ [NoRecovery EXCEPT !.at = at, !.error = e] \in Recovery
         /\ [NoRecovery EXCEPT !.at = at, !.result = a] \in Recovery
<1>1. NoRecovery \in Recovery /\ NoRecovery.next \in Takeover
  BY Blank DEF Recovery
<1>2. [v EXCEPT !.at = at] \in Recovery
  BY DEF Recovery
<1>3. [v EXCEPT !.at = at, !.error = e, !.next = NoRecovery.next] \in Recovery
  BY <1>1 DEF Recovery
<1>4. [NoRecovery EXCEPT !.at = at, !.error = e] \in Recovery
  BY <1>1 DEF Recovery
<1>5. [NoRecovery EXCEPT !.at = at, !.result = a] \in Recovery
  BY <1>1 DEF Recovery
<1>6. QED
  BY <1>2, <1>3, <1>4, <1>5

LEMMA ResumedType ==
  ASSUME NEW q \in Request, NEW v \in Recovery
  PROVE  Resumed(q, v) \in Request
<1>1. v.error \in Errors /\ v.result \in Agents \cup {"none"} /\ Home \in Agents
  BY ConstantsAssumption DEF Recovery
<1>2. CASE v.result = "none"
  BY <1>1, <1>2, RequestEdits DEF Resumed
<1>3. CASE v.result # "none"
  BY <1>1, <1>3, RequestEdits DEF Resumed, Errors
<1>4. QED
  BY <1>2, <1>3

LEMMA FaultType == ASSUME TypeOK, Fault \/ Smooth
                   PROVE  faults' \in 0..MaxFaults /\ calm' \in BOOLEAN
<1>1. faults \in 0..MaxFaults /\ calm \in BOOLEAN /\ MaxFaults \in Nat
  BY ConstantsAssumption DEF TypeOK
<1>2. CASE Fault
  <2>1. faults' \in 0..MaxFaults
    BY <1>1, <1>2 DEF Fault
  <2>2. calm' \in BOOLEAN
    BY <1>2 DEF Fault
  <2>3. QED
    BY <2>1, <2>2
<1>3. CASE Smooth
  BY <1>1, <1>3 DEF Smooth
<1>4. QED
  BY <1>2, <1>3

LEMMA AnswerType ==
  ASSUME TypeOK, NEW w \in Requests, Answer(w, "ok") \/ Answer(w, "error")
  PROVE  req' \in [Requests -> Request]
<1>1. Home \in Agents /\ req[w] \in Request /\ "other" \in Errors
  BY ConstantsAssumption DEF TypeOK, Errors
<1>2. /\ [NoRequest EXCEPT !.at = "done", !.answer = "ok"] \in Request
      /\ [NoRequest EXCEPT !.at = "done", !.answer = "error"] \in Request
  BY <1>1, RequestEdits
<1>3. QED
  BY <1>2 DEF Answer, TypeOK

LEMMA RecoverType ==
  ASSUME TypeOK, NEW w \in Requests, NEW lost \in BOOLEAN, Recover(w, lost)
  PROVE  req' \in [Requests -> Request] /\ rcv' \in [Procs -> Recovery] /\ blamed' \subseteq Agents
<1>1. req[w] \in Request /\ req[w].proc \in Procs /\ req[w].owner \in Agents /\ req[w].error \in Errors
  BY DEF TypeOK, Request
<1>2. CASE ~req[w].had
  BY <1>2, AnswerType DEF TypeOK, Recover
<1>3. CASE req[w].had
  <2>1. [NoRequest EXCEPT !.at = "join", !.proc = req[w].proc] \in Request
    BY <1>1, RequestEdits
  <2>2. [NoRecovery EXCEPT !.at = "wait", !.source = req[w].owner,
           !.lost = lost, !.first = req[w].error, !.error = req[w].error,
           !.tried = {req[w].owner}] \in Recovery
    BY <1>1, Blank DEF Recovery
  <2>3. QED
    BY <1>1, <1>3, <2>1, <2>2 DEF TypeOK, Recover
<1>4. QED
  BY <1>2, <1>3

LEMMA RequestsType ==
  ASSUME TypeOK, NEW w \in Requests,
         RequestStep(w) \/ Return(w) \/ (\E p \in Procs : Load(w, p) \/ Logout(w, p))
  PROVE  TypeOK'
<1> USE ConstantsAssumption
<1>0. NoRequest \in Request /\ req[w] \in Request /\ OwnerNow \in Agents /\ Owner \subseteq Agents
  BY Blank, OwnerType DEF TypeOK
<1>1. CASE Served(w)
  <2>1. rec' \subseteq Record /\ (\A r, s \in rec' : r = s)
    BY <1>0, <1>1, RefreshedType DEF Served, Request
  <2>2. QED
    BY <1>0, <1>1, <2>1 DEF Served, TypeOK, Answer, Request, Smooth, Nodes
<1>2. CASE Unserved(w)
  <2>1. \E e \in Errors : Fail(w, e)
    <3>1. Fails(req[w].to) # "none" => Fails(req[w].to) \in Errors
      BY DEF Fails, Errors
    <3>2. QED
      BY <1>2, <3>1 DEF Unserved, Errors
  <2>2. PICK e \in Errors : Fail(w, e)
    BY <2>1
  <2>3. [req[w] EXCEPT !.at = "caught", !.error = e] \in Request
    BY <1>0, RequestEdits
  <2>4. req' \in [Requests -> Request]
    <3>1. CASE Answer(w, "error")
      BY <3>1, AnswerType
    <3>2. CASE req' = [req EXCEPT ![w].at = "caught", ![w].error = e]
      <4>1. req' = [req EXCEPT ![w] = [req[w] EXCEPT !.at = "caught", !.error = e]]
        BY <3>2 DEF TypeOK
      <4>2. QED
        BY <4>1, <2>3 DEF TypeOK
    <3>3. QED
      BY <2>2, <3>1, <3>2 DEF Fail
  <2>5. QED
    BY <1>2, <2>4, FaultType DEF Unserved, TypeOK, Nodes
<1>3. CASE Catch(w)
  <2>1. CASE req' = [req EXCEPT ![w].at = "probe"] /\ UNCHANGED <<rcv, blamed>>
    <3>1. req' \in [Requests -> Request]
      BY <1>0, <2>1 DEF TypeOK, Request
    <3>2. QED
      BY <1>3, <2>1, <3>1 DEF Catch, TypeOK, Smooth, Nodes
  <2>2. CASE Recover(w, req[w].error = "missing")
    BY <1>3, <2>2, RecoverType DEF Catch, TypeOK, Smooth, Nodes
  <2>3. CASE Answer(w, "error") /\ UNCHANGED <<rcv, blamed>>
    BY <1>0, <1>3, <2>3 DEF Catch, TypeOK, Smooth, Nodes, Answer, Request
  <2>4. QED
    BY <1>3, <2>1, <2>2, <2>3 DEF Catch
<1>4. CASE Probe(w)
  <2>1. CASE Answer(w, "error") /\ Smooth /\ UNCHANGED <<rcv, blamed>>
    BY <1>0, <1>4, <2>1 DEF Probe, TypeOK, Smooth, Nodes, Answer, Request
  <2>2. CASE Recover(w, link[req[w].owner] = "ready") /\ Smooth
    BY <1>4, <2>2, RecoverType DEF Probe, TypeOK, Smooth, Nodes
  <2>3. CASE Recover(w, FALSE) /\ Fault
    BY <1>4, <2>3, RecoverType, FaultType DEF Probe, TypeOK, Nodes
  <2>4. QED
    BY <1>4, <2>1, <2>2, <2>3 DEF Probe
<1>5. CASE LogoutAtNode(w)
  BY <1>0, <1>5 DEF LogoutAtNode, TypeOK, Smooth, Request
<1>6. CASE Delete(w)
  BY <1>0, <1>6 DEF Delete, TypeOK, Smooth, Nodes, Answer, Request
<1>7. CASE Return(w)
  BY <1>0, <1>7 DEF Return, TypeOK, Smooth, Nodes
<1>8. ASSUME NEW p \in Procs, Load(w, p) PROVE TypeOK'
  BY <1>0, <1>8 DEF Load, TypeOK, Nodes, Request, Errors, AtRest
<1>9. ASSUME NEW p \in Procs, Logout(w, p) PROVE TypeOK'
  BY <1>0, <1>9 DEF Logout, TypeOK, Nodes, Request
<1>10. QED
  BY <1>1, <1>2, <1>3, <1>4, <1>5, <1>6, <1>7, <1>8, <1>9 DEF RequestStep

LEMMA RecoveriesType ==
  ASSUME TypeOK, NEW p \in Procs, RecoveryStep(p)
  PROVE  TypeOK'
<1> USE ConstantsAssumption DEF At, Found, NotFound, Onward
<1>0. /\ NoRecovery \in Recovery /\ rcv[p] \in Recovery
      /\ rcv[p].next \in Takeover /\ rcv[p].next.to \in Agents
      /\ rcv[p].source \in Agents
      /\ rcv[p].first \in Errors /\ rcv[p].error \in Errors
      /\ {"offline", "timeout", "other"} \subseteq Errors
  BY Blank DEF TypeOK, Recovery, Takeover, Errors
<1>b. \A r \in rec : r.owner \in Agents /\ r.epoch \in Nat \ {0} /\ r.copies \subseteq Agents
  BY DEF TypeOK, Record
<1>c. ASSUME NEW at \in {"own", "choose", "save", "commit"}
      PROVE  At(p, at) \in [Procs -> Recovery]
  <2>1. [rcv[p] EXCEPT !.at = at] \in Recovery
    BY <1>0, RecoveryEdits
  <2>2. At(p, at) = [rcv EXCEPT ![p] = [rcv[p] EXCEPT !.at = at]]
    BY DEF TypeOK
  <2>3. QED
    BY <2>1, <2>2 DEF TypeOK
<1>d. ASSUME NEW e \in Errors, Onward(p, e)
      PROVE  rcv' \in [Procs -> Recovery] /\ lock' = lock
  <2>1. [rcv[p] EXCEPT !.at = "choose", !.error = e, !.next = NoRecovery.next] \in Recovery
    BY <1>0, RecoveryEdits
  <2>2. rcv' = [rcv EXCEPT ![p] = [rcv[p] EXCEPT !.at = "choose", !.error = e,
                                                !.next = NoRecovery.next]]
    BY <1>d DEF TypeOK
  <2>3. QED
    BY <1>d, <2>1, <2>2 DEF TypeOK
<1>1. CASE Acquire(p)
  <2>1. [rcv[p] EXCEPT !.at = "load"] \in Recovery
    BY <1>0, RecoveryEdits
  <2>2. QED
    BY <1>1, <2>1 DEF Acquire, TypeOK, Smooth, Nodes
<1>2. CASE GiveUp(p)
  <2>1. [NoRecovery EXCEPT !.at = "settle", !.error = "other"] \in Recovery
    BY <1>0, RecoveryEdits
  <2>2. QED
    BY <1>2, <2>1 DEF GiveUp, TypeOK, Nodes
<1>3. CASE Reload(p)
  <2>1. /\ \A r \in rec : [NoRecovery EXCEPT !.at = "settle", !.result = r.owner] \in Recovery
        /\ [NoRecovery EXCEPT !.at = "settle", !.error = rcv[p].first] \in Recovery
    BY <1>0, <1>b, RecoveryEdits
  <2>2. rcv' \in [Procs -> Recovery] /\ lock' \in Procs \cup {"none", "dead"}
    <3>1. CASE NotFound(p, rcv[p].first)
      BY <2>1, <3>1 DEF TypeOK
    <3>2. CASE \E r \in rec : Found(p, r.owner)
      <4>1. PICK r \in rec : Found(p, r.owner)
        BY <3>2
      <4>2. [NoRecovery EXCEPT !.at = "settle", !.result = r.owner] \in Recovery
        BY <2>1
      <4>3. rcv' = [rcv EXCEPT ![p] = [NoRecovery EXCEPT !.at = "settle", !.result = r.owner]]
        BY <4>1
      <4>4. QED
        BY <4>1, <4>2, <4>3 DEF TypeOK
    <3>3. CASE \E at \in {"own", "choose"} : rcv' = At(p, at) /\ UNCHANGED lock
      BY <1>c, <3>3 DEF TypeOK
    <3>4. QED
      BY <1>3, <3>1, <3>2, <3>3 DEF Reload
  <2>3. QED
    BY <1>3, <2>2 DEF Reload, TypeOK, Smooth, Nodes
<1>4. CASE RestoreOwn(p)
  <2>1. [NoRecovery EXCEPT !.at = "settle", !.result = rcv[p].source] \in Recovery
    BY <1>0, RecoveryEdits
  <2>2. rcv' \in [Procs -> Recovery] /\ lock' \in Procs \cup {"none", "dead"} /\ live' \subseteq Agents
    <3>1. CASE Found(p, rcv[p].source)
      BY <1>0, <1>4, <2>1, <3>1 DEF RestoreOwn, TypeOK
    <3>2. CASE \E e \in {"offline", "timeout"} : Onward(p, e)
      BY <1>0, <1>4, <1>d, <3>2 DEF RestoreOwn, TypeOK
    <3>3. QED
      BY <1>4, <3>1, <3>2 DEF RestoreOwn
  <2>3. faults' \in 0..MaxFaults /\ calm' \in BOOLEAN
    BY <1>4, FaultType DEF RestoreOwn
  <2>4. QED
    BY <1>4, <2>2, <2>3 DEF RestoreOwn, TypeOK
<1>5. CASE Choose(p)
  <2>1. /\ [NoRecovery EXCEPT !.at = "settle", !.error = rcv[p].first] \in Recovery
        /\ [NoRecovery EXCEPT !.at = "settle", !.error = rcv[p].error] \in Recovery
    BY <1>0, RecoveryEdits
  <2>2. ASSUME NEW r \in rec, NEW a \in Agents
        PROVE  [rcv[p] EXCEPT !.at = "import", !.tried = @ \cup {a},
                  !.next = [to |-> a, owner |-> r.owner, epoch |-> r.epoch]] \in Recovery
    <3>1. [to |-> a, owner |-> r.owner, epoch |-> r.epoch] \in Takeover
      BY <1>b DEF Takeover
    <3>2. rcv[p].tried \cup {a} \subseteq Agents
      BY <1>0 DEF Recovery
    <3>3. QED
      BY <1>0, <3>1, <3>2 DEF Recovery
  <2>3. rcv' \in [Procs -> Recovery] /\ lock' \in Procs \cup {"none", "dead"}
    <3>1. CASE NotFound(p, rcv[p].first) \/ NotFound(p, rcv[p].error)
      BY <3>1, <2>1 DEF TypeOK
    <3>2. CASE \E r \in rec : \E a \in Agents :
                 /\ rcv' = [rcv EXCEPT ![p].at = "import", ![p].tried = @ \cup {a},
                       ![p].next = [to |-> a, owner |-> r.owner, epoch |-> r.epoch]]
                 /\ UNCHANGED lock
      <4>1. PICK r \in rec, a \in Agents :
                 /\ rcv' = [rcv EXCEPT ![p].at = "import", ![p].tried = @ \cup {a},
                       ![p].next = [to |-> a, owner |-> r.owner, epoch |-> r.epoch]]
                 /\ UNCHANGED lock
        BY <3>2
      <4>2. rcv' = [rcv EXCEPT ![p] = [rcv[p] EXCEPT !.at = "import", !.tried = @ \cup {a},
                  !.next = [to |-> a, owner |-> r.owner, epoch |-> r.epoch]]]
        BY <4>1 DEF TypeOK
      <4>3. [rcv[p] EXCEPT !.at = "import", !.tried = @ \cup {a},
               !.next = [to |-> a, owner |-> r.owner, epoch |-> r.epoch]] \in Recovery
        BY <2>2
      <4>4. rcv' \in [Procs -> Recovery]
        BY <4>2, <4>3 DEF TypeOK
      <4>5. QED
        BY <4>1, <4>4 DEF TypeOK
    <3>3. QED
      BY <1>5, <1>b, <3>1, <3>2 DEF Choose
  <2>4. QED
    BY <1>5, <2>3 DEF Choose, TypeOK, Smooth, Nodes
<1>6. CASE Import(p)
  <2>2. rcv' \in [Procs -> Recovery] /\ lock' = lock
    <3>1. CASE rcv' = At(p, "save") /\ lock' = lock
      BY <1>c, <3>1
    <3>2. CASE \E e \in {"offline", "timeout"} : Onward(p, e)
      BY <1>0, <1>d, <3>2
    <3>3. QED
      BY <1>6, <3>1, <3>2 DEF Import
  <2>5. live' \subseteq Agents /\ blamed' \subseteq Agents
    BY <1>0, <1>6 DEF Import, TypeOK
  <2>3. faults' \in 0..MaxFaults /\ calm' \in BOOLEAN
    BY <1>6, FaultType DEF Import
  <2>4. QED
    BY <1>6, <2>2, <2>3, <2>5 DEF Import, TypeOK
<1>7. CASE Save(p)
  <2>2. rcv' \in [Procs -> Recovery] /\ lock' = lock
    <3>1. CASE rcv' = At(p, "commit") /\ lock' = lock
      BY <1>c, <3>1
    <3>2. CASE Onward(p, "other")
      BY <1>0, <1>d, <3>2
    <3>3. QED
      BY <1>7, <3>1, <3>2 DEF Save
  <2>6. late' \subseteq Takeover /\ blamed' \subseteq Agents
    BY <1>0, <1>7 DEF Save, TypeOK
  <2>3. faults' \in 0..MaxFaults /\ calm' \in BOOLEAN
    BY <1>7, FaultType DEF Save
  <2>4. rec' \subseteq Record /\ (\A r, s \in rec' : r = s)
    BY <1>0, <1>7, MovedType DEF Save, TypeOK
  <2>5. QED
    BY <1>7, <2>2, <2>3, <2>4, <2>6 DEF Save, TypeOK, Nodes
<1>8. CASE Commit(p)
  <2>1. \A r \in rec : [NoRecovery EXCEPT !.at = "settle", !.result = r.owner] \in Recovery
    BY <1>0, <1>b, RecoveryEdits
  <2>2. rcv' \in [Procs -> Recovery] /\ lock' \in Procs \cup {"none", "dead"}
    <3>1. CASE \E r \in rec : Found(p, r.owner)
      <4>1. PICK r \in rec : Found(p, r.owner)
        BY <3>1
      <4>2. [NoRecovery EXCEPT !.at = "settle", !.result = r.owner] \in Recovery
        BY <2>1
      <4>3. rcv' = [rcv EXCEPT ![p] = [NoRecovery EXCEPT !.at = "settle", !.result = r.owner]]
        BY <4>1
      <4>4. QED
        BY <4>1, <4>2, <4>3 DEF TypeOK
    <3>2. CASE Onward(p, "other")
      BY <1>0, <1>d, <3>2 DEF TypeOK
    <3>3. QED
      BY <1>8, <3>1, <3>2 DEF Commit
  <2>3. blamed' \subseteq Agents
    BY <1>0, <1>8 DEF Commit, TypeOK
  <2>4. QED
    BY <1>8, <2>2, <2>3 DEF Commit, TypeOK, Smooth, Nodes
<1>9. CASE Settle(p)
  <2>1. \A w \in Requests : Resumed(req[w], rcv[p]) \in Request /\ req[w] \in Request
    BY <1>0, ResumedType DEF TypeOK
  <2>2. req' \in [Requests -> Request] /\ rcv' \in [Procs -> Recovery]
    BY <1>0, <1>9, <2>1 DEF Settle, TypeOK
  <2>3. QED
    BY <1>9, <2>2 DEF Settle, TypeOK, Smooth, Nodes
<1>10. QED
  BY <1>1, <1>2, <1>3, <1>4, <1>5, <1>6, <1>7, <1>8, <1>9 DEF RecoveryStep

LEMMA WorldType ==
  ASSUME TypeOK,
         \/ \E p \in Procs : Crash(p)
         \/ Expire
         \/ \E t \in late : LateSave(t)
         \/ \E a \in Agents : Forget(a) \/ Disconnect(a) \/ Reconnect(a)
  PROVE  TypeOK'
<1> USE ConstantsAssumption
<1>0. NoRequest \in Request /\ NoRecovery \in Recovery
  BY Blank
<1>1. ASSUME NEW p \in Procs, Crash(p) PROVE TypeOK'
  <2>1. [NoRequest EXCEPT !.at = "done"] \in Request
    BY <1>0 DEF Request
  <2>2. req' \in [Requests -> Request] /\ rcv' \in [Procs -> Recovery]
    BY <1>0, <1>1, <2>1 DEF Crash, TypeOK
  <2>3. rcv[p].next \in Takeover /\ rcv[p].next.to \in Agents
    BY DEF TypeOK, Recovery, Takeover
  <2>4. live' \subseteq Agents /\ late' \subseteq Takeover /\ lock' \in Procs \cup {"none", "dead"}
    BY <1>1, <2>3 DEF Crash, TypeOK
  <2>5. QED
    BY <1>1, <2>2, <2>4, FaultType DEF Crash, TypeOK
<1>2. CASE Expire
  BY <1>2 DEF Expire, TypeOK, Smooth, Nodes
<1>3. ASSUME NEW t \in late, LateSave(t) PROVE TypeOK'
  BY <1>3, MovedType DEF LateSave, TypeOK, Smooth, Nodes
<1>4. ASSUME NEW a \in Agents, Forget(a) \/ Disconnect(a) \/ Reconnect(a) PROVE TypeOK'
  <2>1. live' \subseteq Agents /\ link' \in [Agents -> {"ready", "offline", "removed"}]
    BY <1>4 DEF Forget, Disconnect, Reconnect, TypeOK
  <2>2. faults' \in 0..MaxFaults /\ calm' \in BOOLEAN
    BY <1>4, FaultType DEF Forget, Disconnect, Reconnect, TypeOK
  <2>3. QED
    BY <1>4, <2>1, <2>2 DEF Forget, Disconnect, Reconnect, TypeOK
<1>5. QED
  BY <1>1, <1>2, <1>3, <1>4

LEMMA TypeInit == Init => TypeOK
  BY Blank, ConstantsAssumption DEF Init, TypeOK, Record

LEMMA TypeNext == TypeOK /\ [Next]_vars => TypeOK'
<1> SUFFICES ASSUME TypeOK, [Next]_vars PROVE TypeOK'
  OBVIOUS
<1>1. CASE UNCHANGED vars
  BY <1>1 DEF vars, TypeOK
<1>2. CASE Next
  BY <1>2, RequestsType, RecoveriesType, WorldType DEF Next
<1>3. QED
  BY <1>1, <1>2

\* Every variable keeps its type.
THEOREM TypeCorrect == Spec => []TypeOK
<1>1. Init => TypeOK
  BY TypeInit
<1>2. TypeOK /\ [Next]_vars => TypeOK'
  BY TypeNext
<1>3. QED
  BY <1>1, <1>2, PTL DEF Spec

-------------------------------------------------------------------------------
(* Which nodes a session is taken from.                                     *)

Working == {"load", "own", "choose", "import", "save", "commit"}

\* The nodes that have or had the session: its owner, and those given up.
Known == blamed \cup Owner

\* Whatever names a node names a known one.
NamesKnown ==
  /\ Home \in Known
  /\ \A w \in Requests : req[w].owner \in Known /\ req[w].to \in Known
  /\ \A p \in Procs : rcv[p].result # "none" => rcv[p].result \in Known

\* Only the holder of the lock works.
LockHeld == \A p \in Procs : rcv[p].at \in Working => lock = p

\* A recovery is for a node that was given up, and so is the owner that its takeover
\* will replace, for as long as it may still choose a target.
SourceGivenUp ==
  \A p \in Procs :
    /\ rcv[p].at \in Working \cup {"wait"} => rcv[p].source \in blamed
    /\ rcv[p].at \in {"own", "choose", "import", "save"} => Owner \subseteq blamed
    /\ rcv[p].at \in {"import", "save"} => rcv[p].next.owner \in blamed

\* A takeover that its process left behind cannot make a new owner under the eyes
\* of another recovery: its lease is still there, or its target was given up.
LateKnown ==
  \A t \in late : t.owner \in blamed /\ (t.to \in blamed \/ lock = "dead")

GivenUpInv == TypeOK /\ NamesKnown /\ LockHeld /\ SourceGivenUp /\ LateKnown

LEMMA GivenUpInit == Init => GivenUpInv
<1> SUFFICES ASSUME Init PROVE GivenUpInv
  OBVIOUS
<1>1. TypeOK
  BY TypeInit
<1>2. Home \in Owner
  BY DEF Init, Owner
<1>3. \A p \in Procs : rcv[p].at = "none" /\ rcv[p].result = "none"
  BY DEF Init, NoRecovery
<1>4. \A w \in Requests : req[w].owner = Home /\ req[w].to = Home
  BY DEF Init, NoRequest
<1>5. QED
  BY <1>1, <1>2, <1>3, <1>4
     DEF Init, GivenUpInv, NamesKnown, Known, LockHeld, SourceGivenUp, LateKnown, Working

\* Steps of a request or of the world that leave the record and the recoveries.
LEMMA RecordKept ==
  ASSUME GivenUpInv, TypeOK', rec' = rec, rcv' = rcv, late' = late, blamed' = blamed,
         lock' = lock \/ (lock = "dead" /\ late = {}),
         \A x \in Requests : /\ req'[x].owner \in Known
                            /\ req'[x].to \in Known
  PROVE  GivenUpInv'
<1>1. Known' = Known /\ Owner' = Owner
  BY DEF Known, Owner
<1>2. NamesKnown'
  BY <1>1 DEF GivenUpInv, NamesKnown
<1>3. LockHeld'
  BY ConstantsAssumption DEF GivenUpInv, LockHeld, TypeOK
<1>4. SourceGivenUp'
  BY <1>1 DEF GivenUpInv, SourceGivenUp
<1>5. LateKnown'
  BY DEF GivenUpInv, LateKnown
<1>6. QED
  BY <1>2, <1>3, <1>4, <1>5 DEF GivenUpInv

\* What an edit of a request leaves it naming.
LEMMA AnswerNames ==
  ASSUME TypeOK, NEW w \in Requests, Answer(w, "ok") \/ Answer(w, "error"), NEW x \in Requests
  PROVE  req'[x].owner \in {req[x].owner, Home} /\ req'[x].to \in {req[x].to, Home}
  BY DEF Answer, NoRequest, TypeOK

\* A request that gives its owner up starts a recovery for it, or joins one.
LEMMA RecoverGivenUp ==
  ASSUME GivenUpInv, TypeOK', NEW w \in Requests, NEW lost \in BOOLEAN, Recover(w, lost),
         rec' = rec, late' = late, lock' = lock
  PROVE  GivenUpInv'
<1>1. CASE ~req[w].had
  <2>1. Answer(w, "error") /\ rcv' = rcv /\ blamed' = blamed
    BY <1>1 DEF Recover
  <2>2. \A x \in Requests : req'[x].owner \in Known /\ req'[x].to \in Known
    BY <2>1, AnswerNames DEF GivenUpInv, NamesKnown
  <2>3. QED
    BY <2>1, <2>2, RecordKept
<1>2. CASE req[w].had
  <2> DEFINE p == req[w].proc
             v == [NoRecovery EXCEPT !.at = "wait", !.source = req[w].owner,
                     !.lost = lost, !.first = req[w].error, !.error = req[w].error,
                     !.tried = {req[w].owner}]
  <2>1. p \in Procs /\ blamed' = blamed \cup {req[w].owner}
    BY <1>2 DEF Recover, GivenUpInv, TypeOK, Request
  <2>2. Owner' = Owner /\ Known \subseteq Known'
    BY <2>1 DEF Known, Owner
  <2>3. \A x \in Requests : req'[x].owner \in {req[x].owner, Home} /\ req'[x].to \in {req[x].to, Home}
    <3>1. req' = [req EXCEPT ![w] = [NoRequest EXCEPT !.at = "join", !.proc = req[w].proc]]
      BY <1>2 DEF Recover
    <3>2. /\ [NoRequest EXCEPT !.at = "join", !.proc = req[w].proc].owner = Home
          /\ [NoRequest EXCEPT !.at = "join", !.proc = req[w].proc].to = Home
      BY DEF NoRequest
    <3>3. req \in [Requests -> Request]
      BY DEF GivenUpInv, TypeOK
    <3>4. QED
      BY <3>1, <3>2, <3>3
  <2>4. v.at = "wait" /\ v.source = req[w].owner /\ v.result = "none"
    BY DEF NoRecovery
  <2>5. \A q \in Procs : rcv'[q] = rcv[q] \/ (q = p /\ rcv'[q] = v)
    BY <1>2, <2>1 DEF Recover, GivenUpInv, TypeOK
  <2> HIDE DEF v, p
  <2>6. NamesKnown'
    BY <2>2, <2>3, <2>4, <2>5 DEF GivenUpInv, NamesKnown
  <2>7. LockHeld'
    BY <2>4, <2>5 DEF GivenUpInv, LockHeld, Working
  <2>8. SourceGivenUp'
    BY <2>1, <2>2, <2>4, <2>5 DEF GivenUpInv, SourceGivenUp, Working
  <2>9. LateKnown'
    BY <2>1 DEF GivenUpInv, LateKnown
  <2>10. QED
    BY <2>6, <2>7, <2>8, <2>9 DEF GivenUpInv
<1>3. QED
  BY <1>1, <1>2

LEMMA RequestsGivenUp ==
  ASSUME GivenUpInv, NEW w \in Requests,
         RequestStep(w) \/ Return(w) \/ (\E p \in Procs : Load(w, p) \/ Logout(w, p))
  PROVE  GivenUpInv'
<1>t. TypeOK /\ TypeOK'
  BY RequestsType DEF GivenUpInv
<1>n. /\ Home \in Known /\ OwnerNow \in Known
      /\ \A x \in Requests : req[x].owner \in Known /\ req[x].to \in Known
  BY <1>t, OwnerType DEF GivenUpInv, NamesKnown, Known, OwnerNow
<1>1. CASE Served(w)
  <2>1. /\ rcv' = rcv /\ late' = late /\ blamed' = blamed /\ lock' = lock
        /\ Answer(w, "ok") /\ rec' \in Refreshed(req[w].to)
    BY <1>1 DEF Served
  <2>2. \A x \in Requests : req'[x].owner \in Known /\ req'[x].to \in Known
    BY <1>n, <1>t, <2>1, AnswerNames
  <2>3. CASE rec' = rec
    BY <1>t, <2>1, <2>2, <2>3, RecordKept
  <2>4. CASE rec = {} /\ rec' # rec
    <3>1. Owner = {} /\ Known = blamed
      BY <2>4 DEF Owner, Known
    <3>2. Owner' = {req[w].to}
      BY <2>1, <2>4 DEF Refreshed, Owner
    <3>3. Owner' \subseteq blamed /\ Known' = Known
      BY <1>n, <2>1, <3>1, <3>2 DEF Known
    <3>4. NamesKnown'
      BY <2>1, <2>2, <3>3 DEF GivenUpInv, NamesKnown
    <3>5. LockHeld'
      BY <2>1 DEF GivenUpInv, LockHeld
    <3>6. SourceGivenUp'
      BY <2>1, <3>3 DEF GivenUpInv, SourceGivenUp
    <3>7. LateKnown'
      BY <2>1 DEF GivenUpInv, LateKnown
    <3>8. QED
      BY <1>t, <3>4, <3>5, <3>6, <3>7 DEF GivenUpInv
  <2>5. QED
    BY <2>1, <2>3, <2>4 DEF Refreshed
<1>2. CASE Unserved(w)
  <2>1. \E e \in {"missing", "offline", "timeout", "other"} : Fail(w, e)
    BY <1>2 DEF Unserved, Fails
  <2>2. \A x \in Requests : req'[x].owner \in {req[x].owner, Home} /\ req'[x].to \in {req[x].to, Home}
    <3>1. PICK e \in {"missing", "offline", "timeout", "other"} : Fail(w, e)
      BY <2>1
    <3>2. CASE req' = [req EXCEPT ![w].at = "caught", ![w].error = e]
      BY <1>t, <3>2 DEF TypeOK, Request
    <3>3. CASE Answer(w, "error")
      BY <1>t, <3>3, AnswerNames
    <3>4. QED
      BY <3>1, <3>2, <3>3 DEF Fail
  <2>3. \A x \in Requests : req'[x].owner \in Known /\ req'[x].to \in Known
    BY <1>n, <2>2
  <2>4. QED
    BY <1>2, <1>t, <2>3, RecordKept DEF Unserved
<1>3. CASE Catch(w)
  <2>1. CASE req' = [req EXCEPT ![w].at = "probe"] /\ UNCHANGED <<rcv, blamed>>
    <3>1. \A x \in Requests : req'[x].owner = req[x].owner /\ req'[x].to = req[x].to
      BY <1>t, <2>1 DEF TypeOK
    <3>2. QED
      BY <1>3, <1>t, <1>n, <2>1, <3>1, RecordKept DEF Catch
  <2>2. CASE Recover(w, req[w].error = "missing")
    BY <1>3, <1>t, <2>2, RecoverGivenUp DEF Catch
  <2>3. CASE Answer(w, "error") /\ UNCHANGED <<rcv, blamed>>
    <3>1. \A x \in Requests : req'[x].owner \in Known /\ req'[x].to \in Known
      BY <1>n, <1>t, <2>3, AnswerNames
    <3>2. QED
      BY <1>3, <1>t, <2>3, <3>1, RecordKept DEF Catch
  <2>4. QED
    BY <1>3, <2>1, <2>2, <2>3 DEF Catch
<1>4. CASE Probe(w)
  <2>1. CASE Answer(w, "error") /\ UNCHANGED <<rcv, blamed>>
    <3>1. \A x \in Requests : req'[x].owner \in Known /\ req'[x].to \in Known
      BY <1>n, <1>t, <2>1, AnswerNames
    <3>2. QED
      BY <1>4, <1>t, <2>1, <3>1, RecordKept DEF Probe
  <2>2. CASE \E lost \in BOOLEAN : Recover(w, lost)
    BY <1>4, <1>t, <2>2, RecoverGivenUp DEF Probe
  <2>3. QED
    BY <1>4, <2>1, <2>2 DEF Probe
<1>5. CASE LogoutAtNode(w)
  <2>1. \A x \in Requests : req'[x].owner = req[x].owner /\ req'[x].to = req[x].to
    BY <1>5, <1>t DEF LogoutAtNode, TypeOK
  <2>2. QED
    BY <1>5, <1>t, <1>n, <2>1, RecordKept DEF LogoutAtNode
<1>6. CASE Delete(w)
  <2>1. /\ rcv' = rcv /\ late' = late /\ lock' = lock /\ rec' = {}
        /\ Answer(w, "ok") /\ blamed' = Known
    BY <1>6 DEF Delete, Known
  <2>2. Owner' = {} /\ Known' = Known /\ blamed \subseteq blamed'
    BY <2>1 DEF Owner, Known
  <2>3. \A x \in Requests : req'[x].owner \in Known /\ req'[x].to \in Known
    BY <1>n, <1>t, <2>1, AnswerNames
  <2>4. NamesKnown'
    BY <2>1, <2>2, <2>3 DEF GivenUpInv, NamesKnown
  <2>5. LockHeld'
    BY <2>1 DEF GivenUpInv, LockHeld
  <2>6. SourceGivenUp'
    BY <2>1, <2>2 DEF GivenUpInv, SourceGivenUp
  <2>7. LateKnown'
    BY <2>1, <2>2 DEF GivenUpInv, LateKnown
  <2>8. QED
    BY <1>t, <2>4, <2>5, <2>6, <2>7 DEF GivenUpInv
<1>7. CASE Return(w)
  <2>1. \A x \in Requests : req'[x].owner \in {req[x].owner, Home} /\ req'[x].to \in {req[x].to, Home}
    BY <1>7, <1>t DEF Return, TypeOK, NoRequest
  <2>2. QED
    BY <1>7, <1>t, <1>n, <2>1, RecordKept DEF Return
<1>8. ASSUME NEW p \in Procs, Load(w, p) PROVE GivenUpInv'
  <2>1. \A x \in Requests : req'[x].owner \in {req[x].owner, OwnerNow}
                            /\ req'[x].to \in {req[x].to, OwnerNow}
    BY <1>8, <1>t DEF Load, TypeOK
  <2>2. QED
    BY <1>8, <1>t, <1>n, <2>1, RecordKept DEF Load
<1>9. ASSUME NEW p \in Procs, Logout(w, p) PROVE GivenUpInv'
  <2>1. \A x \in Requests : req'[x].owner \in {req[x].owner, Home}
                            /\ req'[x].to \in {req[x].to, OwnerNow}
    BY <1>9, <1>t DEF Logout, TypeOK, NoRequest
  <2>2. QED
    BY <1>9, <1>t, <1>n, <2>1, RecordKept DEF Logout
<1>10. QED
  BY <1>1, <1>2, <1>3, <1>4, <1>5, <1>6, <1>7, <1>8, <1>9 DEF RequestStep

\* A step of the recovery that holds the lock.
LEMMA HolderGivenUp ==
  ASSUME GivenUpInv, TypeOK', NEW p \in Procs, NEW v, rcv[p].at \in Working,
         rcv' = [rcv EXCEPT ![p] = v], req' = req,
         lock' \in {lock, "none"}, v.at \in Working => lock' = lock, v.at # "wait",
         blamed \subseteq blamed', Known \subseteq Known',
         v.result # "none" => v.result \in Known',
         v.at \in Working => v.source \in blamed',
         v.at \in {"own", "choose", "import", "save"} => Owner' \subseteq blamed',
         v.at \in {"import", "save"} => v.next.owner \in blamed',
         \A t \in late' : t \in late \/ (t.owner \in blamed' /\ t.to \in blamed')
  PROVE  GivenUpInv'
<1>1. lock = p /\ \A q \in Procs : q # p => rcv[q].at \notin Working
  BY DEF GivenUpInv, LockHeld
<1>2. \A q \in Procs : rcv'[q] = IF q = p THEN v ELSE rcv[q]
  BY DEF GivenUpInv, TypeOK
<1>3. NamesKnown'
  BY <1>2 DEF GivenUpInv, NamesKnown
<1>4. LockHeld'
  BY <1>1, <1>2 DEF GivenUpInv, LockHeld
<1>5. SourceGivenUp'
  BY <1>1, <1>2 DEF GivenUpInv, SourceGivenUp, Working
<1>6. LateKnown'
  BY <1>1, ConstantsAssumption DEF GivenUpInv, LateKnown
<1>7. QED
  BY <1>3, <1>4, <1>5, <1>6 DEF GivenUpInv

\* The ends of a recovery, found or not.
LEMMA EndGivenUp ==
  ASSUME GivenUpInv, TypeOK', NEW p \in Procs, rcv[p].at \in Working,
         \/ \E a \in Known : Found(p, a)
         \/ \E e \in Errors : NotFound(p, e),
         UNCHANGED <<rec, req, late, blamed>>
  PROVE  GivenUpInv'
<1>1. Owner' = Owner /\ Known' = Known
  BY DEF Owner, Known
<1>2. ASSUME NEW a \in Known, Found(p, a) PROVE GivenUpInv'
  <2> DEFINE v == [NoRecovery EXCEPT !.at = "settle", !.result = a]
  <2>1. v.at = "settle" /\ v.result = a
    BY DEF NoRecovery
  <2>2. rcv' = [rcv EXCEPT ![p] = v] /\ lock' = "none"
    BY <1>2 DEF Found
  <2> HIDE DEF v
  <2>3. /\ v.at \notin Working /\ v.at # "wait" /\ (v.result # "none" => v.result \in Known')
        /\ v.at \notin {"own", "choose", "import", "save"}
    BY <1>1, <2>1 DEF Working
  <2>4. blamed \subseteq blamed' /\ Known \subseteq Known' /\ req' = req /\ late' = late
    BY <1>1
  <2>5. QED
    BY <2>2, <2>3, <2>4, HolderGivenUp
<1>3. ASSUME NEW e \in Errors, NotFound(p, e) PROVE GivenUpInv'
  <2> DEFINE v == [NoRecovery EXCEPT !.at = "settle", !.error = e]
  <2>1. v.at = "settle" /\ v.result = "none"
    BY DEF NoRecovery
  <2>2. rcv' = [rcv EXCEPT ![p] = v] /\ lock' = "none"
    BY <1>3 DEF NotFound
  <2> HIDE DEF v
  <2>3. /\ v.at \notin Working /\ v.at # "wait" /\ (v.result # "none" => v.result \in Known')
        /\ v.at \notin {"own", "choose", "import", "save"}
    BY <1>1, <2>1 DEF Working
  <2>4. blamed \subseteq blamed' /\ Known \subseteq Known' /\ req' = req /\ late' = late
    BY <1>1
  <2>5. QED
    BY <2>2, <2>3, <2>4, HolderGivenUp
<1>4. QED
  BY <1>2, <1>3

\* A step that only moves the holder on, to where its source and the owner count
\* as given up.
LEMMA MoveGivenUp ==
  ASSUME GivenUpInv, TypeOK', NEW p \in Procs, rcv[p].at \in Working, NEW v \in Recovery,
         rcv' = [rcv EXCEPT ![p] = v], v.at \in Working,
         v.source = rcv[p].source, v.result = rcv[p].result,
         v.at \in {"own", "choose", "import", "save"} => Owner \subseteq blamed,
         v.at \in {"import", "save"} => v.next.owner \in blamed,
         UNCHANGED <<rec, req, lock>>, blamed \subseteq blamed',
         \A t \in late' : t \in late \/ (t.owner \in blamed' /\ t.to \in blamed')
  PROVE  GivenUpInv'
<1>1. Owner' = Owner /\ Known \subseteq Known'
  BY DEF Owner, Known
<1>2. v.source \in blamed /\ (v.result # "none" => v.result \in Known)
  BY DEF GivenUpInv, SourceGivenUp, NamesKnown
<1>3. v.at # "wait"
  BY DEF Working
<1>4. QED
  BY <1>1, <1>2, <1>3, HolderGivenUp

\* The two ways of moving on.
LEMMA AtGivenUp ==
  ASSUME GivenUpInv, TypeOK', NEW p \in Procs, rcv[p].at \in Working,
         NEW at \in {"own", "choose", "import", "save"}, rcv' = At(p, at),
         Owner \subseteq blamed,
         at \in {"import", "save"} => rcv[p].next.owner \in blamed,
         UNCHANGED <<rec, req, lock, late, blamed>>
  PROVE  GivenUpInv'
<1> DEFINE v == [rcv[p] EXCEPT !.at = at]
<1>1. rcv \in [Procs -> Recovery]
  BY DEF GivenUpInv, TypeOK
<1>2. rcv' = [rcv EXCEPT ![p] = v]
  BY <1>1 DEF At
<1>3. /\ v \in Recovery /\ v.at = at /\ v.source = rcv[p].source
      /\ v.result = rcv[p].result /\ v.next = rcv[p].next
  BY <1>1 DEF Recovery
<1> HIDE DEF v
<1>4. v.at \in Working
  BY <1>3 DEF Working
<1>5. QED
  BY <1>2, <1>3, <1>4, MoveGivenUp

LEMMA OnwardGivenUp ==
  ASSUME GivenUpInv, TypeOK', NEW p \in Procs, rcv[p].at \in Working,
         NEW e \in Errors, Onward(p, e), Owner \subseteq blamed,
         UNCHANGED <<rec, req>>, blamed \subseteq blamed',
         \A t \in late' : t \in late \/ (t.owner \in blamed' /\ t.to \in blamed')
  PROVE  GivenUpInv'
<1> DEFINE v == [rcv[p] EXCEPT !.at = "choose", !.error = e, !.next = NoRecovery.next]
<1>1. rcv \in [Procs -> Recovery] /\ NoRecovery.next \in Takeover
  BY Blank DEF GivenUpInv, TypeOK, Recovery
<1>2. rcv' = [rcv EXCEPT ![p] = v] /\ lock' = lock
  BY <1>1 DEF Onward
<1>3. /\ v \in Recovery /\ v.at = "choose" /\ v.source = rcv[p].source
      /\ v.result = rcv[p].result
  BY <1>1 DEF Recovery
<1> HIDE DEF v
<1>4. v.at \in Working
  BY <1>3 DEF Working
<1>5. QED
  BY <1>2, <1>3, <1>4, MoveGivenUp

LEMMA SaveGivenUp ==
  ASSUME GivenUpInv, TypeOK', NEW p \in Procs, rcv[p].at = "save", rcv' = At(p, "commit"),
         rec' \in {rec, Moved(rcv[p].next)}, UNCHANGED <<req, lock, late, blamed>>
  PROVE  GivenUpInv'
<1> DEFINE v == [rcv[p] EXCEPT !.at = "commit"]
<1>1. rcv \in [Procs -> Recovery]
  BY DEF GivenUpInv, TypeOK
<1>2. rcv' = [rcv EXCEPT ![p] = v]
  BY <1>1 DEF At
<1>3. v.at = "commit" /\ v.source = rcv[p].source /\ v.result = rcv[p].result
  BY <1>1 DEF Recovery
<1> HIDE DEF v
<1>4. Owner \subseteq blamed /\ v.source \in blamed /\ rcv[p].at \in Working
  BY <1>3 DEF GivenUpInv, SourceGivenUp, Working
<1>5. Known \subseteq Known'
  BY <1>4 DEF Known
<1>6. v.result # "none" => v.result \in Known'
  BY <1>3, <1>5 DEF GivenUpInv, NamesKnown
<1>7. QED
  BY <1>2, <1>3, <1>4, <1>5, <1>6, HolderGivenUp

LEMMA RecoveriesGivenUp ==
  ASSUME GivenUpInv, NEW p \in Procs, RecoveryStep(p)
  PROVE  GivenUpInv'
<1>t. TypeOK /\ TypeOK' /\ rcv \in [Procs -> Recovery]
  BY RecoveriesType DEF GivenUpInv, TypeOK
<1>e. rcv[p].first \in Errors /\ rcv[p].error \in Errors
  BY <1>t DEF Recovery
<1>k. (\A r \in rec : r.owner \in Known) /\ (\A r \in rec : Owner = {r.owner})
  BY <1>t DEF Known, Owner, TypeOK
<1>s. /\ rcv[p].at \in Working \cup {"wait"} => rcv[p].source \in blamed
      /\ rcv[p].at \in {"own", "choose", "import", "save"} => Owner \subseteq blamed
      /\ rcv[p].at \in {"import", "save"} => rcv[p].next.owner \in blamed
  BY DEF GivenUpInv, SourceGivenUp
<1>1. CASE Acquire(p)
  <2>1. /\ UNCHANGED <<rec, req, late, blamed>> /\ lock = "none" /\ lock' = p
        /\ rcv[p].at = "wait" /\ rcv' = At(p, "load")
    BY <1>1 DEF Acquire
  <2>2. /\ \A q \in Procs : q # p => rcv'[q] = rcv[q]
        /\ rcv'[p].at = "load" /\ rcv'[p].source = rcv[p].source
        /\ rcv'[p].result = rcv[p].result
    BY <1>t, <2>1 DEF At, Recovery
  <2>3. Owner' = Owner /\ Known' = Known
    BY <2>1 DEF Owner, Known
  <2>4. NamesKnown'
    BY <2>1, <2>2, <2>3 DEF GivenUpInv, NamesKnown
  <2>5. LockHeld'
    BY <2>1, <2>2, ConstantsAssumption DEF GivenUpInv, LockHeld
  <2>6. SourceGivenUp'
    BY <1>s, <2>1, <2>2, <2>3 DEF GivenUpInv, SourceGivenUp
  <2>7. LateKnown'
    BY <2>1 DEF GivenUpInv, LateKnown
  <2>8. QED
    BY <1>t, <2>4, <2>5, <2>6, <2>7 DEF GivenUpInv
<1>2. CASE GiveUp(p)
  <2>1. UNCHANGED <<rec, req, late, blamed, lock>>
    BY <1>2 DEF GiveUp
  <2>2. /\ \A q \in Procs : q # p => rcv'[q] = rcv[q]
        /\ rcv'[p].at = "settle" /\ rcv'[p].result = "none"
    BY <1>t, <1>2 DEF GiveUp, NoRecovery
  <2>3. Owner' = Owner /\ Known' = Known
    BY <2>1 DEF Owner, Known
  <2>4. NamesKnown'
    BY <2>1, <2>2, <2>3 DEF GivenUpInv, NamesKnown
  <2>5. LockHeld'
    BY <2>1, <2>2 DEF GivenUpInv, LockHeld, Working
  <2>6. SourceGivenUp'
    BY <2>1, <2>2, <2>3 DEF GivenUpInv, SourceGivenUp, Working
  <2>7. LateKnown'
    BY <2>1 DEF GivenUpInv, LateKnown
  <2>8. QED
    BY <1>t, <2>4, <2>5, <2>6, <2>7 DEF GivenUpInv
<1>3. CASE Reload(p)
  <2>1. UNCHANGED <<rec, req, late, blamed>> /\ rcv[p].at \in Working
    BY <1>3 DEF Reload, Working
  <2>2. CASE NotFound(p, rcv[p].first)
    BY <1>t, <1>e, <2>1, <2>2, EndGivenUp
  <2>3. CASE \E r \in rec : Found(p, r.owner)
    BY <1>t, <1>k, <2>1, <2>3, EndGivenUp
  <2>4. CASE \E r \in rec : /\ r.owner = rcv[p].source
                            /\ \E at \in {"own", "choose"} : rcv' = At(p, at)
                            /\ UNCHANGED lock
    <3>1. Owner \subseteq blamed
      BY <1>k, <1>s, <2>1, <2>4
    <3>2. PICK at \in {"own", "choose"} : rcv' = At(p, at) /\ UNCHANGED lock
      BY <2>4
    <3>3. QED
      BY <1>t, <2>1, <3>1, <3>2, AtGivenUp
  <2>5. QED
    BY <1>3, <2>2, <2>3, <2>4 DEF Reload
<1>4. CASE RestoreOwn(p)
  <2>1. /\ UNCHANGED <<rec, req, late, blamed>> /\ rcv[p].at \in Working
        /\ rcv[p].source \in blamed /\ Owner \subseteq blamed
    BY <1>4, <1>s DEF RestoreOwn, Working
  <2>2. CASE Found(p, rcv[p].source)
    BY <1>t, <2>1, <2>2, EndGivenUp DEF Known
  <2>3. CASE \E e \in {"offline", "timeout"} : Onward(p, e)
    BY <1>t, <2>1, <2>3, OnwardGivenUp DEF Errors
  <2>4. QED
    BY <1>4, <2>2, <2>3 DEF RestoreOwn
<1>5. CASE Choose(p)
  <2>1. /\ UNCHANGED <<rec, req, late, blamed>> /\ rcv[p].at \in Working
        /\ rcv[p].source \in blamed /\ Owner \subseteq blamed
    BY <1>5, <1>s DEF Choose, Working
  <2>2. CASE \E e \in Errors : NotFound(p, e)
    BY <1>t, <2>1, <2>2, EndGivenUp
  <2>3. CASE \E r \in rec : \E a \in Agents :
                 /\ rcv' = [rcv EXCEPT ![p].at = "import", ![p].tried = @ \cup {a},
                       ![p].next = [to |-> a, owner |-> r.owner, epoch |-> r.epoch]]
                 /\ UNCHANGED lock
    <3>1. PICK r \in rec, a \in Agents :
                 /\ rcv' = [rcv EXCEPT ![p].at = "import", ![p].tried = @ \cup {a},
                       ![p].next = [to |-> a, owner |-> r.owner, epoch |-> r.epoch]]
                 /\ UNCHANGED lock
      BY <2>3
    <3> DEFINE v == [rcv[p] EXCEPT !.at = "import", !.tried = @ \cup {a},
                       !.next = [to |-> a, owner |-> r.owner, epoch |-> r.epoch]]
    <3>2. rcv' = [rcv EXCEPT ![p] = v]
      BY <1>t, <3>1
    <3>3. v = rcv'[p] /\ v \in Recovery
      BY <1>t, <3>2 DEF TypeOK
    <3>4. /\ v.at = "import" /\ v.source = rcv[p].source /\ v.result = rcv[p].result
          /\ v.next.owner = r.owner
      BY <1>t DEF Recovery
    <3> HIDE DEF v
    <3>5. r.owner \in blamed /\ v.at \in Working
      BY <1>k, <2>1, <3>4 DEF Working
    <3>6. QED
      BY <1>t, <2>1, <3>1, <3>2, <3>3, <3>4, <3>5, MoveGivenUp
  <2>4. \A r \in rec : r.copies \subseteq Agents
    BY <1>t DEF TypeOK, Record
  <2>5. QED
    BY <1>5, <1>e, <2>2, <2>3, <2>4 DEF Choose
<1>6. CASE Import(p)
  <2>1. /\ UNCHANGED <<rec, req, late, lock>> /\ rcv[p].at \in Working /\ blamed \subseteq blamed'
        /\ Owner \subseteq blamed /\ rcv[p].next.owner \in blamed
    BY <1>6, <1>s DEF Import, Working, Onward
  <2>2. CASE rcv' = At(p, "save") /\ UNCHANGED blamed
    BY <1>t, <2>1, <2>2, AtGivenUp
  <2>3. CASE \E e \in {"offline", "timeout"} : Onward(p, e)
    BY <1>t, <2>1, <2>3, OnwardGivenUp DEF Errors
  <2>4. QED
    BY <1>6, <2>2, <2>3 DEF Import
<1>7. CASE Save(p)
  <2>1. rcv[p].at = "save" /\ UNCHANGED req
    BY <1>7 DEF Save
  <2>2. CASE /\ rcv' = At(p, "commit") /\ rec' \in {rec, Moved(rcv[p].next)}
             /\ UNCHANGED <<lock, late, blamed>>
    BY <1>t, <2>1, <2>2, SaveGivenUp
  <2>3. CASE /\ Onward(p, "other") /\ late' = late \cup {rcv[p].next}
             /\ blamed' = blamed \cup {rcv[p].next.to} /\ UNCHANGED rec
    <3>1. Owner \subseteq blamed /\ rcv[p].next.owner \in blamed /\ rcv[p].at \in Working
      BY <1>s, <2>1 DEF Working
    <3>2. QED
      BY <1>t, <2>1, <2>3, <3>1, OnwardGivenUp DEF Errors
  <2>4. QED
    BY <1>7, <2>2, <2>3 DEF Save
<1>8. CASE Commit(p)
  <2>1. /\ UNCHANGED <<rec, req, late>> /\ rcv[p].at \in Working
        /\ rcv[p].source \in blamed
    BY <1>8, <1>s DEF Commit, Working
  <2>2. CASE \E r \in rec : Found(p, r.owner) /\ UNCHANGED blamed
    BY <1>t, <1>k, <2>1, <2>2, EndGivenUp
  <2>3. CASE /\ \A r \in rec : r.owner = rcv[p].source
             /\ Onward(p, "other") /\ blamed' = blamed \cup {rcv[p].next.to}
    <3>1. Owner \subseteq blamed
      BY <2>1, <2>3 DEF Owner
    <3>2. QED
      BY <1>t, <2>1, <2>3, <3>1, OnwardGivenUp DEF Errors
  <2>4. QED
    BY <1>8, <2>2, <2>3 DEF Commit
<1>9. CASE Settle(p)
  <2>1. /\ UNCHANGED <<rec, late, blamed, lock>> /\ rcv' = [rcv EXCEPT ![p] = NoRecovery]
        /\ req' = [w \in Requests |->
              IF req[w].proc = p THEN Resumed(req[w], rcv[p]) ELSE req[w]]
    BY <1>9 DEF Settle
  <2>2. /\ \A q \in Procs : q # p => rcv'[q] = rcv[q]
        /\ rcv'[p].at = "none" /\ rcv'[p].result = "none"
    BY <1>t, <2>1 DEF NoRecovery
  <2>3. Owner' = Owner /\ Known' = Known
    BY <2>1 DEF Owner, Known
  <2>4. Home \in Known /\ (rcv[p].result # "none" => rcv[p].result \in Known)
        /\ \A w \in Requests : req[w].owner \in Known /\ req[w].to \in Known
    BY DEF GivenUpInv, NamesKnown
  <2>5. \A w \in Requests : Resumed(req[w], rcv[p]).owner \in Known
                            /\ Resumed(req[w], rcv[p]).to \in Known
    <3>1. SUFFICES ASSUME NEW w \in Requests
                   PROVE  Resumed(req[w], rcv[p]).owner \in Known
                          /\ Resumed(req[w], rcv[p]).to \in Known
      OBVIOUS
    <3>2. req[w] \in Request
      BY <1>t DEF TypeOK
    <3>3. CASE rcv[p].result # "none"
      BY <2>4, <3>2, <3>3 DEF Resumed, Request
    <3>4. CASE rcv[p].result = "none"
      BY <2>4, <3>2, <3>4 DEF Resumed, Request, NoRequest
    <3>5. QED
      BY <3>3, <3>4
  <2>6. NamesKnown'
    BY <2>1, <2>2, <2>3, <2>4, <2>5 DEF GivenUpInv, NamesKnown
  <2>7. LockHeld'
    BY <2>1, <2>2 DEF GivenUpInv, LockHeld, Working
  <2>8. SourceGivenUp'
    BY <2>1, <2>2, <2>3 DEF GivenUpInv, SourceGivenUp, Working
  <2>9. LateKnown'
    BY <2>1 DEF GivenUpInv, LateKnown
  <2>10. QED
    BY <1>t, <2>6, <2>7, <2>8, <2>9 DEF GivenUpInv
<1>10. QED
  BY <1>1, <1>2, <1>3, <1>4, <1>5, <1>6, <1>7, <1>8, <1>9 DEF RecoveryStep

LEMMA WorldGivenUp ==
  ASSUME GivenUpInv,
         \/ \E p \in Procs : Crash(p)
         \/ Expire
         \/ \E t \in late : LateSave(t)
         \/ \E a \in Agents : Forget(a) \/ Disconnect(a) \/ Reconnect(a)
  PROVE  GivenUpInv'
<1>t. TypeOK /\ TypeOK' /\ rcv \in [Procs -> Recovery]
  BY WorldType DEF GivenUpInv, TypeOK
<1>n. \A x \in Requests : req[x].owner \in Known /\ req[x].to \in Known
  BY DEF GivenUpInv, NamesKnown
<1>1. ASSUME NEW p \in Procs, Crash(p) PROVE GivenUpInv'
  <2>1. /\ UNCHANGED <<rec, blamed>> /\ rcv' = [rcv EXCEPT ![p] = NoRecovery]
        /\ lock' = IF lock = p THEN "dead" ELSE lock
    BY <1>1 DEF Crash
  <2>2. /\ \A q \in Procs : q # p => rcv'[q] = rcv[q]
        /\ rcv'[p].at = "none" /\ rcv'[p].result = "none"
    BY <1>t, <2>1 DEF NoRecovery
  <2>3. Owner' = Owner /\ Known' = Known
    BY <2>1 DEF Owner, Known
  <2>4. \A x \in Requests : req'[x].owner \in {req[x].owner, Home} /\ req'[x].to \in {req[x].to, Home}
    BY <1>1 DEF Crash, NoRequest
  <2>5. NamesKnown'
    BY <2>1, <2>2, <2>3, <2>4 DEF GivenUpInv, NamesKnown
  <2>6. LockHeld'
    BY <2>1, <2>2 DEF GivenUpInv, LockHeld, Working
  <2>7. SourceGivenUp'
    BY <2>1, <2>2, <2>3 DEF GivenUpInv, SourceGivenUp, Working
  <2>8. LateKnown'
    <3>1. late' = late \/ (rcv[p].at \in {"import", "save"} /\ late' = late \cup {rcv[p].next})
      BY <1>1 DEF Crash
    <3>2. rcv[p].at \in {"import", "save"} => lock = p /\ rcv[p].next.owner \in blamed
      BY DEF GivenUpInv, LockHeld, SourceGivenUp, Working
    <3>3. QED
      BY <2>1, <3>1, <3>2 DEF GivenUpInv, LateKnown
  <2>9. QED
    BY <1>t, <2>5, <2>6, <2>7, <2>8 DEF GivenUpInv
<1>2. CASE Expire
  <2>1. UNCHANGED <<rec, rcv, late, blamed, req>> /\ lock = "dead" /\ late = {} /\ lock' = "none"
    BY <1>2 DEF Expire
  <2>2. Owner' = Owner /\ Known' = Known
    BY <2>1 DEF Owner, Known
  <2>3. NamesKnown'
    BY <2>1, <2>2 DEF GivenUpInv, NamesKnown
  <2>4. LockHeld'
    BY <2>1, ConstantsAssumption DEF GivenUpInv, LockHeld
  <2>5. SourceGivenUp' /\ LateKnown'
    BY <2>1, <2>2 DEF GivenUpInv, SourceGivenUp, LateKnown
  <2>6. QED
    BY <1>t, <2>3, <2>4, <2>5 DEF GivenUpInv
<1>3. ASSUME NEW t \in late, LateSave(t) PROVE GivenUpInv'
  <2>1. /\ UNCHANGED <<rcv, req, lock, blamed>> /\ late' \subseteq late
        /\ rec' \in {rec, Moved(t)}
    BY <1>3 DEF LateSave
  <2>2. t.owner \in blamed /\ (t.to \in blamed \/ lock = "dead")
    BY DEF GivenUpInv, LateKnown
  <2>3. Owner' \subseteq Owner \cup {t.to} /\ Known \subseteq Known'
    BY <2>1, <2>2 DEF Owner, Known, Moved
  <2>4. NamesKnown'
    BY <2>1, <2>3 DEF GivenUpInv, NamesKnown
  <2>5. LockHeld'
    BY <2>1 DEF GivenUpInv, LockHeld
  <2>6. SourceGivenUp'
    <3>1. lock = "dead" => \A q \in Procs : rcv[q].at \notin Working
      BY ConstantsAssumption DEF GivenUpInv, LockHeld
    <3>2. QED
      BY <2>1, <2>2, <2>3, <3>1 DEF GivenUpInv, SourceGivenUp, Working
  <2>7. LateKnown'
    BY <2>1 DEF GivenUpInv, LateKnown
  <2>8. QED
    BY <1>t, <2>4, <2>5, <2>6, <2>7 DEF GivenUpInv
<1>4. ASSUME NEW a \in Agents, Forget(a) \/ Disconnect(a) \/ Reconnect(a) PROVE GivenUpInv'
  <2>1. UNCHANGED <<rec, rcv, req, late, blamed, lock>>
    BY <1>4 DEF Forget, Disconnect, Reconnect
  <2>2. QED
    BY <1>t, <1>n, <2>1, RecordKept
<1>5. QED
  BY <1>1, <1>2, <1>3, <1>4

LEMMA GivenUpNext == GivenUpInv /\ [Next]_vars => GivenUpInv'
<1> SUFFICES ASSUME GivenUpInv, [Next]_vars PROVE GivenUpInv'
  OBVIOUS
<1>1. CASE UNCHANGED vars
  <2>1. TypeOK'
    BY TypeNext DEF GivenUpInv
  <2>2. \A x \in Requests : req[x].owner \in Known /\ req[x].to \in Known
    BY DEF GivenUpInv, NamesKnown
  <2>3. QED
    BY <1>1, <2>1, <2>2, RecordKept DEF vars
<1>2. CASE Next
  BY <1>2, RequestsGivenUp, RecoveriesGivenUp, WorldGivenUp DEF Next
<1>3. QED
  BY <1>1, <1>2

\* A step that changes the owner takes the session from a node that was given up.
LEMMA OwnerStep ==
  ASSUME GivenUpInv, [Next]_vars, NEW r \in rec, NEW s \in rec', r.owner # s.owner
  PROVE  r.owner \in blamed
<1>1. rec' # rec /\ rec # {} /\ rec' # {}
  BY DEF GivenUpInv, TypeOK
<1>2. \/ \E w \in Requests : Served(w)
      \/ \E p \in Procs : rcv[p].at = "save" /\ rec' = Moved(rcv[p].next)
      \/ \E t \in late : rec' = Moved(t)
  <2>1. Next
    BY <1>1 DEF vars
  <2>2. \A w \in Requests :
          RequestStep(w) \/ Return(w) \/ (\E p \in Procs : Load(w, p) \/ Logout(w, p))
            => Served(w)
    BY <1>1 DEF RequestStep, Unserved, Catch, Probe, LogoutAtNode, Delete, Return, Load, Logout
  <2>3. \A p \in Procs :
          RecoveryStep(p) => rcv[p].at = "save" /\ rec' = Moved(rcv[p].next)
    BY <1>1 DEF RecoveryStep, Acquire, GiveUp, Reload, RestoreOwn, Choose, Import, Save,
                Commit, Settle
  <2>4. QED
    BY <1>1, <2>1, <2>2, <2>3 DEF Next, Crash, Forget, Disconnect, Reconnect, LateSave, Expire
<1>3. CASE \E w \in Requests : Served(w)
  BY <1>1, <1>3 DEF Served, Refreshed
<1>4. CASE \E p \in Procs : rcv[p].at = "save" /\ rec' = Moved(rcv[p].next)
  BY <1>4 DEF GivenUpInv, SourceGivenUp, Owner
<1>5. CASE \E t \in late : rec' = Moved(t)
  <2>1. PICK t \in late : rec' = Moved(t)
    BY <1>5
  <2>2. t.owner \in blamed
    BY DEF GivenUpInv, LateKnown
  <2>3. QED
    BY <2>1, <2>2 DEF Moved, GivenUpInv, TypeOK
<1>6. QED
  BY <1>2, <1>3, <1>4, <1>5

\* A session is taken only from a node that was given up.
THEOREM LeftOnlyWhenGivenUp == Spec => OnlyFailedNodesAreLeft
<1>1. Init => GivenUpInv
  BY GivenUpInit
<1>2. GivenUpInv /\ [Next]_vars => GivenUpInv'
  BY GivenUpNext
<1>3. GivenUpInv /\ [Next]_vars
        => [\A r \in rec, s \in rec' : r.owner # s.owner => r.owner \in blamed]_vars
  BY OwnerStep
<1>4. QED
  BY <1>1, <1>2, <1>3, PTL DEF Spec, OnlyFailedNodesAreLeft

-------------------------------------------------------------------------------
(* What requests find while nothing goes wrong.                             *)

Healthy(a) == link[a] = "ready" /\ a \in live

\* No node in reach has a copy: whoever fails, fails for that reason.
Hopeless == rec # {} /\ \A r \in rec : \A a \in r.copies : link[a] # "ready"

OwnerHealthy == rec # {} /\ \A r \in rec : Healthy(r.owner)

\* Node a is the owner, or the session has moved on from it to a healthy one.
Outdone(a) == rec # {} /\ (a \in Owner \/ OwnerHealthy)

\* A request that has not given up was refused by nobody but the owner it had read,
\* for a reason that recovery knows.
RequestHopes(w) ==
  LET q == req[w] IN
  /\ q.at # "probe"
  /\ q.at \in {"await", "join", "retry"} => rec # {}
  /\ q.at = "retry" => Healthy(q.to)
  /\ q.at = "await" => q.had
  /\ q.at \in {"await", "call", "caught"} /\ q.had => Outdone(q.owner)
  /\ q.at \in {"call", "caught"} /\ ~q.had =>
       q.owner = Home /\ q.to = Home /\ (rec = {} \/ Healthy(Home))
  /\ q.at = "call" => q.to = q.owner \/ Healthy(q.to)
  /\ q.at = "caught" =>
       /\ ~q.had => ~Healthy(Home)
       /\ q.error = "missing" \/ (q.error = "offline" /\ link[q.owner] # "ready")

\* A recovery tries a target only after the owner it is for, which it would have
\* given back its own copy, and the first target it tries will do.
RecoveryHopes(p) ==
  LET v == rcv[p] IN
  /\ v.at # "none" => rec # {}
  /\ v.at = "settle" => v.result # "none" /\ Healthy(v.result)
  /\ v.at \in Working \cup {"wait"} =>
       Outdone(v.source) /\ (link[v.source] = "ready" => v.lost)
  /\ v.at \in {"wait", "load", "own", "choose"} => v.tried = {v.source}
  /\ v.at = "own" => link[v.source] = "ready"
  /\ v.at \in {"choose", "import", "save"} =>
       \A r \in rec : /\ r.owner = v.source
                      /\ v.source \in r.copies => link[v.source] # "ready"
  /\ v.at \in {"import", "save"} =>
       \A r \in rec : /\ v.next.owner = r.owner /\ v.next.epoch = r.epoch
                      /\ v.next.to # v.source /\ link[v.next.to] = "ready"
  /\ v.at = "save" => v.next.to \in live
  /\ v.at = "commit" => v.source \notin Owner

Hopes ==
  /\ \A w \in Requests : RequestHopes(w)
  /\ \A p \in Procs : RecoveryHopes(p)

AnswersAreDone == \A w \in Requests : req[w].answer # "none" => req[w].at = "done"

NoLogouts == late = {} /\ \A w \in Requests : req[w].at \notin {"logout", "delete"}

QuietInv == AnswersAreDone /\ (calm => NoLogouts /\ (Hopeless \/ Hopes))

\* What a step without trouble does to record and nodes.
Gentle ==
  /\ link' = link /\ live \subseteq live'
  /\ live' = live \/ rec # {}
  /\ rec # {} => rec' # {} /\ \A a \in Agents : Outdone(a) => Outdone(a)'
  /\ rec' = rec \/ rec # {} \/ Healthy(Home)

LEMMA GentleWhenRecordStays ==
  ASSUME rec' = rec, link' = link, live \subseteq live', live' = live \/ rec # {}
  PROVE  Gentle
<1>1. \A a \in Agents : Outdone(a) => Outdone(a)'
  BY DEF Outdone, OwnerHealthy, Healthy, Owner
<1>2. QED
  BY <1>1 DEF Gentle

\* The hopes of whom such a step does not touch stand.
LEMMA RequestKept ==
  ASSUME TypeOK, Gentle, NEW w \in Requests, RequestHopes(w), req'[w] = req[w]
  PROVE  RequestHopes(w)'
<1> DEFINE q == req[w]
<1>1. q \in Request /\ q.owner \in Agents /\ Home \in Agents
  BY ConstantsAssumption DEF TypeOK, Request
<1>2. \A a \in Agents : Healthy(a) => Healthy(a)'
  BY DEF Gentle, Healthy
<1>3. /\ rec # {} => rec' # {}
      /\ \A a \in Agents : Outdone(a) => Outdone(a)'
  BY DEF Gentle, Outdone
<1>4. q.to \in Agents
  BY <1>1 DEF Request
<1>5. q.at \in {"call", "caught"} /\ ~q.had => rec' = {} \/ Healthy(Home)'
  BY <1>1, <1>2 DEF Gentle, RequestHopes
<1>6. q.at = "caught" /\ ~q.had => ~Healthy(Home)'
  BY DEF Gentle, RequestHopes, Healthy
<1>7. link' = link
  BY DEF Gentle
<1>8. QED
  BY <1>1, <1>2, <1>3, <1>4, <1>5, <1>6, <1>7 DEF RequestHopes

LEMMA RecoveryKept ==
  ASSUME TypeOK, Gentle, NEW p \in Procs, RecoveryHopes(p), rcv'[p] = rcv[p],
         rec' = rec \/ rcv[p].at \in {"none", "wait", "settle"}
  PROVE  RecoveryHopes(p)'
<1> DEFINE v == rcv[p]
<1>1. v \in Recovery /\ v.source \in Agents
  BY DEF TypeOK, Recovery
<1>2. v.result # "none" => v.result \in Agents
  BY <1>1 DEF Recovery
<1>3. \A a \in Agents : Healthy(a) => Healthy(a)'
  BY DEF Gentle, Healthy
<1>4. /\ rec # {} => rec' # {}
      /\ \A a \in Agents : Outdone(a) => Outdone(a)'
      /\ link' = link /\ live \subseteq live'
  BY DEF Gentle, Outdone
<1>5. rec' = rec => Owner' = Owner
  BY DEF Owner
<1>6. CASE rec' = rec
  BY <1>1, <1>2, <1>3, <1>4, <1>5, <1>6 DEF RecoveryHopes
<1>7. CASE v.at \in {"none", "wait", "settle"}
  BY <1>1, <1>2, <1>3, <1>4, <1>7 DEF RecoveryHopes, Working
<1>8. QED
  BY <1>6, <1>7

LEMMA HopesKept ==
  ASSUME TypeOK, Hopes, Gentle,
         \A w \in Requests : req'[w] = req[w] \/ RequestHopes(w)',
         \A p \in Procs : \/ RecoveryHopes(p)'
                          \/ /\ rcv'[p] = rcv[p]
                             /\ rec' = rec \/ rcv[p].at \in {"none", "wait", "settle"}
  PROVE  Hopes'
<1>1. \A w \in Requests : RequestHopes(w)'
  BY RequestKept DEF Hopes
<1>2. \A p \in Procs : RecoveryHopes(p)'
  BY RecoveryKept DEF Hopes
<1>3. QED
  BY <1>1, <1>2 DEF Hopes

LEMMA FailsReasons ==
  ASSUME TypeOK, NEW a \in Agents
  PROVE  /\ Fails(a) = "none" <=> Healthy(a)
         /\ Fails(a) \in {"none", "missing", "offline"}
         /\ Fails(a) = "offline" => link[a] # "ready"
BY DEF Fails, Healthy, TypeOK

\* A request that is done, or not begun, hopes for nothing.
LEMMA AnswerHopes ==
  ASSUME TypeOK, NEW w \in Requests, Answer(w, "ok") \/ Answer(w, "error")
  PROVE  RequestHopes(w)' /\ \A x \in Requests : req'[x] = req[x] \/ RequestHopes(x)'
<1>1. PICK a \in {"ok", "error"} : Answer(w, a)
  OBVIOUS
<1>2. /\ req'[w] = [NoRequest EXCEPT !.at = "done", !.answer = a]
      /\ \A x \in Requests : x # w => req'[x] = req[x]
  BY <1>1 DEF Answer, TypeOK
<1>3. req'[w].at = "done"
  BY <1>2, Blank DEF NoRequest
<1>4. RequestHopes(w)'
  BY <1>3 DEF RequestHopes
<1>5. QED
  BY <1>2, <1>4

\* A request that gives up a node it was right to give up.
LEMMA RecoverHopes ==
  ASSUME TypeOK, Hopes, NEW w \in Requests, req[w].at = "caught",
         Recover(w, req[w].error = "missing"), UNCHANGED <<rec, live, link>>
  PROVE  Hopes'
<1>1. Gentle
  BY GentleWhenRecordStays
<1>2. RequestHopes(w)
  BY DEF Hopes
<1>3. CASE ~req[w].had
  <2>1. Answer(w, "error") /\ rcv' = rcv
    BY <1>3 DEF Recover
  <2>2. \A x \in Requests : req'[x] = req[x] \/ RequestHopes(x)'
    BY <2>1, AnswerHopes
  <2>3. QED
    BY <1>1, <2>1, <2>2, HopesKept
<1>4. CASE req[w].had
  <2> DEFINE p == req[w].proc
             q == [NoRequest EXCEPT !.at = "join", !.proc = p]
             v == [NoRecovery EXCEPT !.at = "wait", !.source = req[w].owner,
                     !.lost = (req[w].error = "missing"), !.first = req[w].error,
                     !.error = req[w].error, !.tried = {req[w].owner}]
  <2>1. rec # {} /\ Outdone(req[w].owner)
    BY <1>2, <1>4 DEF RequestHopes, Outdone
  <2>2. link[req[w].owner] = "ready" => req[w].error = "missing"
    BY <1>2 DEF RequestHopes
  <2>3. req'[w] = q /\ \A x \in Requests : x # w => req'[x] = req[x]
    BY <1>4 DEF Recover, TypeOK
  <2>4. q.at = "join"
    BY DEF NoRequest
  <2>5. \A r \in Procs : rcv'[r] = rcv[r] \/ rcv'[r] = v
    BY <1>4 DEF Recover, TypeOK
  <2>6. /\ v.at = "wait" /\ v.source = req[w].owner /\ v.tried = {v.source}
        /\ v.lost = (req[w].error = "missing")
    BY DEF NoRecovery
  <2> HIDE DEF p, q, v
  <2>a. PICK a \in Agents : a = req[w].owner
    BY DEF TypeOK, Request
  <2>b. Outdone(a)'
    BY <2>1, <2>a DEF Outdone, OwnerHealthy, Owner, Healthy
  <2>7. RequestHopes(w)'
    BY <2>1, <2>3, <2>4 DEF RequestHopes
  <2>8. \A r \in Procs :
          \/ rcv'[r] = rcv[r]
          \/ /\ rcv'[r].at = "wait" /\ rcv'[r].source = a /\ rcv'[r].tried = {a}
             /\ link'[a] = "ready" => rcv'[r].lost
    BY <2>2, <2>5, <2>6, <2>a
  <2>9. \A r \in Procs : rcv'[r] = rcv[r] \/ RecoveryHopes(r)'
    BY <2>1, <2>8, <2>b DEF RecoveryHopes, Working
  <2>10. QED
    BY <1>1, <2>3, <2>7, <2>9, HopesKept
<1>5. QED
  BY <1>3, <1>4

LEMMA RequestsHope ==
  ASSUME TypeOK, Hopes, NoLogouts, NEW w \in Requests, RequestStep(w) \/ Return(w),
         calm, calm'
  PROVE  Hopes'
<1>0. /\ req[w] \in Request /\ req[w].to \in Agents /\ req[w].owner \in Agents
      /\ req \in [Requests -> Request]
  BY DEF TypeOK, Request
<1>1. RequestHopes(w)
  BY DEF Hopes
<1>2. CASE Served(w)
  <2>1. /\ Healthy(req[w].to) /\ UNCHANGED <<live, link, rcv>> /\ Answer(w, "ok")
        /\ rec' \in Refreshed(req[w].to) /\ req[w].at \in {"call", "retry"}
    BY <1>0, <1>2, FailsReasons DEF Served, Nodes
  <2>2. Gentle
    <3>1. CASE rec' = rec
      BY <2>1, <3>1, GentleWhenRecordStays
    <3>2. CASE rec = {}
      <4>1. req[w].at = "call" /\ ~req[w].had /\ req[w].to = Home
        BY <1>1, <2>1, <3>2 DEF RequestHopes, Outdone
      <4>2. QED
        BY <2>1, <3>2, <4>1 DEF Gentle
    <3>3. QED
      BY <2>1, <3>1, <3>2 DEF Refreshed
  <2>3. rec' = rec \/ rec = {}
    BY <2>1 DEF Refreshed
  <2>4. \A p \in Procs : rec' = rec \/ rcv[p].at = "none"
    BY <2>3 DEF Hopes, RecoveryHopes
  <2>5. \A x \in Requests : req'[x] = req[x] \/ RequestHopes(x)'
    BY <2>1, AnswerHopes
  <2>6. QED
    BY <2>1, <2>2, <2>4, <2>5, HopesKept
<1>3. CASE Unserved(w)
  <2>1. /\ UNCHANGED <<rec, live, link, rcv>> /\ req[w].at \in {"call", "retry"}
        /\ Fails(req[w].to) # "none" /\ Fail(w, Fails(req[w].to))
    BY <1>3 DEF Unserved, Nodes, Fault
  <2>2. ~Healthy(req[w].to) /\ Fails(req[w].to) \in {"missing", "offline"}
        /\ (Fails(req[w].to) = "offline" => link[req[w].to] # "ready")
    BY <1>0, <2>1, FailsReasons
  <2>3. req[w].at = "call" /\ req[w].to = req[w].owner
    BY <1>1, <2>1, <2>2 DEF RequestHopes
  <2>4. /\ \A x \in Requests : x # w => req'[x] = req[x]
        /\ req'[w] = [req[w] EXCEPT !.at = "caught", !.error = Fails(req[w].to)]
    BY <1>0, <2>1, <2>3 DEF Fail
  <2>5. /\ req'[w].at = "caught" /\ req'[w].error = Fails(req[w].to)
        /\ req'[w].owner = req[w].owner /\ req'[w].to = req[w].to
        /\ req'[w].had = req[w].had
    BY <1>0, <2>4 DEF Request
  <2>6. RequestHopes(w)'
    BY <1>1, <2>1, <2>2, <2>3, <2>5
       DEF RequestHopes, Outdone, OwnerHealthy, Owner, Healthy
  <2>7. Gentle
    BY <2>1, GentleWhenRecordStays
  <2>8. QED
    BY <2>1, <2>4, <2>6, <2>7, HopesKept
<1>4. CASE Catch(w)
  <2>1. UNCHANGED <<rec, live, link>> /\ req[w].at = "caught"
        /\ Recover(w, req[w].error = "missing")
    BY <1>1, <1>4 DEF Catch, RequestHopes, Nodes
  <2>2. QED
    BY <2>1, RecoverHopes
<1>5. CASE Probe(w) \/ LogoutAtNode(w) \/ Delete(w)
  BY <1>1, <1>5 DEF Probe, LogoutAtNode, Delete, RequestHopes, NoLogouts
<1>6. CASE Return(w)
  <2>1. UNCHANGED <<rec, live, link, rcv>> /\ req' = [req EXCEPT ![w] = NoRequest]
    BY <1>6 DEF Return, Nodes
  <2>2. req'[w].at = "idle" /\ \A x \in Requests : x # w => req'[x] = req[x]
    BY <1>0, <2>1 DEF NoRequest
  <2>3. RequestHopes(w)'
    BY <2>2 DEF RequestHopes
  <2>4. QED
    BY <2>1, <2>2, <2>3, GentleWhenRecordStays, HopesKept
<1>7. QED
  BY <1>2, <1>3, <1>4, <1>5, <1>6 DEF RequestStep

\* A request that begins when all is well, or when all is at rest again.
LEMMA LoadHopes ==
  ASSUME TypeOK, NEW w \in Requests, NEW p \in Procs, Load(w, p), calm', AnswersAreDone,
         calm => NoLogouts /\ (Hopeless \/ Hopes)
  PROVE  NoLogouts' /\ (Hopeless' \/ Hopes')
<1>1. /\ UNCHANGED <<rec, live, link, rcv, late>> /\ calm' = (calm \/ AtRest)
  BY DEF Load, Nodes
<1>2. /\ req'[w].at = IF rcv[p].at = "none" THEN "call" ELSE "await"
      /\ req'[w].owner = OwnerNow /\ req'[w].to = OwnerNow
      /\ req'[w].had = (rec # {})
      /\ \A x \in Requests : x # w => req'[x] = req[x]
  BY DEF Load, TypeOK
<1>3. \A x \in Requests : x # w => req'[x] = req[x]
  BY <1>2
<1>4. NoLogouts'
  BY <1>1, <1>2 DEF NoLogouts, AtRest
<1>5. Hopeless => Hopeless'
  BY <1>1 DEF Hopeless
<1>6. AtRest => Hopes
  BY DEF AtRest, Hopes, RequestHopes, RecoveryHopes, Working
<1>7. ASSUME Hopes PROVE Hopes'
  <2>1. rcv[p].at # "none" => rec # {}
    BY <1>7 DEF Hopes, RecoveryHopes
  <2>2. PICK a \in Agents : a = OwnerNow
    BY OwnerType
  <2>3. (rec # {} => Outdone(a)') /\ (rec = {} => a = Home)
    BY <1>1, <2>2, OwnerType DEF Outdone, Owner, OwnerNow
  <2>4. RequestHopes(w)'
    BY <1>1, <1>2, <2>1, <2>2, <2>3 DEF RequestHopes
  <2>5. Gentle
    BY <1>1, GentleWhenRecordStays
  <2>6. QED
    BY <1>1, <1>3, <1>7, <2>4, <2>5, HopesKept
<1>8. QED
  BY <1>1, <1>4, <1>5, <1>6, <1>7

\* A step of the recovery of process p, which holds the lock if it moves the session.
LEMMA RecoveryMoves ==
  ASSUME TypeOK, LockHeld, Hopes, Gentle, NEW p \in Procs, req' = req,
         \A q \in Procs : q # p => rcv'[q] = rcv[q],
         RecoveryHopes(p)', rec' = rec \/ lock = p
  PROVE  Hopes'
<1>1. ASSUME NEW q \in Procs, q # p, rec' # rec
      PROVE  rcv[q].at \in {"none", "wait", "settle"}
  <2>1. rcv[q].at \notin Working
    BY <1>1 DEF LockHeld
  <2>2. QED
    BY <2>1 DEF TypeOK, Recovery, Working
<1>2. QED
  BY <1>1, HopesKept

LEMMA RecoveriesHope ==
  ASSUME TypeOK, LockHeld, Hopes, NEW p \in Procs, RecoveryStep(p), calm, calm'
  PROVE  Hopes' \/ Hopeless'
<1>0. /\ rcv \in [Procs -> Recovery] /\ rcv[p] \in Recovery /\ rcv[p].source \in Agents
      /\ \A r, s \in rec : r = s
      /\ RecoveryHopes(p)
  BY DEF TypeOK, Recovery, Hopes
<1>s. PICK a \in Agents : a = rcv[p].source
  BY <1>0
<1>r. rcv[p].at # "none" => rec # {}
  BY <1>0 DEF RecoveryHopes
<1>o. rcv[p].at \in Working \cup {"wait"} => Outdone(a) /\ (link[a] = "ready" => rcv[p].lost)
  BY <1>0, <1>s DEF RecoveryHopes
<1>f. ASSUME NEW b \in Agents, Found(p, b), rcv[p].at \in Working, Healthy(b)',
             UNCHANGED <<rec, link, req>>, live \subseteq live'
      PROVE  Hopes'
  <2>1. /\ rcv'[p].at = "settle" /\ rcv'[p].result = b /\ b # "none"
        /\ \A q \in Procs : q # p => rcv'[q] = rcv[q]
    BY <1>0, <1>f, ConstantsAssumption DEF Found, NoRecovery
  <2>2. rec # {}
    BY <1>f, <1>r DEF Working
  <2>3. RecoveryHopes(p)'
    BY <1>f, <2>1, <2>2 DEF RecoveryHopes, Working
  <2>4. Gentle
    BY <1>f, <2>2, GentleWhenRecordStays
  <2>5. QED
    BY <1>f, <2>1, <2>3, <2>4, RecoveryMoves
<1>1. CASE Acquire(p)
  <2>1. /\ UNCHANGED <<rec, live, link, req>> /\ rcv[p].at = "wait" /\ rcv' = At(p, "load")
    BY <1>1 DEF Acquire, Nodes
  <2>2. /\ \A q \in Procs : q # p => rcv'[q] = rcv[q]
        /\ rcv'[p].at = "load" /\ rcv'[p].source = a /\ rcv'[p].lost = rcv[p].lost
        /\ rcv'[p].tried = rcv[p].tried
    BY <1>0, <1>s, <2>1 DEF At, Recovery
  <2>3. Gentle
    BY <2>1, GentleWhenRecordStays
  <2>4. Outdone(a)' /\ rcv[p].tried = {a} /\ rec # {}
    BY <1>0, <1>s, <1>o, <1>r, <2>1, <2>3 DEF RecoveryHopes, Gentle, Outdone
  <2>5. RecoveryHopes(p)'
    BY <1>o, <2>1, <2>2, <2>4 DEF RecoveryHopes, Working
  <2>6. QED
    BY <1>0, <2>1, <2>2, <2>3, <2>5, RecoveryMoves
<1>2. CASE GiveUp(p)
  BY <1>2 DEF GiveUp
<1>3. CASE Reload(p)
  <2>1. /\ UNCHANGED <<rec, live, link, req>> /\ rcv[p].at = "load" /\ rec # {}
        /\ rcv[p].at \in Working
    BY <1>3, <1>r DEF Reload, Nodes, Working
  <2>2. Gentle
    BY <2>1, GentleWhenRecordStays
  <2>3. CASE \E r \in rec : r.owner # rcv[p].source /\ Found(p, r.owner)
    <3>1. PICK r \in rec : r.owner # a /\ Found(p, r.owner)
      BY <1>s, <2>3
    <3>2. Healthy(r.owner)' /\ r.owner \in Agents
      BY <1>0, <1>o, <2>1, <3>1 DEF Outdone, Owner, OwnerHealthy, Healthy, TypeOK, Record
    <3>3. QED
      BY <1>f, <2>1, <3>1, <3>2
  <2>4. CASE \E r \in rec :
              /\ r.owner = rcv[p].source
              /\ rcv' = At(p, IF rcv[p].lost /\ link[rcv[p].source] = "ready"
                                 /\ rcv[p].source \in r.copies
                              THEN "own" ELSE "choose")
    <3>1. PICK r \in rec :
            /\ r.owner = a
            /\ rcv' = At(p, IF rcv[p].lost /\ link[a] = "ready" /\ a \in r.copies
                            THEN "own" ELSE "choose")
      BY <1>s, <2>4
    <3>2. /\ \A q \in Procs : q # p => rcv'[q] = rcv[q]
          /\ rcv'[p].at = IF rcv[p].lost /\ link[a] = "ready" /\ a \in r.copies
                          THEN "own" ELSE "choose"
          /\ rcv'[p].source = a /\ rcv'[p].lost = rcv[p].lost
          /\ rcv'[p].tried = rcv[p].tried
      BY <1>0, <1>s, <3>1 DEF At, Recovery
    <3>3. Outdone(a)' /\ rcv[p].tried = {a} /\ (link[a] = "ready" => rcv[p].lost)
      BY <1>0, <1>s, <1>o, <2>1, <2>2 DEF RecoveryHopes, Gentle, Outdone
    <3>4. rcv'[p].at = "own" => link'[a] = "ready"
      BY <2>1, <3>2
    <3>5. rcv'[p].at = "choose" => \A s \in rec' : s.owner = a /\ (a \in s.copies => link'[a] # "ready")
      BY <1>0, <2>1, <3>1, <3>2, <3>3
    <3>6. rcv'[p].at \in {"own", "choose"}
      BY <3>2
    <3>7. RecoveryHopes(p)'
      BY <2>1, <3>2, <3>3, <3>4, <3>5, <3>6 DEF RecoveryHopes, Working
    <3>8. QED
      BY <2>1, <2>2, <3>2, <3>7, RecoveryMoves
  <2>5. QED
    BY <1>3, <2>1, <2>3, <2>4 DEF Reload
<1>4. CASE RestoreOwn(p)
  <2>1. /\ UNCHANGED <<rec, link, req>> /\ rcv[p].at = "own" /\ rcv[p].at \in Working
    BY <1>4 DEF RestoreOwn, Working
  <2>2. link[a] = "ready"
    BY <1>0, <1>s, <2>1 DEF RecoveryHopes
  <2>3. live' = live \cup {a} /\ Found(p, a)
    BY <1>4, <1>s, <2>2 DEF RestoreOwn, Fault
  <2>4. Healthy(a)'
    BY <2>1, <2>2, <2>3 DEF Healthy
  <2>5. QED
    BY <1>f, <2>1, <2>3, <2>4
<1>5. CASE Choose(p)
  <2>1. /\ UNCHANGED <<rec, live, link, req>> /\ rcv[p].at = "choose" /\ rec # {}
    BY <1>5, <1>r DEF Choose, Nodes
  <2>2. /\ \A r \in rec : r.owner = a /\ (a \in r.copies => link[a] # "ready")
        /\ rcv[p].tried = {a}
    BY <1>0, <1>s, <2>1 DEF RecoveryHopes
  <2>3. CASE \E r \in rec : {b \in r.copies \ rcv[p].tried : link[b] = "ready"} = {}
    BY <1>0, <2>1, <2>2, <2>3 DEF Hopeless
  <2>4. ASSUME NEW r \in rec, NEW b \in {b \in r.copies \ rcv[p].tried : link[b] = "ready"},
               rcv' = [rcv EXCEPT ![p].at = "import", ![p].tried = @ \cup {b},
                       ![p].next = [to |-> b, owner |-> r.owner, epoch |-> r.epoch]]
        PROVE  Hopes'
    <3>1. /\ \A q \in Procs : q # p => rcv'[q] = rcv[q]
          /\ rcv'[p].at = "import" /\ rcv'[p].source = a /\ rcv'[p].lost = rcv[p].lost
          /\ rcv'[p].next = [to |-> b, owner |-> r.owner, epoch |-> r.epoch]
      BY <1>0, <1>s, <2>4 DEF Recovery
    <3>2. b # a /\ link[b] = "ready"
      BY <2>2, <2>4
    <3>3. Gentle
      BY <2>1, GentleWhenRecordStays
    <3>4. Outdone(a)' /\ (link[a] = "ready" => rcv[p].lost)
      BY <1>o, <2>1, <3>3 DEF Gentle, Outdone, Working
    <3>5. \A s \in rec' : /\ rcv'[p].next.owner = s.owner /\ rcv'[p].next.epoch = s.epoch
                          /\ rcv'[p].next.to # a /\ link'[rcv'[p].next.to] = "ready"
      BY <1>0, <2>1, <3>1, <3>2
    <3>6. RecoveryHopes(p)'
      BY <2>1, <2>2, <3>1, <3>4, <3>5 DEF RecoveryHopes, Working
    <3>7. QED
      BY <2>1, <3>1, <3>3, <3>6, RecoveryMoves
  <2>5. QED
    BY <1>5, <2>1, <2>3, <2>4 DEF Choose
<1>6. CASE Import(p)
  <2> DEFINE n == rcv[p].next
  <2>1. /\ UNCHANGED <<rec, link, req>> /\ rcv[p].at = "import" /\ rec # {}
    BY <1>6, <1>r DEF Import
  <2>2. \A r \in rec : /\ r.owner = a /\ (a \in r.copies => link[a] # "ready")
                       /\ n.owner = r.owner /\ n.epoch = r.epoch
                       /\ n.to # a /\ link[n.to] = "ready"
    BY <1>0, <1>s, <2>1 DEF RecoveryHopes
  <2>3. live' = live \cup {n.to} /\ rcv' = At(p, "save")
    BY <1>6, <2>1, <2>2 DEF Import, Fault
  <2>4. /\ \A q \in Procs : q # p => rcv'[q] = rcv[q]
        /\ rcv'[p].at = "save" /\ rcv'[p].source = a /\ rcv'[p].lost = rcv[p].lost
        /\ rcv'[p].next = n
    BY <1>0, <1>s, <2>3 DEF At, Recovery
  <2> HIDE DEF n
  <2>5. Gentle
    BY <2>1, <2>3, GentleWhenRecordStays
  <2>6. Outdone(a)' /\ (link[a] = "ready" => rcv[p].lost)
    BY <1>o, <2>1, <2>5 DEF Gentle, Outdone, Working
  <2>7. PICK m : m = n
    OBVIOUS
  <2>8. RecoveryHopes(p)'
    BY <2>1, <2>2, <2>3, <2>4, <2>6, <2>7 DEF RecoveryHopes, Working
  <2>9. QED
    BY <2>1, <2>4, <2>5, <2>8, RecoveryMoves
<1>7. CASE Save(p)
  <2>1. /\ UNCHANGED <<live, link, req>> /\ rcv[p].at = "save" /\ rec # {}
        /\ rec' = Moved(rcv[p].next) /\ rcv' = At(p, "commit")
    BY <1>7, <1>r DEF Save, Fault, Nodes
  <2>2. PICK b \in Agents : b = rcv[p].next.to
    BY <1>0 DEF Recovery, Takeover
  <2>3. /\ \A r \in rec : /\ rcv[p].next.owner = r.owner /\ rcv[p].next.epoch = r.epoch
                         /\ r.owner = a
        /\ b # a /\ link[b] = "ready" /\ b \in live
    BY <1>0, <1>s, <2>1, <2>2 DEF RecoveryHopes
  <2>4. rec' # {} /\ \A r \in rec' : r.owner = b
    <3>0. rcv[p].next.to # rcv[p].next.owner \/ rec = {}
      BY <2>1, <2>2, <2>3
    <3>1. \A r \in rec : [owner |-> rcv[p].next.to, epoch |-> r.epoch + 1,
                           copies |-> r.copies] \in rec'
      BY <2>1, <2>3, <3>0 DEF Moved
    <3>2. ASSUME NEW r \in rec' PROVE r.owner = b
      <4>1. PICK s \in rec : r = [owner |-> rcv[p].next.to, epoch |-> s.epoch + 1,
                                  copies |-> s.copies]
        BY <2>1, <2>3, <3>0 DEF Moved
      <4>2. QED
        BY <2>2, <4>1
    <3>3. QED
      BY <2>1, <3>1, <3>2
  <2>5. /\ \A q \in Procs : q # p => rcv'[q] = rcv[q]
        /\ rcv'[p].at = "commit" /\ rcv'[p].source = a /\ rcv'[p].lost = rcv[p].lost
    BY <1>0, <1>s, <2>1 DEF At, Recovery
  <2>6. OwnerHealthy' /\ a \notin Owner'
    BY <2>1, <2>3, <2>4 DEF OwnerHealthy, Healthy, Owner
  <2>7. \A c \in Agents : Outdone(c)'
    BY <2>4, <2>6 DEF Outdone
  <2>8. Gentle
    BY <2>1, <2>4, <2>7 DEF Gentle
  <2>9. link[a] = "ready" => rcv[p].lost
    BY <1>o, <2>1 DEF Working
  <2>10. RecoveryHopes(p)'
    BY <2>1, <2>4, <2>5, <2>6, <2>7, <2>9 DEF RecoveryHopes, Working
  <2>11. lock = p
    BY <2>1 DEF LockHeld, Working
  <2>12. QED
    BY <2>1, <2>5, <2>8, <2>10, <2>11, RecoveryMoves
<1>8. CASE Commit(p)
  <2>1. /\ UNCHANGED <<rec, live, link, req>> /\ rcv[p].at = "commit" /\ rec # {}
        /\ rcv[p].at \in Working
    BY <1>8, <1>r DEF Commit, Nodes, Working
  <2>2. a \notin Owner /\ OwnerHealthy
    BY <1>0, <1>s, <1>o, <2>1 DEF RecoveryHopes, Outdone
  <2>3. PICK r \in rec : Found(p, r.owner)
    BY <1>8, <1>s, <2>1, <2>2 DEF Commit, Owner
  <2>4. Healthy(r.owner)' /\ r.owner \in Agents
    BY <2>1, <2>2 DEF OwnerHealthy, Healthy, TypeOK, Record
  <2>5. QED
    BY <1>f, <2>1, <2>3, <2>4
<1>9. CASE Settle(p)
  <2>1. /\ UNCHANGED <<rec, live, link>> /\ rcv[p].at = "settle" /\ rec # {}
        /\ req' = [w \in Requests |->
              IF req[w].proc = p THEN Resumed(req[w], rcv[p]) ELSE req[w]]
        /\ rcv' = [rcv EXCEPT ![p] = NoRecovery]
    BY <1>9, <1>r DEF Settle, Nodes
  <2>2. PICK b \in Agents : b = rcv[p].result /\ b # "none" /\ Healthy(b)
    BY <1>0, <2>1 DEF RecoveryHopes, Recovery
  <2>3. Gentle
    BY <2>1, GentleWhenRecordStays
  <2>4. /\ \A q \in Procs : q # p => rcv'[q] = rcv[q]
        /\ rcv'[p].at = "none"
    BY <1>0, <2>1 DEF NoRecovery
  <2>5. RecoveryHopes(p)'
    BY <2>4 DEF RecoveryHopes, Working
  <2>6. ASSUME NEW w \in Requests
        PROVE  req'[w] = req[w] \/ RequestHopes(w)'
    <3>0. req[w] \in Request /\ RequestHopes(w)
      BY DEF TypeOK, Hopes
    <3>1. CASE req[w].proc = p /\ req[w].at = "await"
      <4>1. req'[w] = [req[w] EXCEPT !.at = "call", !.to = b]
        BY <2>1, <2>2, <3>1 DEF Resumed
      <4>2. /\ req'[w].at = "call" /\ req'[w].to = b /\ req'[w].had = req[w].had
            /\ req'[w].owner = req[w].owner
        BY <3>0, <4>1 DEF Request
      <4>3. PICK c \in Agents : c = req[w].owner
        BY <3>0 DEF Request
      <4>4. req[w].had /\ Outdone(c)' /\ Healthy(b)'
        BY <2>1, <2>2, <2>3, <3>0, <3>1, <4>3 DEF RequestHopes, Gentle, Outdone, Healthy
      <4>5. QED
        BY <4>2, <4>3, <4>4 DEF RequestHopes
    <3>2. CASE req[w].proc = p /\ req[w].at = "join"
      <4>1. req'[w] = [req[w] EXCEPT !.at = "retry", !.to = b]
        BY <2>1, <2>2, <3>2 DEF Resumed
      <4>2. req'[w].at = "retry" /\ req'[w].to = b
        BY <3>0, <4>1 DEF Request
      <4>3. Healthy(b)'
        BY <2>1, <2>2 DEF Healthy
      <4>4. QED
        BY <2>1, <4>2, <4>3 DEF RequestHopes
    <3>3. CASE ~(req[w].proc = p /\ req[w].at \in {"await", "join"})
      BY <2>1, <3>3 DEF Resumed
    <3>4. QED
      BY <3>1, <3>2, <3>3
  <2>7. QED
    BY <1>0, <2>1, <2>3, <2>4, <2>5, <2>6, HopesKept
<1>10. QED
  BY <1>1, <1>2, <1>3, <1>4, <1>5, <1>6, <1>7, <1>8, <1>9 DEF RecoveryStep

\* An answer is there only when the request is done.
LEMMA AnswersNext == TypeOK /\ AnswersAreDone /\ [Next]_vars => AnswersAreDone'
<1> SUFFICES ASSUME TypeOK, AnswersAreDone, [Next]_vars PROVE AnswersAreDone'
  OBVIOUS
<1>0. req \in [Requests -> Request]
  BY DEF TypeOK
<1>1. CASE req' = req
  BY <1>1 DEF AnswersAreDone
<1>n. /\ NoRequest.answer = "none"
      /\ \A at : [NoRequest EXCEPT !.at = at].answer = "none"
      /\ \A at, p : [NoRequest EXCEPT !.at = at, !.proc = p].answer = "none"
      /\ \A a : [NoRequest EXCEPT !.at = "done", !.answer = a].at = "done"
  BY DEF NoRequest
<1>2. ASSUME NEW w \in Requests, \A x \in Requests : x # w => req'[x] = req[x],
             req'[w].answer = "none" \/ req'[w].at = "done"
      PROVE  AnswersAreDone'
  BY <1>2 DEF AnswersAreDone
<1>a. ASSUME NEW w \in Requests, NEW a, Answer(w, a) PROVE AnswersAreDone'
  <2>1. req'[w].at = "done" /\ \A x \in Requests : x # w => req'[x] = req[x]
    BY <1>0, <1>a, <1>n DEF Answer
  <2>2. QED
    BY <1>2, <2>1
<1>b. ASSUME NEW w \in Requests, NEW at, NEW e, req[w].at # "done",
             \/ req' = [req EXCEPT ![w].at = at]
             \/ req' = [req EXCEPT ![w].at = at, ![w].error = e]
      PROVE  AnswersAreDone'
  <2>1. req[w].answer = "none" /\ req[w] \in Request
    BY <1>0, <1>b DEF AnswersAreDone
  <2>2. req'[w].answer = "none" /\ \A x \in Requests : x # w => req'[x] = req[x]
    BY <1>0, <1>b, <2>1 DEF Request
  <2>3. QED
    BY <1>2, <2>2
<1>r. ASSUME NEW w \in Requests, NEW lost, Recover(w, lost) PROVE AnswersAreDone'
  <2>1. CASE Answer(w, "error")
    BY <1>a, <2>1
  <2>2. CASE req' = [req EXCEPT ![w] = [NoRequest EXCEPT !.at = "join", !.proc = req[w].proc]]
    <3>1. req'[w].answer = "none" /\ \A x \in Requests : x # w => req'[x] = req[x]
      BY <1>0, <1>n, <2>2
    <3>2. QED
      BY <1>2, <3>1
  <2>3. QED
    BY <1>r, <2>1, <2>2 DEF Recover
<1>3. ASSUME NEW w \in Requests, RequestStep(w) PROVE AnswersAreDone'
  <2>1. CASE Served(w) \/ Delete(w)
    BY <1>a, <2>1 DEF Served, Delete
  <2>2. CASE Unserved(w)
    <3>1. PICK e : Fail(w, e)
      BY <2>2 DEF Unserved
    <3>2. CASE Answer(w, "error")
      BY <1>a, <3>2
    <3>3. CASE req[w].at = "call" /\ req' = [req EXCEPT ![w].at = "caught", ![w].error = e]
      BY <1>b, <3>3
    <3>4. QED
      BY <3>1, <3>2, <3>3 DEF Fail
  <2>3. CASE Catch(w) \/ Probe(w)
    <3>1. CASE req[w].at = "caught" /\ req' = [req EXCEPT ![w].at = "probe"]
      BY <1>b, <3>1
    <3>2. CASE Answer(w, "error") \/ \E lost : Recover(w, lost)
      BY <1>a, <1>r, <3>2
    <3>3. QED
      BY <2>3, <3>1, <3>2 DEF Catch, Probe
  <2>4. CASE LogoutAtNode(w)
    BY <1>b, <2>4 DEF LogoutAtNode
  <2>5. QED
    BY <1>3, <2>1, <2>2, <2>3, <2>4 DEF RequestStep
<1>4. ASSUME NEW w \in Requests, Return(w) PROVE AnswersAreDone'
  <2>1. req'[w] = NoRequest /\ \A x \in Requests : x # w => req'[x] = req[x]
    BY <1>0, <1>4 DEF Return
  <2>2. QED
    BY <1>2, <1>n, <2>1
<1>5. ASSUME NEW w \in Requests, NEW p \in Procs, Load(w, p) \/ Logout(w, p)
      PROVE  AnswersAreDone'
  <2>1. \A x \in Requests : x # w => req'[x] = req[x]
    BY <1>0, <1>5 DEF Load, Logout
  <2>2. Load(w, p) => req'[w].answer = "none"
    BY <1>0 DEF Load
  <2>3. Logout(w, p) => req'[w].answer = "none"
    BY <1>0 DEF Logout, NoRequest
  <2>4. QED
    BY <1>2, <1>5, <2>1, <2>2, <2>3
<1>6. ASSUME NEW p \in Procs, Settle(p) PROVE AnswersAreDone'
  <2>1. SUFFICES ASSUME NEW w \in Requests
                 PROVE  req'[w].answer # "none" => req'[w].at = "done"
    BY DEF AnswersAreDone
  <2>2. req'[w] = req[w] \/ req'[w] = Resumed(req[w], rcv[p])
    BY <1>6 DEF Settle
  <2>3. req[w] \in Request /\ (req[w].answer # "none" => req[w].at = "done")
    BY <1>0 DEF AnswersAreDone
  <2>4. Resumed(req[w], rcv[p]).answer # "none" => Resumed(req[w], rcv[p]).at = "done"
    BY <1>n, <2>3 DEF Resumed, Request
  <2>5. QED
    BY <2>2, <2>3, <2>4
<1>7. ASSUME NEW p \in Procs, Crash(p) PROVE AnswersAreDone'
  BY <1>7, <1>n DEF Crash, AnswersAreDone
<1>8. CASE UNCHANGED vars
  BY <1>1, <1>8 DEF vars
<1>9. ASSUME NEW p \in Procs, RecoveryStep(p), ~Settle(p) PROVE req' = req
  BY <1>9 DEF RecoveryStep, Acquire, GiveUp, Reload, RestoreOwn, Choose, Import, Save, Commit
<1>10. ASSUME \/ Expire
              \/ \E t \in late : LateSave(t)
              \/ \E a \in Agents : Forget(a) \/ Disconnect(a) \/ Reconnect(a)
       PROVE  req' = req
  BY <1>10 DEF Expire, LateSave, Forget, Disconnect, Reconnect
<1>11. QED
  BY <1>1, <1>3, <1>4, <1>5, <1>6, <1>7, <1>8, <1>9, <1>10 DEF Next

\* The steps that leave no trouble behind.
LEMMA QuietSteps ==
  ASSUME Next, calm', calm => NoLogouts
  PROVE  \/ \E w \in Requests, p \in Procs : Load(w, p)
         \/ calm /\ \E w \in Requests : RequestStep(w) \/ Return(w)
         \/ calm /\ \E p \in Procs : RecoveryStep(p)
         \/ calm /\ UNCHANGED <<rec, live, link, rcv, req, late>>
<1>1. ASSUME NEW w \in Requests, RequestStep(w) \/ Return(w) PROVE calm
  BY <1>1 DEF RequestStep, Return, Served, Unserved, Catch, Probe, LogoutAtNode, Delete,
              Smooth, Fault
<1>2. ASSUME NEW p \in Procs, RecoveryStep(p) PROVE calm
  BY <1>2 DEF RecoveryStep, Acquire, GiveUp, Reload, RestoreOwn, Choose, Import, Save,
              Commit, Settle, Smooth, Fault
<1>3. ASSUME NEW w \in Requests, NEW p \in Procs, Logout(w, p) PROVE FALSE
  BY <1>3 DEF Logout
<1>4. ASSUME NEW p \in Procs, Crash(p) PROVE FALSE
  BY <1>4 DEF Crash, Fault
<1>5. ASSUME NEW a \in Agents, Forget(a) \/ Disconnect(a) \/ Reconnect(a) PROVE FALSE
  BY <1>5 DEF Forget, Disconnect, Reconnect, Fault
<1>6. ASSUME NEW t \in late, LateSave(t) PROVE FALSE
  BY <1>6 DEF LateSave, Smooth, NoLogouts
<1>7. CASE Expire
  BY <1>7 DEF Expire, Smooth, Nodes
<1>8. QED
  BY <1>1, <1>2, <1>3, <1>4, <1>5, <1>6, <1>7 DEF Next

\* Who finds no copy in reach, finds none later.
LEMMA HopelessKept ==
  ASSUME Hopeless, NoLogouts, calm',
         \/ \E w \in Requests : RequestStep(w) \/ Return(w)
         \/ \E p \in Procs : RecoveryStep(p)
  PROVE  Hopeless'
<1>1. link' = link
  BY DEF RequestStep, Return, Served, Unserved, Catch, Probe, LogoutAtNode, Delete,
         RecoveryStep, Acquire, GiveUp, Reload, RestoreOwn, Choose, Import, Save,
         Commit, Settle, Nodes
<1>2. rec' = rec \/ \E p \in Procs : rec' = Moved(rcv[p].next)
  <2>1. ASSUME NEW w \in Requests, RequestStep(w) \/ Return(w) PROVE rec' = rec
    BY <2>1 DEF RequestStep, Return, Served, Unserved, Catch, Probe, LogoutAtNode, Delete,
                Refreshed, Hopeless, NoLogouts
  <2>2. ASSUME NEW p \in Procs, RecoveryStep(p) PROVE rec' = rec \/ rec' = Moved(rcv[p].next)
    BY <2>2 DEF RecoveryStep, Acquire, GiveUp, Reload, RestoreOwn, Choose, Import, Save,
                Commit, Settle
  <2>3. QED
    BY <2>1, <2>2
<1>3. CASE rec' = rec
  BY <1>1, <1>3 DEF Hopeless
<1>4. ASSUME NEW p \in Procs, rec' = Moved(rcv[p].next) PROVE Hopeless'
  <2>1. ASSUME NEW r \in rec
        PROVE  \E s \in rec' : s.copies = r.copies
    <3>1. CASE r.owner = rcv[p].next.owner /\ r.epoch = rcv[p].next.epoch
      <4>1. [owner |-> rcv[p].next.to,
             epoch |-> IF r.owner = rcv[p].next.to THEN r.epoch ELSE r.epoch + 1,
             copies |-> r.copies] \in rec'
        BY <1>4, <3>1 DEF Moved
      <4>2. QED
        BY <4>1
    <3>2. CASE ~(r.owner = rcv[p].next.owner /\ r.epoch = rcv[p].next.epoch)
      BY <1>4, <3>2 DEF Moved
    <3>3. QED
      BY <3>1, <3>2
  <2>2. ASSUME NEW s \in rec'
        PROVE  \E r \in rec : s.copies = r.copies
    BY <1>4 DEF Moved
  <2>3. QED
    BY <1>1, <2>1, <2>2 DEF Hopeless
<1>5. QED
  BY <1>2, <1>3, <1>4

LEMMA NoLogoutsKept ==
  ASSUME TypeOK, NoLogouts, calm',
         \/ \E w \in Requests : RequestStep(w) \/ Return(w)
         \/ \E p \in Procs : RecoveryStep(p)
  PROVE  NoLogouts'
<1>0. req \in [Requests -> Request]
  BY DEF TypeOK
<1>n. /\ NoRequest.at = "idle" /\ \A at : [NoRequest EXCEPT !.at = at].at = at
      /\ \A at, p : [NoRequest EXCEPT !.at = at, !.proc = p].at = at
      /\ \A at, a : [NoRequest EXCEPT !.at = at, !.answer = a].at = at
  BY DEF NoRequest
<1>1. late' = {}
  BY DEF RequestStep, Return, Served, Unserved, Catch, Probe, LogoutAtNode, Delete,
         RecoveryStep, Acquire, GiveUp, Reload, RestoreOwn, Choose, Import, Save,
         Commit, Settle, Fault, NoLogouts
<1>2. ASSUME NEW w \in Requests, RequestStep(w) \/ Return(w), NEW x \in Requests
      PROVE  req'[x].at \in {req[x].at, "done", "caught", "probe", "join", "idle"}
  <2>1. ASSUME NEW a, Answer(w, a)
        PROVE  req'[x].at \in {req[x].at, "done"}
    BY <1>0, <1>n, <2>1 DEF Answer
  <2>2. ASSUME NEW lost, Recover(w, lost)
        PROVE  req'[x].at \in {req[x].at, "done", "join"}
    <3>1. CASE Answer(w, "error")
      BY <2>1, <3>1
    <3>2. CASE req' = [req EXCEPT ![w] = [NoRequest EXCEPT !.at = "join", !.proc = req[w].proc]]
      <4>1. [NoRequest EXCEPT !.at = "join", !.proc = req[w].proc].at = "join"
        BY <1>n
      <4>2. QED
        BY <1>0, <3>2, <4>1
    <3>3. QED
      BY <2>2, <3>1, <3>2 DEF Recover
  <2>3. ASSUME NEW e, Fail(w, e)
        PROVE  req'[x].at \in {req[x].at, "done", "caught"}
    BY <1>0, <2>1, <2>3 DEF Fail, Request
  <2>4. req[w].at \notin {"logout", "delete"}
    BY DEF NoLogouts
  <2>5. CASE Served(w)
    BY <2>1, <2>5 DEF Served
  <2>6. CASE Unserved(w)
    BY <2>3, <2>6 DEF Unserved
  <2>7. CASE Catch(w) \/ Probe(w)
    <3>1. CASE req' = [req EXCEPT ![w].at = "probe"]
      BY <1>0, <3>1 DEF Request
    <3>2. CASE Answer(w, "error") \/ \E lost : Recover(w, lost)
      BY <2>1, <2>2, <3>2
    <3>3. QED
      BY <2>7, <3>1, <3>2 DEF Catch, Probe
  <2>8. CASE Return(w)
    BY <1>0, <1>n, <2>8 DEF Return
  <2>9. QED
    BY <1>2, <2>4, <2>5, <2>6, <2>7, <2>8 DEF RequestStep, LogoutAtNode, Delete
<1>3. ASSUME NEW p \in Procs, RecoveryStep(p), NEW x \in Requests
      PROVE  req'[x].at \in {req[x].at, "call", "caught", "retry", "done"}
  <2>1. CASE Settle(p)
    <3>1. req[x] \in Request
      BY <1>0
    <3>2. Resumed(req[x], rcv[p]).at \in {req[x].at, "call", "caught", "retry", "done"}
      BY <1>n, <3>1 DEF Resumed, Request
    <3>3. QED
      BY <2>1, <3>2 DEF Settle
  <2>2. CASE ~Settle(p)
    <3>1. req' = req
      BY <1>3, <2>2 DEF RecoveryStep, Acquire, GiveUp, Reload, RestoreOwn, Choose, Import,
                        Save, Commit
    <3>2. QED
      BY <3>1
  <2>3. QED
    BY <2>1, <2>2
<1>4. QED
  BY <1>1, <1>2, <1>3 DEF NoLogouts

LEMMA QuietInit == Init => QuietInv
<1> SUFFICES ASSUME Init PROVE QuietInv
  OBVIOUS
<1>1. late = {} /\ \A w \in Requests : req[w].at = "idle" /\ req[w].answer = "none"
  BY DEF Init, NoRequest
<1>2. \A p \in Procs : rcv[p].at = "none"
  BY DEF Init, NoRecovery
<1>3. AnswersAreDone /\ NoLogouts
  BY <1>1 DEF AnswersAreDone, NoLogouts
<1>4. Hopes
  BY <1>1, <1>2 DEF Hopes, RequestHopes, RecoveryHopes, Working
<1>5. QED
  BY <1>3, <1>4 DEF QuietInv

LEMMA QuietNext == GivenUpInv /\ QuietInv /\ [Next]_vars => QuietInv'
<1> SUFFICES ASSUME GivenUpInv, QuietInv, [Next]_vars PROVE QuietInv'
  OBVIOUS
<1>0. TypeOK /\ LockHeld /\ AnswersAreDone /\ AnswersAreDone'
  BY AnswersNext DEF GivenUpInv, QuietInv
<1>1. SUFFICES ASSUME calm' PROVE NoLogouts' /\ (Hopeless' \/ Hopes')
  BY <1>0 DEF QuietInv
<1>2. calm => NoLogouts /\ (Hopeless \/ Hopes)
  BY DEF QuietInv
<1>3. CASE calm /\ UNCHANGED <<rec, live, link, rcv, req, late>>
  <2>1. NoLogouts' /\ (Hopeless => Hopeless')
    BY <1>2, <1>3 DEF NoLogouts, Hopeless
  <2>2. Hopes => Hopes'
    BY <1>0, <1>3, GentleWhenRecordStays, HopesKept
  <2>3. QED
    BY <1>2, <1>3, <2>1, <2>2
<1>4. CASE UNCHANGED vars
  BY <1>1, <1>3, <1>4 DEF vars
<1>5. CASE Next
  <2>1. CASE \E w \in Requests, p \in Procs : Load(w, p)
    BY <1>0, <1>1, <1>2, <2>1, LoadHopes
  <2>2. CASE calm /\ \E w \in Requests : RequestStep(w) \/ Return(w)
    BY <1>0, <1>1, <1>2, <2>2, HopelessKept, NoLogoutsKept, RequestsHope
  <2>3. CASE calm /\ \E p \in Procs : RecoveryStep(p)
    BY <1>0, <1>1, <1>2, <2>3, HopelessKept, NoLogoutsKept, RecoveriesHope
  <2>4. QED
    BY <1>1, <1>2, <1>3, <1>5, <2>1, <2>2, <2>3, QuietSteps
<1>6. QED
  BY <1>4, <1>5

\* A request that fails without trouble finds no copy in reach.
LEMMA QuietFailure ==
  ASSUME GivenUpInv, QuietInv, Next, calm', NEW w \in Requests,
         req[w].at # "done", req'[w].answer = "error"
  PROVE  \A r \in rec : \A a \in r.copies : link[a] # "ready"
<1>0. /\ TypeOK /\ req[w].answer = "none" /\ req[w] \in Request
      /\ calm => NoLogouts /\ (Hopeless \/ Hopes)
  BY DEF QuietInv, AnswersAreDone, GivenUpInv, TypeOK
<1>n. NoRequest.answer = "none"
  BY DEF NoRequest
<1>1. ASSUME NEW x \in Requests, NEW p \in Procs, Load(x, p) PROVE FALSE
  BY <1>0, <1>1 DEF Load, TypeOK
<1>2. SUFFICES ASSUME calm, Hopes, NoLogouts PROVE rec = {}
  BY <1>0, <1>1, QuietSteps DEF Hopeless
<1>3. RequestHopes(w)
  BY <1>2 DEF Hopes
<1>4. ASSUME NEW x \in Requests, RequestStep(x) \/ Return(x) PROVE rec = {}
  <2>1. \A y \in Requests : y # x => req'[y] = req[y]
    BY <1>0, <1>4 DEF RequestStep, Return, Served, Unserved, Catch, Probe, LogoutAtNode,
                      Delete, Answer, Fail, Recover, TypeOK
  <2>2. x = w
    BY <1>0, <2>1
  <2>3. CASE Served(w) \/ Delete(w) \/ Return(w)
    BY <1>0, <1>n, <2>3 DEF Served, Delete, Return, Answer, TypeOK, NoRequest
  <2>4. CASE Unserved(w)
    <3>1. req[w].at \in {"call", "retry"} /\ Fails(req[w].to) # "none"
          /\ Fail(w, Fails(req[w].to))
      BY <1>2, <2>4 DEF Unserved, Fault
    <3>2. req[w].at = "call"
      BY <1>0, <1>3, <3>1, FailsReasons DEF RequestHopes, Request
    <3>3. req'[w] = [req[w] EXCEPT !.at = "caught", !.error = Fails(req[w].to)]
      BY <1>0, <3>1, <3>2 DEF Fail, TypeOK
    <3>4. QED
      BY <1>0, <3>3 DEF Request
  <2>5. CASE Catch(w)
    <3>1. req[w].at = "caught" /\ Recover(w, req[w].error = "missing")
      BY <1>3, <2>5 DEF Catch, RequestHopes
    <3>2. CASE req[w].had
      BY <1>0, <3>1, <3>2 DEF Recover, TypeOK, NoRequest
    <3>3. CASE ~req[w].had
      BY <1>3, <3>1, <3>3 DEF RequestHopes
    <3>4. QED
      BY <3>2, <3>3
  <2>6. CASE Probe(w) \/ LogoutAtNode(w)
    BY <1>2, <1>3, <2>6 DEF Probe, LogoutAtNode, RequestHopes, NoLogouts
  <2>7. QED
    BY <1>4, <2>2, <2>3, <2>4, <2>5, <2>6 DEF RequestStep
<1>5. ASSUME NEW p \in Procs, RecoveryStep(p) PROVE FALSE
  <2>1. CASE Settle(p)
    <3>1. rcv[p].result # "none"
      BY <1>2, <2>1 DEF Settle, Hopes, RecoveryHopes
    <3>2. req'[w] = req[w] \/ req'[w] = Resumed(req[w], rcv[p])
      BY <2>1 DEF Settle
    <3>3. Resumed(req[w], rcv[p]).answer = "none"
      BY <1>0, <3>1 DEF Resumed, Request
    <3>4. QED
      BY <1>0, <3>2, <3>3
  <2>2. CASE ~Settle(p)
    <3>1. req' = req
      BY <1>5, <2>2 DEF RecoveryStep, Acquire, GiveUp, Reload, RestoreOwn, Choose, Import,
                        Save, Commit
    <3>2. QED
      BY <1>0, <3>1
  <2>3. QED
    BY <2>1, <2>2
<1>6. CASE UNCHANGED <<rec, live, link, rcv, req, late>>
  BY <1>0, <1>6
<1>7. QED
  BY <1>0, <1>1, <1>2, <1>4, <1>5, <1>6, QuietSteps

\* While nothing new goes wrong, every request finds its session however many come
\* at once and to whichever processes, unless no node in reach has a copy.
THEOREM QuietRequestsFindTheirSession == Spec => QuietLossIsRecovered
<1>1. Init => GivenUpInv /\ QuietInv
  BY GivenUpInit, QuietInit
<1>2. GivenUpInv /\ QuietInv /\ [Next]_vars => (GivenUpInv /\ QuietInv)'
  BY GivenUpNext, QuietNext
<1>3. GivenUpInv /\ QuietInv /\ [Next]_vars
        => [\A w \in Requests :
              calm' /\ req[w].at # "done" /\ req'[w].answer = "error"
                => \A r \in rec : \A a \in r.copies : link[a] # "ready"]_vars
  BY QuietFailure
<1>4. QED
  BY <1>1, <1>2, <1>3, PTL DEF Spec, QuietLossIsRecovered

===============================================================================
