-------------------------- MODULE BrowserSessionProof --------------------------
(***************************************************************************)
(* Proofs about BrowserSession, for any number of requests and processes.  *)
(***************************************************************************)
EXTENDS BrowserSession, TLAPS

LEMMA TypeInit == Init => TypeOK
BY RequestAssumption DEF Init, TypeOK, StoreTypeOK, Request

LEMMA GotoType ==
  ASSUME TypeOK, NEW w \in Requests, NEW at \in Stages
  PROVE  /\ Goto(w, at) => req' \in [Requests -> Request]
         /\ \A a \in {"none", "valid", "signedOut", "unavailable"} :
              Answer(w, at, a) => req' \in [Requests -> Request]
<1>1. req[w] \in Request /\ FirstStep(at) \in {"redis", "db", "repair"}
  BY DEF TypeOK, FirstStep
<1>2. Goto(w, at) => req' \in [Requests -> Request]
  <2>1. [req[w] EXCEPT !.at = at, !.step = FirstStep(at)] \in Request
    BY <1>1 DEF Request
  <2> QED BY <2>1 DEF Goto, TypeOK
<1>3. ASSUME NEW a \in {"none", "valid", "signedOut", "unavailable"}, Answer(w, at, a)
      PROVE  req' \in [Requests -> Request]
  <2>1. [req[w] EXCEPT !.at = at, !.step = FirstStep(at), !.answer = a] \in Request
    BY <1>1 DEF Request
  <2> QED BY <1>3, <2>1 DEF Answer, TypeOK
<1> QED BY <1>2, <1>3

LEMMA ReturnType ==
  ASSUME TypeOK, NEW w \in Requests
  PROVE  /\ Present(w) => req' \in [Requests -> Request]
         /\ \A c \in BOOLEAN : Missing(w, c) => req' \in [Requests -> Request]
         /\ Written(w) => req' \in [Requests -> Request] /\ UNCHANGED logout
         /\ Deleted(w) => /\ req' \in [Requests -> Request]
                          /\ logout' \in {"none", "begun", "done"}
<1>1. Present(w) => req' \in [Requests -> Request]
  BY GotoType DEF Present, Stages
<1>2. \A c \in BOOLEAN : Missing(w, c) => req' \in [Requests -> Request]
  BY GotoType DEF Missing, Stages
<1>3. Written(w) => req' \in [Requests -> Request] /\ UNCHANGED logout
  BY GotoType DEF Written, Stages
<1>4. Deleted(w) => /\ req' \in [Requests -> Request]
                    /\ logout' \in {"none", "begun", "done"}
  BY GotoType DEF Deleted, Stages, TypeOK
<1> QED BY <1>1, <1>2, <1>3, <1>4

LEMMA KeyType == \A at \in Stages : Key(at) \in Keys
BY RequestAssumption DEF Key

LEMMA TypeNext == TypeOK /\ [Next]_vars => TypeOK'
<1> SUFFICES ASSUME TypeOK, [Next]_vars PROVE TypeOK'
  OBVIOUS
<1>0. ASSUME NEW w \in Requests
      PROVE  /\ req[w].at \in Stages /\ req[w].proc \in Procs
             /\ Key(req[w].at) \in Keys /\ req[w].durable \in BOOLEAN
  BY KeyType DEF TypeOK, Request
<1>f. UNCHANGED failing
  BY DEF Next, vars
<1>1. ASSUME NEW w \in Requests, NEW p \in Procs, Load(w, p) PROVE TypeOK'
  <2>1. [req[w] EXCEPT !.at = "load", !.step = "redis", !.proc = p, !.answer = "none"]
          \in Request
    <3>1. req[w] \in Request /\ "load" \in Stages
      BY DEF TypeOK, Stages
    <3> QED BY <3>1 DEF Request
  <2>2. req' \in [Requests -> Request]
    BY <1>1, <2>1 DEF Load, TypeOK
  <2> QED BY <1>f, <1>1, <2>2 DEF Load, TypeOK, StoreTypeOK
<1>2. ASSUME NEW w \in Requests, Hold(w) \/ Finish(w) \/ Update(w) \/ Revoke(w)
      PROVE  TypeOK'
  <2>1. req' \in [Requests -> Request]
    BY <1>2, GotoType DEF Hold, Finish, Update, Revoke, Stages
  <2> QED BY <1>f, <1>2, <2>1 DEF Hold, Finish, Update, Revoke, TypeOK, StoreTypeOK
<1>3. ASSUME NEW w \in Requests, NEW r \in {"hit", "miss", "down"}, RedisAnswers(w, r)
      PROVE  TypeOK'
  <2>1. req' \in [Requests -> Request]
    <3>1. CASE r = "hit" /\ Present(w)
      BY <3>1, ReturnType
    <3>2. CASE Missing(w, FALSE)
      BY <3>2, ReturnType
    <3>3. CASE req' = [req EXCEPT ![w].step = "db", ![w].up = (r = "miss")]
      <4>1. [req[w] EXCEPT !.step = "db", !.up = (r = "miss")] \in Request
        <5>1. req[w] \in Request /\ (r = "miss") \in BOOLEAN
          BY DEF TypeOK
        <5> QED BY <5>1 DEF Request
      <4> QED BY <3>3, <4>1 DEF TypeOK
    <3> QED BY <1>3, <3>1, <3>2, <3>3 DEF RedisAnswers
  <2> QED BY <1>f, <1>3, <2>1 DEF RedisAnswers, ReadRedis, store, TypeOK, StoreTypeOK
<1>4. ASSUME NEW w \in Requests, NEW r \in {"found", "absent", "unknown"}, DbAnswers(w, r)
      PROVE  TypeOK'
  <2>1. req' \in [Requests -> Request]
    <3>1. CASE Present(w)
      BY <3>1, ReturnType
    <3>2. CASE Missing(w, r = "absent")
      BY <3>2, ReturnType
    <3>3. CASE req' = [req EXCEPT ![w].step = "repair"]
      BY <3>3 DEF TypeOK, Request
    <3> QED BY <1>4, <3>1, <3>2, <3>3 DEF DbAnswers
  <2> QED BY <1>f, <1>4, <2>1 DEF DbAnswers, ReadDb, store, TypeOK, StoreTypeOK
<1>5. ASSUME NEW w \in Requests, Repairs(w) PROVE TypeOK'
  <2>1. req' \in [Requests -> Request]
    BY <1>5, ReturnType DEF Repairs
  <2> QED BY <1>f, <1>0, <1>5, <2>1 DEF Repairs, Repair, TypeOK, StoreTypeOK
<1>6. ASSUME NEW w \in Requests, NEW durable \in BOOLEAN, WritesDb(w, durable)
      PROVE  TypeOK'
  <2>1. req' \in [Requests -> Request]
    BY <1>6 DEF WritesDb, TypeOK, Request
  <2> QED BY <1>f, <1>0, <1>6, <2>1 DEF WritesDb, SetDb, TypeOK, StoreTypeOK
<1>7. ASSUME NEW w \in Requests, WritesRedis(w) PROVE TypeOK'
  <2>1. req' \in [Requests -> Request] /\ UNCHANGED logout
    BY <1>7, ReturnType DEF WritesRedis
  <2>2. redis' \in [Keys -> {"none", "hot", "full"}] /\ UNCHANGED db
    BY <1>7 DEF WritesRedis, SetRedis, TypeOK, StoreTypeOK
  <2>3. local' \in [Procs -> SUBSET Keys]
    BY <1>0, <1>7 DEF WritesRedis, SetRedis, TypeOK, StoreTypeOK
  <2> QED BY <1>f, <2>1, <2>2, <2>3 DEF TypeOK, StoreTypeOK
<1>8. ASSUME NEW w \in Requests, DeletesRedis(w) PROVE TypeOK'
  <2>1. req' \in [Requests -> Request]
    BY <1>8 DEF DeletesRedis, TypeOK, Request
  <2> QED BY <1>f, <1>8, <2>1 DEF DeletesRedis, DeleteRedis, TypeOK, StoreTypeOK
<1>9. ASSUME NEW w \in Requests, DeletesDb(w) PROVE TypeOK'
  <2>1. req' \in [Requests -> Request] /\ logout' \in {"none", "begun", "done"}
    BY <1>9, ReturnType DEF DeletesDb
  <2> QED BY <1>f, <1>9, <2>1 DEF DeletesDb, DeleteDb, TypeOK, StoreTypeOK
<1>10. ASSUME NEW k \in Keys, Expires(k) PROVE TypeOK'
  BY <1>f, <1>10 DEF Expires, HotCopyExpires, TypeOK, StoreTypeOK
<1>11. CASE UNCHANGED vars
  BY <1>11 DEF vars, TypeOK, StoreTypeOK
<1> QED BY <1>1, <1>2, <1>3, <1>4, <1>5, <1>6, <1>7, <1>8, <1>9, <1>10, <1>11 DEF Next, Step

\* Every variable has values of its type in every reachable state.
THEOREM TypeCorrect == Spec => []TypeOK
BY TypeInit, TypeNext, PTL DEF Spec

-------------------------------------------------------------------------------
(* HotCopyIsBacked.  Until a logout begins nobody writes a revocation mark, so *)
(* no request is on its way to delete the session, and a step that will put a *)
(* seven-day copy into Redis has seen the row of the database.                *)

Unmarked ==
  /\ redis["revoked"] = "none"
  /\ "revoked" \notin db
  /\ \A p \in Procs : "revoked" \notin local[p]

\* What request w knows of the row it is about to copy.
Clean(w) ==
  /\ req[w].at \notin {"undo", "mark", "remove"}
  /\ req[w].at \in {"check", "recheck"} => req[w].step # "repair"
  /\ req[w].at \in {"renew", "save"} /\ req[w].step = "redis" /\ req[w].durable
       => "session" \in db
  /\ req[w].at \in {"load", "look"} /\ req[w].step = "repair" => "session" \in db

BackedInv ==
  logout = "none" =>
    /\ Unmarked
    /\ \A w \in Requests : Clean(w)
    /\ redis["session"] = "hot" => "session" \in db

LEMMA BackedInit == Init => BackedInv
BY RequestAssumption DEF Init, BackedInv, Unmarked, Clean

\* Where a return of a call leaves the request.
LEMMA Landing ==
  ASSUME TypeOK, NEW w \in Requests, NEW at \in Stages,
         Goto(w, at) \/ \E a : Answer(w, at, a)
  PROVE  /\ req'[w].at = at /\ req'[w].step = FirstStep(at)
         /\ \A v \in Requests \ {w} : req'[v] = req[v]
<1>1. CASE Goto(w, at)
  <2>1. req[w] \in Request /\ req' = [req EXCEPT ![w] =
                                      [@ EXCEPT !.at = at, !.step = FirstStep(at)]]
    BY <1>1 DEF Goto, TypeOK
  <2>2. req'[w] = [req[w] EXCEPT !.at = at, !.step = FirstStep(at)]
    BY <2>1 DEF TypeOK
  <2> QED BY <2>1, <2>2 DEF TypeOK, Request
<1>2. ASSUME NEW a, Answer(w, at, a)
      PROVE  /\ req'[w].at = at /\ req'[w].step = FirstStep(at)
             /\ \A v \in Requests \ {w} : req'[v] = req[v]
  <2>1. req[w] \in Request /\ req' = [req EXCEPT ![w] =
           [@ EXCEPT !.at = at, !.step = FirstStep(at), !.answer = a]]
    BY <1>2 DEF Answer, TypeOK
  <2>2. req'[w] = [req[w] EXCEPT !.at = at, !.step = FirstStep(at), !.answer = a]
    BY <2>1 DEF TypeOK
  <2> QED BY <2>1, <2>2 DEF TypeOK, Request
<1> QED BY <1>1, <1>2

LEMMA Fresh ==
  ASSUME TypeOK, NEW w \in Requests, NEW at \in Stages \ {"undo", "mark", "remove"},
         Goto(w, at) \/ \E a : Answer(w, at, a)
  PROVE  Clean(w)' /\ \A v \in Requests \ {w} : req'[v] = req[v]
BY Landing DEF Clean, FirstStep, Writes

\* It does not go on to delete the session unless it found the mark.
LEMMA ReturnFresh ==
  ASSUME TypeOK, NEW w \in Requests, req[w].at # "mark",
         \/ Present(w) /\ req[w].at # "recheck"
         \/ \E c : Missing(w, c)
         \/ Written(w)
         \/ Deleted(w)
  PROVE  Clean(w)' /\ \A v \in Requests \ {w} : req'[v] = req[v]
<1>1. \E at \in Stages \ {"undo", "mark", "remove"} :
        Goto(w, at) \/ \E a : Answer(w, at, a)
  BY DEF Present, Missing, Written, Deleted, Stages
<1> QED BY <1>1, Fresh

\* Until a logout begins the database keeps the row, and the requests that do not
\* move know what they knew.
LEMMA OthersClean ==
  ASSUME NEW w \in Requests, BackedInv, logout = "none",
         \A v \in Requests \ {w} : req'[v] = req[v],
         Clean(w)',
         "session" \in db => "session" \in db'
  PROVE  \A v \in Requests : Clean(v)'
<1> SUFFICES ASSUME NEW v \in Requests \ {w} PROVE Clean(v)'
  OBVIOUS
<1>1. Clean(v) /\ req'[v] = req[v]
  BY DEF BackedInv
<1> QED BY <1>1 DEF Clean

LEMMA BackedNext == TypeOK /\ BackedInv /\ [Next]_vars => BackedInv'
<1> SUFFICES ASSUME TypeOK, BackedInv, [Next]_vars, logout' = "none"
             PROVE  /\ Unmarked'
                    /\ \A w \in Requests : Clean(w)'
                    /\ redis'["session"] = "hot" => "session" \in db'
  BY DEF BackedInv
<1>0. logout = "none"
  BY DEF Next, Step, vars, Load, Hold, Finish, Update, Revoke, RedisAnswers, DbAnswers,
         Repairs, WritesDb, WritesRedis, Written, DeletesRedis, DeletesDb, Deleted,
         Expires
<1>a. /\ Unmarked /\ (redis["session"] = "hot" => "session" \in db)
      /\ \A w \in Requests : Clean(w) /\ req[w] \in Request
  BY <1>0 DEF BackedInv, TypeOK
<1>b. ASSUME NEW w \in Requests PROVE Key(req[w].at) = "session" \/ req[w].at \in {"check", "recheck"}
  BY <1>a DEF Key, Clean
<1>1. ASSUME NEW w \in Requests, NEW p \in Procs, Load(w, p)
      PROVE  UNCHANGED <<redis, db, local>> /\ \A v \in Requests : Clean(v)'
  <2>1. /\ req'[w].at = "load" /\ req'[w].step = "redis"
        /\ \A v \in Requests \ {w} : req'[v] = req[v]
    BY <1>1, <1>a DEF Load, TypeOK, Request
  <2>2. Clean(w)'
    BY <2>1 DEF Clean
  <2> QED BY <1>0, <1>1, <2>1, <2>2, OthersClean DEF Load
<1>2. ASSUME NEW w \in Requests, Hold(w) \/ Finish(w) \/ Update(w) \/ Revoke(w)
      PROVE  UNCHANGED <<redis, db, local>> /\ \A v \in Requests : Clean(v)'
  <2>1. Hold(w) \/ Finish(w) \/ Update(w)
    BY <1>0, <1>2 DEF Revoke
  <2>2. Clean(w)' /\ \A v \in Requests \ {w} : req'[v] = req[v]
    BY <2>1, Fresh DEF Hold, Finish, Update, Stages
  <2>3. UNCHANGED <<redis, db, local>>
    BY <2>1 DEF Hold, Finish, Update
  <2> QED BY <1>0, <2>2, <2>3, OthersClean
<1>3. ASSUME NEW w \in Requests, NEW r \in {"hit", "miss", "down"}, RedisAnswers(w, r)
      PROVE  UNCHANGED <<redis, db, local>> /\ \A v \in Requests : Clean(v)'
  <2>1. UNCHANGED <<redis, db, local>>
    BY <1>3 DEF RedisAnswers, ReadRedis, store
  <2>2. Clean(w)' /\ \A v \in Requests \ {w} : req'[v] = req[v]
    <3>1. CASE r = "hit" /\ Present(w)
      <4>1. req[w].at # "recheck"
        BY <1>3, <1>a, <3>1 DEF RedisAnswers, ReadRedis, Key, Unmarked
      <4>2. req[w].at # "mark"
        BY <1>a DEF Clean
      <4> QED BY <3>1, <4>1, <4>2, ReturnFresh
    <3>2. CASE Missing(w, FALSE)
      <4>1. req[w].at # "mark"
        BY <1>a DEF Clean
      <4> QED BY <3>2, <4>1, ReturnFresh
    <3>3. CASE req' = [req EXCEPT ![w].step = "db", ![w].up = (r = "miss")]
      <4>1. /\ req'[w].at = req[w].at /\ req'[w].step = "db"
            /\ \A v \in Requests \ {w} : req'[v] = req[v]
        BY <1>a, <3>3 DEF TypeOK, Request
      <4> QED BY <1>a, <4>1 DEF Clean
    <3> QED BY <1>3, <3>1, <3>2, <3>3 DEF RedisAnswers
  <2> QED BY <1>0, <2>1, <2>2, OthersClean
<1>4. ASSUME NEW w \in Requests, NEW r \in {"found", "absent", "unknown"}, DbAnswers(w, r)
      PROVE  UNCHANGED <<redis, db, local>> /\ \A v \in Requests : Clean(v)'
  <2>1. UNCHANGED <<redis, db, local>>
    BY <1>4 DEF DbAnswers, ReadDb, store
  <2>2. r = "found" => req[w].at \notin {"check", "recheck"}
    BY <1>4, <1>a DEF DbAnswers, ReadDb, Key, Unmarked, TypeOK, Request
  <2>3. Clean(w)' /\ \A v \in Requests \ {w} : req'[v] = req[v]
    <3>1. CASE r = "found" /\ ~req[w].up /\ Present(w)
      <4>1. req[w].at \notin {"recheck", "mark"}
        BY <1>a, <2>2, <3>1 DEF Clean
      <4> QED BY <3>1, <4>1, ReturnFresh
    <3>2. CASE Missing(w, r = "absent")
      <4>1. req[w].at # "mark"
        BY <1>a DEF Clean
      <4> QED BY <3>2, <4>1, ReturnFresh
    <3>3. CASE r = "found" /\ req[w].up /\ req' = [req EXCEPT ![w].step = "repair"]
      <4>1. /\ req'[w].at = req[w].at /\ req'[w].step = "repair"
            /\ \A v \in Requests \ {w} : req'[v] = req[v]
        BY <1>a, <3>3 DEF TypeOK, Request
      <4>2. Key(req[w].at) = "session" /\ req[w].at \notin {"check", "recheck"}
        BY <1>b, <2>2, <3>3
      <4>3. "session" \in db
        BY <1>4, <3>3, <4>2 DEF DbAnswers, ReadDb
      <4> QED BY <1>a, <2>1, <4>1, <4>2, <4>3 DEF Clean
    <3> QED BY <1>4, <3>1, <3>2, <3>3 DEF DbAnswers
  <2> QED BY <1>0, <2>1, <2>3, OthersClean
<1>5. ASSUME NEW w \in Requests, Repairs(w)
      PROVE  /\ UNCHANGED <<db, local>> /\ \A v \in Requests : Clean(v)'
             /\ Unmarked'
             /\ redis'["session"] = "hot" => "session" \in db'
  <2>1. UNCHANGED <<db, local>>
    BY <1>5 DEF Repairs, Repair
  <2>2. req[w].at \in {"load", "look"}
    BY <1>5, <1>a DEF Repairs, Reading, Reads, Clean
  <2>3. "session" \in db
    BY <1>5, <1>a, <2>2 DEF Repairs, Reading, Clean
  <2>4. redis'["revoked"] = redis["revoked"]
    BY <1>5, <2>2, RequestAssumption DEF Repairs, Repair, Key, TypeOK, StoreTypeOK
  <2>5. Clean(w)' /\ \A v \in Requests \ {w} : req'[v] = req[v]
    BY <1>5, <2>2, ReturnFresh DEF Repairs
  <2>6. \A v \in Requests : Clean(v)'
    BY <1>0, <2>1, <2>5, OthersClean
  <2> QED BY <1>a, <2>1, <2>3, <2>4, <2>6 DEF Unmarked
<1>6. ASSUME NEW w \in Requests, NEW durable \in BOOLEAN, WritesDb(w, durable)
      PROVE  /\ UNCHANGED <<redis, local>> /\ \A v \in Requests : Clean(v)'
             /\ Unmarked'
             /\ redis'["session"] = "hot" => "session" \in db'
  <2>1. UNCHANGED <<redis, local>>
    BY <1>6 DEF WritesDb, SetDb
  <2>2. req[w].at \in {"renew", "save"} /\ Key(req[w].at) = "session"
    BY <1>6, <1>a DEF WritesDb, Writes, Clean, Key
  <2>3. db' \in {db, db \cup {"session"}} /\ (durable => "session" \in db')
    BY <1>6, <2>2 DEF WritesDb, SetDb
  <2>4. /\ req'[w].at = req[w].at /\ req'[w].step = "redis" /\ req'[w].durable = durable
        /\ \A v \in Requests \ {w} : req'[v] = req[v]
    BY <1>6, <1>a DEF WritesDb, TypeOK, Request
  <2>5. Clean(w)'
    BY <2>2, <2>3, <2>4 DEF Clean
  <2>6. \A v \in Requests : Clean(v)'
    BY <1>0, <2>3, <2>4, <2>5, OthersClean
  <2> QED BY <1>a, <2>1, <2>3, <2>6 DEF Unmarked
<1>7. ASSUME NEW w \in Requests, WritesRedis(w)
      PROVE  /\ UNCHANGED db /\ \A v \in Requests : Clean(v)'
             /\ Unmarked'
             /\ redis'["session"] = "hot" => "session" \in db'
  <2>1. UNCHANGED db
    BY <1>7 DEF WritesRedis, SetRedis
  <2>2. req[w].at \in {"renew", "save"} /\ Key(req[w].at) = "session"
    BY <1>7, <1>a DEF WritesRedis, Writes, Clean, Key
  <2>3. req[w].durable => "session" \in db
    BY <1>7, <1>a, <2>2 DEF WritesRedis, Clean
  <2>4. /\ redis'["revoked"] = redis["revoked"]
        /\ redis'["session"] \in {redis["session"],
                                  IF req[w].durable THEN "hot" ELSE "full"}
    BY <1>7, <2>2, RequestAssumption DEF WritesRedis, SetRedis, TypeOK, StoreTypeOK
  <2>5. \A p \in Procs : "revoked" \in local'[p] => "revoked" \in local[p]
    BY <1>7, <2>2 DEF WritesRedis, SetRedis, TypeOK, StoreTypeOK
  <2>6. Clean(w)' /\ \A v \in Requests \ {w} : req'[v] = req[v]
    BY <1>7, <2>2, ReturnFresh DEF WritesRedis
  <2>7. \A v \in Requests : Clean(v)'
    BY <1>0, <2>1, <2>6, OthersClean
  <2> QED BY <1>a, <2>1, <2>3, <2>4, <2>5, <2>7 DEF Unmarked
<1>8. ASSUME NEW w \in Requests, DeletesRedis(w) \/ DeletesDb(w) PROVE FALSE
  BY <1>8, <1>a DEF DeletesRedis, DeletesDb, Deletes, Clean
<1>9. ASSUME NEW k \in Keys, Expires(k)
      PROVE  /\ \A v \in Requests : Clean(v)'
             /\ Unmarked'
             /\ redis'["session"] = "hot" => "session" \in db'
  BY <1>9, <1>a, RequestAssumption
     DEF Expires, HotCopyExpires, Clean, Unmarked, TypeOK, StoreTypeOK
<1>10. ASSUME UNCHANGED <<redis, db, local>>, \A v \in Requests : Clean(v)'
       PROVE  /\ Unmarked' /\ \A w \in Requests : Clean(w)'
              /\ redis'["session"] = "hot" => "session" \in db'
  BY <1>10, <1>a DEF Unmarked
<1>11. CASE UNCHANGED vars
  BY <1>11, <1>a DEF vars, Unmarked, Clean
<1> QED BY <1>1, <1>2, <1>3, <1>4, <1>5, <1>6, <1>7, <1>8, <1>9, <1>10, <1>11 DEF Next, Step

\* Until a logout begins, a copy in Redis that ends before the session does has a
\* row of the database under it, whichever stores fail and when.
THEOREM HotCopiesAreBacked == Spec => []HotCopyIsBacked
<1>1. BackedInv => HotCopyIsBacked
  BY DEF BackedInv, HotCopyIsBacked
<1> QED BY <1>1, TypeInit, TypeNext, BackedInit, BackedNext, PTL DEF Spec

-------------------------------------------------------------------------------
(* FailureIsNotSignOut.  While one of the two stores cannot fail, that store  *)
(* has the session until a logout begins, and a load that missed in a healthy *)
(* Redis has a row of the database to find.                                   *)

Told(w) ==
  /\ req[w].answer # "signedOut"
  /\ ~RedisMayFail /\ req[w].at = "load" /\ req[w].step = "db"
       => req[w].up /\ "session" \in db

StayInv ==
  logout = "none" =>
    /\ ~DbMayFail => "session" \in db
    /\ ~RedisMayFail => "session" \in db \/ redis["session"] = "full"
    /\ \A w \in Requests : Told(w)

LEMMA StayInit == Init => StayInv
BY RequestAssumption DEF Init, StayInv, Told

\* A return that does not answer "signed out" tells the request nothing wrong.
LEMMA FreshTold ==
  ASSUME TypeOK, UNCHANGED failing, NEW w \in Requests, Told(w), NEW at \in Stages \ {"load"},
         Goto(w, at) \/ \E a \in {"none", "valid", "unavailable"} : Answer(w, at, a)
  PROVE  Told(w)' /\ \A v \in Requests \ {w} : req'[v] = req[v]
<1>1. CASE Goto(w, at)
  <2>1. req'[w] = [req[w] EXCEPT !.at = at, !.step = FirstStep(at)]
    BY <1>1 DEF Goto, TypeOK
  <2>2. req'[w].at = at /\ req'[w].answer = req[w].answer
    BY <2>1 DEF TypeOK, Request
  <2>3. \A v \in Requests \ {w} : req'[v] = req[v]
    BY <1>1 DEF Goto, TypeOK
  <2> QED BY <2>2, <2>3 DEF Told, RedisMayFail
<1>2. ASSUME NEW a \in {"none", "valid", "unavailable"}, Answer(w, at, a)
      PROVE  Told(w)' /\ \A v \in Requests \ {w} : req'[v] = req[v]
  <2>1. req'[w] = [req[w] EXCEPT !.at = at, !.step = FirstStep(at), !.answer = a]
    BY <1>2 DEF Answer, TypeOK
  <2>2. req'[w].at = at /\ req'[w].answer = a
    BY <2>1 DEF TypeOK, Request
  <2>3. \A v \in Requests \ {w} : req'[v] = req[v]
    BY <1>2 DEF Answer, TypeOK
  <2> QED BY <2>2, <2>3 DEF Told, RedisMayFail
<1> QED BY <1>1, <1>2

LEMMA ReturnTold ==
  ASSUME TypeOK, UNCHANGED failing, NEW w \in Requests, Told(w),
         \/ Present(w)
         \/ \E c \in BOOLEAN : Missing(w, c) /\ (req[w].at = "load" => ~c)
         \/ Written(w)
  PROVE  Told(w)' /\ \A v \in Requests \ {w} : req'[v] = req[v]
<1>1. \E at \in Stages \ {"load"} :
        Goto(w, at) \/ \E a \in {"none", "valid", "unavailable"} : Answer(w, at, a)
  BY DEF Present, Missing, Written, Stages
<1> QED BY <1>1, FreshTold

LEMMA OthersTold ==
  ASSUME UNCHANGED failing, NEW w \in Requests, StayInv, logout = "none",
         \A v \in Requests \ {w} : req'[v] = req[v],
         Told(w)',
         "session" \in db => "session" \in db'
  PROVE  \A v \in Requests : Told(v)'
<1> SUFFICES ASSUME NEW v \in Requests \ {w} PROVE Told(v)'
  OBVIOUS
<1>1. Told(v) /\ req'[v] = req[v]
  BY DEF StayInv
<1> QED BY <1>1 DEF Told, RedisMayFail

LEMMA StayNext ==
  ASSUME {"redis", "db"} \notin Failures
  PROVE  TypeOK /\ BackedInv /\ StayInv /\ [Next]_vars => StayInv'
<1> SUFFICES ASSUME TypeOK, BackedInv, StayInv, [Next]_vars, logout' = "none"
             PROVE  /\ (~DbMayFail => "session" \in db)'
                    /\ (~RedisMayFail => "session" \in db \/ redis["session"] = "full")'
                    /\ \A w \in Requests : Told(w)'
  BY DEF StayInv
<1> DEFINE Stored == /\ ~DbMayFail => "session" \in db
                     /\ ~RedisMayFail => "session" \in db \/ redis["session"] = "full"
<1>f. /\ UNCHANGED failing
      /\ RedisMayFail' <=> RedisMayFail
      /\ DbMayFail' <=> DbMayFail
  BY DEF Next, vars, RedisMayFail, DbMayFail
<1>e. ~RedisMayFail \/ ~DbMayFail
  <2>1. failing \in Failures /\ failing \subseteq {"redis", "db"}
    BY FailureAssumption DEF TypeOK, StoreTypeOK
  <2>2. CASE failing = {"redis", "db"}
    BY <2>1, <2>2
  <2>3. CASE ~("redis" \in failing /\ "db" \in failing)
    BY <2>3 DEF RedisMayFail, DbMayFail
  <2> QED BY <2>1, <2>2, <2>3
<1>0. logout = "none"
  BY DEF Next, Step, vars, Load, Hold, Finish, Update, Revoke, RedisAnswers, DbAnswers,
         Repairs, WritesDb, WritesRedis, Written, DeletesRedis, DeletesDb, Deleted,
         Expires
<1>a. /\ Stored
      /\ \A w \in Requests : Clean(w) /\ Told(w) /\ req[w] \in Request
  BY <1>0 DEF BackedInv, StayInv, TypeOK
<1>1. ASSUME NEW w \in Requests, NEW p \in Procs, Load(w, p)
      PROVE  UNCHANGED <<redis, db>> /\ \A v \in Requests : Told(v)'
  <2>1. /\ req'[w].at = "load" /\ req'[w].step = "redis" /\ req'[w].answer = "none"
        /\ \A v \in Requests \ {w} : req'[v] = req[v]
    BY <1>1, <1>a DEF Load, TypeOK, Request
  <2>2. Told(w)'
    BY <1>f, <2>1 DEF Told
  <2> QED BY <1>f, <1>0, <1>1, <2>1, <2>2, OthersTold DEF Load
<1>2. ASSUME NEW w \in Requests, Hold(w) \/ Finish(w) \/ Update(w) \/ Revoke(w)
      PROVE  UNCHANGED <<redis, db>> /\ \A v \in Requests : Told(v)'
  <2>1. Told(w)' /\ \A v \in Requests \ {w} : req'[v] = req[v]
    BY <1>2, <1>a, <1>e, <1>f, FreshTold DEF Hold, Finish, Update, Revoke, Stages
  <2>2. UNCHANGED <<redis, db>>
    BY <1>2 DEF Hold, Finish, Update, Revoke
  <2> QED BY <1>f, <1>0, <2>1, <2>2, OthersTold
<1>3. ASSUME NEW w \in Requests, NEW r \in {"hit", "miss", "down"}, RedisAnswers(w, r)
      PROVE  UNCHANGED <<redis, db>> /\ \A v \in Requests : Told(v)'
  <2>1. UNCHANGED <<redis, db>>
    BY <1>3 DEF RedisAnswers, ReadRedis, store
  <2>2. Told(w)' /\ \A v \in Requests \ {w} : req'[v] = req[v]
    <3>1. CASE Present(w)
      BY <1>a, <1>e, <1>f, <3>1, ReturnTold
    <3>2. CASE Missing(w, FALSE)
      BY <1>a, <1>e, <1>f, <3>2, ReturnTold
    <3>3. CASE r # "hit" /\ req' = [req EXCEPT ![w].step = "db", ![w].up = (r = "miss")]
      <4>1. req'[w] = [req[w] EXCEPT !.step = "db", !.up = (r = "miss")]
        BY <3>3 DEF TypeOK
      <4>2. /\ req'[w].at = req[w].at /\ req'[w].answer = req[w].answer
            /\ req'[w].up = (r = "miss")
        BY <1>a, <1>e, <1>f, <4>1 DEF Request
      <4>3. \A v \in Requests \ {w} : req'[v] = req[v]
        BY <3>3 DEF TypeOK
      <4>4. ASSUME ~RedisMayFail, req[w].at = "load" PROVE r = "miss" /\ "session" \in db
        BY <1>3, <1>a, <1>e, <1>f, <3>3, <4>4 DEF RedisAnswers, ReadRedis, Key
      <4> QED BY <1>a, <1>e, <1>f, <2>1, <4>2, <4>3, <4>4 DEF Told
    <3> QED BY <1>3, <3>1, <3>2, <3>3 DEF RedisAnswers
  <2> QED BY <1>f, <1>0, <2>1, <2>2, OthersTold
<1>4. ASSUME NEW w \in Requests, NEW r \in {"found", "absent", "unknown"}, DbAnswers(w, r)
      PROVE  UNCHANGED <<redis, db>> /\ \A v \in Requests : Told(v)'
  <2>1. UNCHANGED <<redis, db>>
    BY <1>4 DEF DbAnswers, ReadDb, store
  <2>2. req[w].at = "load" => r # "absent"
    <3>1. req[w].at = "load" => "session" \in db /\ Key(req[w].at) = "session"
      BY <1>4, <1>a, <1>e DEF DbAnswers, Reading, Told, Key
    <3> QED BY <1>4, <3>1 DEF DbAnswers, ReadDb
  <2>3. Told(w)' /\ \A v \in Requests \ {w} : req'[v] = req[v]
    <3>1. CASE Present(w)
      BY <1>a, <1>e, <1>f, <3>1, ReturnTold
    <3>2. CASE Missing(w, r = "absent")
      <4>1. (r = "absent") \in BOOLEAN
        OBVIOUS
      <4> QED BY <1>a, <1>e, <1>f, <2>2, <3>2, <4>1, ReturnTold
    <3>3. CASE req' = [req EXCEPT ![w].step = "repair"]
      <4>1. /\ req'[w].answer = req[w].answer /\ req'[w].step = "repair"
            /\ \A v \in Requests \ {w} : req'[v] = req[v]
        BY <1>a, <1>e, <1>f, <3>3 DEF TypeOK, Request
      <4> QED BY <1>a, <1>e, <1>f, <4>1 DEF Told
    <3> QED BY <1>4, <3>1, <3>2, <3>3 DEF DbAnswers
  <2> QED BY <1>f, <1>0, <2>1, <2>3, OthersTold
<1>5. ASSUME NEW w \in Requests, Repairs(w)
      PROVE  Stored' /\ \A v \in Requests : Told(v)'
  <2>1. req[w].at \in {"load", "look"} /\ "session" \in db /\ UNCHANGED db
    BY <1>5, <1>a, <1>f DEF Repairs, Repair, Reading, Reads, Clean
  <2>2. Told(w)' /\ \A v \in Requests \ {w} : req'[v] = req[v]
    BY <1>5, <1>a, <1>e, <1>f, ReturnTold DEF Repairs
  <2> QED BY <1>f, <1>0, <2>1, <2>2, OthersTold
<1>6. ASSUME NEW w \in Requests, NEW durable \in BOOLEAN, WritesDb(w, durable)
      PROVE  Stored' /\ \A v \in Requests : Told(v)'
  <2>1. db' \in {db, db \cup {Key(req[w].at)}} /\ UNCHANGED redis
    BY <1>6 DEF WritesDb, SetDb
  <2>2. /\ req'[w].step = "redis" /\ req'[w].answer = req[w].answer
        /\ \A v \in Requests \ {w} : req'[v] = req[v]
    BY <1>6, <1>a DEF WritesDb, TypeOK, Request
  <2>3. Told(w)'
    BY <1>a, <1>e, <1>f, <2>2 DEF Told
  <2> QED BY <1>f, <1>0, <1>a, <1>e, <1>f, <2>1, <2>2, <2>3, OthersTold
<1>7. ASSUME NEW w \in Requests, WritesRedis(w)
      PROVE  Stored' /\ \A v \in Requests : Told(v)'
  <2>1. UNCHANGED db
    BY <1>7 DEF WritesRedis, SetRedis
  <2>2. req[w].at \in {"renew", "save"} /\ Key(req[w].at) = "session"
    BY <1>7, <1>a DEF WritesRedis, Writes, Clean, Key
  <2>3. req[w].durable => "session" \in db
    BY <1>7, <1>a, <1>e, <1>f, <2>2 DEF WritesRedis, Clean
  <2>4. redis'["session"] \in {redis["session"], IF req[w].durable THEN "hot" ELSE "full"}
    BY <1>7, <2>2, RequestAssumption DEF WritesRedis, SetRedis, TypeOK, StoreTypeOK
  <2>5. Told(w)' /\ \A v \in Requests \ {w} : req'[v] = req[v]
    BY <1>7, <1>a, <1>e, <1>f, ReturnTold DEF WritesRedis
  <2> QED BY <1>f, <1>0, <1>a, <1>e, <1>f, <2>1, <2>3, <2>4, <2>5, OthersTold
<1>8. ASSUME NEW w \in Requests, DeletesRedis(w) \/ DeletesDb(w) PROVE FALSE
  BY <1>8, <1>a DEF DeletesRedis, DeletesDb, Deletes, Clean
<1>9. ASSUME NEW k \in Keys, Expires(k)
      PROVE  Stored' /\ \A v \in Requests : Told(v)'
  BY <1>9, <1>a, <1>e, <1>f, RequestAssumption DEF Expires, HotCopyExpires, Told, TypeOK, StoreTypeOK
<1>10. ASSUME UNCHANGED <<redis, db>> PROVE Stored'
  BY <1>10, <1>a, <1>f
<1>11. CASE UNCHANGED vars
  BY <1>11, <1>a, <1>f DEF vars, Told
<1> QED BY <1>1, <1>2, <1>3, <1>4, <1>5, <1>6, <1>7, <1>8, <1>9, <1>10, <1>11 DEF Next, Step

\* A store failure is not a sign-out: while one of the two stores is healthy, no
\* request is told that it is signed out before a logout begins.
THEOREM FailuresSignNobodyOut ==
  ASSUME {"redis", "db"} \notin Failures
  PROVE  Spec => []FailureIsNotSignOut
<1>1. StayInv => FailureIsNotSignOut
  BY DEF StayInv, Told, FailureIsNotSignOut
<1> QED BY <1>1, TypeInit, TypeNext, BackedInit, BackedNext, StayInit, StayNext,
           PTL DEF Spec

-------------------------------------------------------------------------------
(* UpdatesRespectLogout.  From the moment the mark is stored, whoever puts the session back *)
(* has yet to look for the mark, and will find it and delete the session.     *)

Removing == logout = "done" \/ \E w \in Requests : req[w].at = "remove"

\* Request w will delete the session from Redis, or from the database.
CoversRedis(w) == \/ req[w].at \in {"save", "recheck"}
                  \/ req[w].at \in {"undo", "remove"} /\ req[w].step = "redis"
CoversDb(w) == req[w].at \in {"save", "recheck", "undo", "remove"}

\* A request between the two writes of the mark has made the first.
Steady(w) ==
  /\ req[w].at \notin {"load", "renew"}
  /\ req[w].at = "mark" /\ req[w].step = "redis" => "revoked" \in db

LogoutInv ==
  /\ \A w \in Requests : Steady(w)
  /\ \A p \in Procs : "session" \notin local[p]
  /\ Removing => /\ "revoked" \in db
                 /\ redis["session"] # "none" => \E w \in Requests : CoversRedis(w)
                 /\ "session" \in db => \E w \in Requests : CoversDb(w)

\* The behaviours the invariant is about: once a request has loaded the session,
\* or a store may fail, it says nothing.
Quiet == failing = {} /\ NobodyLoads

LEMMA LogoutInit == Init => (Quiet => LogoutInv)
BY RequestAssumption
   DEF RedisMayFail, DbMayFail, Init, LogoutInv, Steady, Removing, Quiet

\* A request that has loaded the session keeps an answer, or loads it again.
LEMMA QuietBefore == TypeOK /\ [Next]_vars /\ Quiet' => Quiet
<1> SUFFICES ASSUME TypeOK, [Next]_vars, Quiet' PROVE Quiet
  OBVIOUS
<1>f. failing = {}
  BY DEF Next, vars, Quiet
<1>a. \A w \in Requests : req[w] \in Request
  BY DEF TypeOK
<1>q. ASSUME NEW w \in Requests
      PROVE  req'[w].at # "load" /\ req'[w].answer = "none"
  BY DEF Quiet, NobodyLoads
<1> DEFINE Apart(w) == \A v \in Requests \ {w} : req'[v] = req[v]
           Unread(w) == req[w].at # "load" /\ req[w].answer = "none"
<1>r. ASSUME NEW w \in Requests, Apart(w), Unread(w) PROVE Quiet
  BY <1>f, <1>q, <1>r DEF Quiet, NobodyLoads
<1>g. ASSUME NEW w \in Requests, NEW at \in Stages, Goto(w, at), req[w].at # "load"
      PROVE  Quiet
  <2>1. req'[w] = [req[w] EXCEPT !.at = at, !.step = FirstStep(at)] /\ Apart(w)
    BY <1>g DEF Goto, TypeOK
  <2>2. req'[w].answer = req[w].answer
    BY <1>a, <2>1 DEF Request
  <2> QED BY <1>g, <1>q, <1>r, <2>1, <2>2
<1>s. ASSUME NEW w \in Requests, NEW a \in {"valid", "signedOut", "unavailable"},
             NEW at \in Stages, Answer(w, at, a)
      PROVE  FALSE
  <2>1. req'[w] = [req[w] EXCEPT !.at = at, !.step = FirstStep(at), !.answer = a]
    BY <1>s DEF Answer, TypeOK
  <2>2. req'[w].answer = a
    BY <1>a, <2>1 DEF Request
  <2> QED BY <1>q, <2>2
<1>t. ASSUME NEW w \in Requests, NEW c \in BOOLEAN, Present(w) \/ Missing(w, c)
      PROVE  Quiet
  BY <1>g, <1>s, <1>t DEF Present, Missing, Stages
<1>1. ASSUME NEW w \in Requests, NEW p \in Procs, Load(w, p) PROVE FALSE
  <2>1. req'[w] = [req[w] EXCEPT !.at = "load", !.step = "redis", !.proc = p,
                                 !.answer = "none"]
    BY <1>1 DEF Load, TypeOK
  <2>2. req'[w].at = "load"
    BY <1>a, <2>1 DEF Request
  <2> QED BY <1>q, <2>2
<1>2. ASSUME NEW w \in Requests, Hold(w) \/ Finish(w) \/ Update(w) \/ Revoke(w)
      PROVE  Quiet
  BY <1>2, <1>g DEF Hold, Finish, Update, Revoke, Stages
<1>3. ASSUME NEW w \in Requests, NEW step \in {"redis", "db", "repair"},
             NEW up, NEW durable,
             \/ req' = [req EXCEPT ![w].step = step]
             \/ req' = [req EXCEPT ![w].step = step, ![w].up = up]
             \/ req' = [req EXCEPT ![w].step = step, ![w].durable = durable]
      PROVE  Quiet
  <2>1. /\ \/ req'[w] = [req[w] EXCEPT !.step = step]
           \/ req'[w] = [req[w] EXCEPT !.step = step, !.up = up]
           \/ req'[w] = [req[w] EXCEPT !.step = step, !.durable = durable]
        /\ Apart(w)
    BY <1>3 DEF TypeOK
  <2>2. req'[w].at = req[w].at /\ req'[w].answer = req[w].answer
    BY <1>a, <2>1 DEF Request
  <2> QED BY <1>q, <1>r, <2>1, <2>2
<1>4. ASSUME NEW w \in Requests, NEW r \in {"hit", "miss", "down"}, RedisAnswers(w, r)
      PROVE  Quiet
  BY <1>3, <1>4, <1>t DEF RedisAnswers
<1>5. ASSUME NEW w \in Requests, NEW r \in {"found", "absent", "unknown"}, DbAnswers(w, r)
      PROVE  Quiet
  BY <1>3, <1>5, <1>t DEF DbAnswers
<1>6. ASSUME NEW w \in Requests, Repairs(w) PROVE Quiet
  BY <1>6, <1>t DEF Repairs
<1>7. ASSUME NEW w \in Requests, NEW durable \in BOOLEAN, WritesDb(w, durable)
      PROVE  Quiet
  BY <1>3, <1>7 DEF WritesDb
<1>8. ASSUME NEW w \in Requests, WritesRedis(w) PROVE Quiet
  BY <1>8, <1>g DEF WritesRedis, Written, Stages
<1>9. ASSUME NEW w \in Requests, DeletesRedis(w) PROVE Quiet
  BY <1>3, <1>9 DEF DeletesRedis
<1>10. ASSUME NEW w \in Requests, DeletesDb(w) PROVE Quiet
  BY <1>10, <1>g DEF DeletesDb, Deleted, Deletes, Stages
<1>11. CASE UNCHANGED req
  BY <1>f, <1>q, <1>11 DEF Quiet, NobodyLoads
<1> QED BY <1>1, <1>2, <1>4, <1>5, <1>6, <1>7, <1>8, <1>9, <1>10, <1>11
        DEF Next, Step, vars, Expires

\* What a step of request w must do to preserve the invariant.
LEMMA Carried ==
  ASSUME LogoutInv, NEW w \in Requests,
         \A v \in Requests \ {w} : req'[v] = req[v],
         Steady(w)',
         \A p \in Procs : "session" \notin local'[p],
         "revoked" \in db => "revoked" \in db',
         Removing' => Removing \/ (CoversRedis(w)' /\ CoversDb(w)' /\ "revoked" \in db'),
         Removing /\ redis'["session"] # "none"
           => CoversRedis(w)' \/ (redis["session"] # "none" /\ ~CoversRedis(w)),
         Removing /\ "session" \in db'
           => CoversDb(w)' \/ ("session" \in db /\ ~CoversDb(w))
  PROVE  LogoutInv'
<1>1. \A v \in Requests : Steady(v)'
  BY DEF LogoutInv, Steady
<1>2. ASSUME Removing' PROVE "revoked" \in db'
  BY <1>2 DEF LogoutInv
<1>3. ASSUME Removing', redis'["session"] # "none"
      PROVE  \E v \in Requests : CoversRedis(v)'
  <2>1. CASE CoversRedis(w)'
    BY <2>1
  <2>2. CASE ~CoversRedis(w)'
    <3>1. PICK v \in Requests : CoversRedis(v)
      BY <1>3, <2>2 DEF LogoutInv
    <3>2. v # w
      BY <1>3, <2>2, <3>1 DEF LogoutInv
    <3> QED BY <3>1, <3>2 DEF CoversRedis
  <2> QED BY <2>1, <2>2
<1>4. ASSUME Removing', "session" \in db'
      PROVE  \E v \in Requests : CoversDb(v)'
  <2>1. CASE CoversDb(w)'
    BY <2>1
  <2>2. CASE ~CoversDb(w)'
    <3>1. /\ \E v \in Requests : CoversDb(v)
          /\ ~CoversDb(w)
      BY <1>4, <2>2 DEF LogoutInv
    <3>2. PICK v \in Requests \ {w} : CoversDb(v)
      BY <3>1
    <3> QED BY <3>2 DEF CoversDb
  <2> QED BY <2>1, <2>2
<1> QED BY <1>1, <1>2, <1>3, <1>4 DEF LogoutInv

LEMMA LogoutNext ==
  TypeOK /\ (Quiet => LogoutInv) /\ [Next]_vars => (Quiet' => LogoutInv')
<1> SUFFICES ASSUME TypeOK, LogoutInv, [Next]_vars, Quiet, Quiet' PROVE LogoutInv'
  BY QuietBefore
<1>h. ~RedisMayFail /\ ~DbMayFail
  BY DEF Quiet, RedisMayFail, DbMayFail
<1>a. \A w \in Requests : Steady(w) /\ req[w] \in Request
  BY DEF LogoutInv, TypeOK
<1>b. Removing => "revoked" \in db
  BY DEF LogoutInv
<1>c. \A p \in Procs : "session" \notin local[p]
  BY DEF LogoutInv
<1>d. "session" \in Keys /\ "revoked" \in Keys
  BY RequestAssumption
<1>1. ASSUME NEW w \in Requests, NEW p \in Procs, Load(w, p) PROVE FALSE
  <2>1. req'[w] = [req[w] EXCEPT !.at = "load", !.step = "redis", !.proc = p,
                                 !.answer = "none"]
    BY <1>1 DEF Load, TypeOK
  <2>2. req'[w].at = "load"
    BY <1>a, <2>1 DEF Request
  <2> QED BY <2>2 DEF Quiet, NobodyLoads
<1>2. ASSUME NEW w \in Requests, Hold(w) \/ Finish(w) \/ Update(w) \/ Revoke(w)
      PROVE  LogoutInv'
  <2>1. PICK at \in {"held", "idle", "check", "mark"} : Goto(w, at)
    BY <1>2 DEF Hold, Finish, Update, Revoke
  <2>2. /\ req'[w].at = at /\ req'[w].step = FirstStep(at)
        /\ \A v \in Requests \ {w} : req'[v] = req[v]
    BY <2>1, Landing DEF Stages
  <2>3. /\ UNCHANGED <<redis, db, local>> /\ req[w].at \in {"idle", "held"}
        /\ logout' = "done" => logout = "done"
    BY <1>2 DEF Hold, Finish, Update, Revoke
  <2>4. Steady(w)' /\ ~CoversRedis(w) /\ ~CoversDb(w)
    BY <2>2, <2>3 DEF Steady, FirstStep, Writes, CoversRedis, CoversDb
  <2>5. Removing' => Removing
    BY <2>2, <2>3 DEF Removing
  <2> QED BY <1>c, <2>2, <2>3, <2>4, <2>5, Carried
<1>3. ASSUME NEW w \in Requests, NEW r \in {"hit", "miss", "down"}, RedisAnswers(w, r)
      PROVE  LogoutInv'
  <2>1. /\ UNCHANGED <<redis, db, local, logout>> /\ r # "down"
        /\ req[w].at \in {"check", "look", "recheck"}
    BY <1>3, <1>a, <1>h DEF RedisAnswers, ReadRedis, store, Reading, Reads, Steady
  <2>2. \/ /\ req'[w].at \in {"idle", "look", "save", "undo"}
           /\ req'[w].step = FirstStep(req'[w].at)
        \/ req'[w].at = req[w].at
    <3>1. CASE Present(w)
      BY <2>1, <3>1, Landing DEF Present, Stages
    <3>2. CASE Missing(w, FALSE)
      BY <2>1, <3>2, Landing DEF Missing, Stages
    <3>3. CASE req' = [req EXCEPT ![w].step = "db", ![w].up = (r = "miss")]
      <4>1. req'[w] = [req[w] EXCEPT !.step = "db", !.up = (r = "miss")]
        BY <3>3 DEF TypeOK
      <4> QED BY <1>a, <4>1 DEF Request
    <3> QED BY <1>3, <3>1, <3>2, <3>3 DEF RedisAnswers
  <2>3. req[w].at = "recheck" => /\ req'[w].at \in {"recheck", "undo"}
                                 /\ req'[w].at = "undo" => req'[w].step = "redis"
    <3>1. CASE req[w].at = "recheck" /\ r = "hit"
      <4>1. Goto(w, "undo")
        BY <1>3, <3>1 DEF RedisAnswers, Present
      <4> QED BY <3>1, <4>1, Landing DEF FirstStep, Writes, Stages
    <3>2. CASE req[w].at = "recheck" /\ r # "hit"
      <4>1. req' = [req EXCEPT ![w].step = "db", ![w].up = (r = "miss")]
        BY <1>3, <3>2, RequestAssumption DEF RedisAnswers, OverBudget, Key
      <4>2. req'[w] = [req[w] EXCEPT !.step = "db", !.up = (r = "miss")]
        BY <4>1 DEF TypeOK
      <4> QED BY <1>a, <3>2, <4>2 DEF Request
    <3> QED BY <3>1, <3>2
  <2>4. \A v \in Requests \ {w} : req'[v] = req[v]
    <3>1. CASE Present(w)
      BY <2>1, <3>1, Landing DEF Present, Stages
    <3>2. CASE Missing(w, FALSE)
      BY <2>1, <3>2, Landing DEF Missing, Stages
    <3>3. CASE req' = [req EXCEPT ![w].step = "db", ![w].up = (r = "miss")]
      BY <3>3 DEF TypeOK
    <3> QED BY <1>3, <3>1, <3>2, <3>3 DEF RedisAnswers
  <2>5. Steady(w)'
    BY <2>1, <2>2 DEF Steady
  <2>6. Removing' => Removing
    BY <2>1, <2>2, <2>4 DEF Removing
  <2>7. /\ CoversRedis(w) => CoversRedis(w)'
        /\ CoversDb(w) => CoversDb(w)'
    BY <2>1, <2>3 DEF CoversRedis, CoversDb
  <2> QED BY <1>c, <2>1, <2>4, <2>5, <2>6, <2>7, Carried
<1>4. ASSUME NEW w \in Requests, NEW r \in {"found", "absent", "unknown"}, DbAnswers(w, r)
      PROVE  LogoutInv'
  <2>1. /\ UNCHANGED <<redis, db, local, logout>> /\ r # "unknown"
        /\ req[w].at \in {"check", "look", "recheck"}
    BY <1>4, <1>a, <1>h DEF DbAnswers, ReadDb, store, Reading, Reads, Steady
  <2>2. /\ \/ /\ req'[w].at \in {"idle", "look", "save", "undo"}
              /\ req'[w].step = FirstStep(req'[w].at)
           \/ req'[w].at = req[w].at
        /\ \A v \in Requests \ {w} : req'[v] = req[v]
    <3>1. CASE Present(w)
      BY <2>1, <3>1, Landing DEF Present, Stages
    <3>2. CASE Missing(w, r = "absent")
      BY <2>1, <3>2, Landing DEF Missing, Stages
    <3>3. CASE req' = [req EXCEPT ![w].step = "repair"]
      BY <1>a, <3>3 DEF TypeOK, Request
    <3> QED BY <1>4, <3>1, <3>2, <3>3 DEF DbAnswers
  <2>3. Removing /\ req[w].at = "recheck"
          => /\ req'[w].at \in {"recheck", "undo"}
             /\ req'[w].at = "undo" => req'[w].step = "redis"
    <3> SUFFICES ASSUME Removing, req[w].at = "recheck"
                 PROVE  /\ req'[w].at \in {"recheck", "undo"}
                        /\ req'[w].at = "undo" => req'[w].step = "redis"
      OBVIOUS
    <3>1. r = "found"
      BY <1>4, <1>b, <2>1 DEF DbAnswers, ReadDb, Key
    <3>2. CASE Present(w)
      <4>1. Goto(w, "undo")
        BY <3>2 DEF Present
      <4> QED BY <4>1, Landing DEF FirstStep, Writes, Stages
    <3>3. CASE req' = [req EXCEPT ![w].step = "repair"]
      BY <1>a, <3>3 DEF TypeOK, Request
    <3> QED BY <1>4, <3>1, <3>2, <3>3 DEF DbAnswers
  <2>4. Steady(w)'
    BY <2>1, <2>2 DEF Steady
  <2>5. Removing' => Removing
    BY <2>1, <2>2 DEF Removing
  <2>6. Removing => /\ CoversRedis(w) => CoversRedis(w)'
                    /\ CoversDb(w) => CoversDb(w)'
    BY <2>1, <2>3 DEF CoversRedis, CoversDb
  <2> QED BY <1>c, <2>1, <2>2, <2>4, <2>5, <2>6, Carried
<1>5. ASSUME NEW w \in Requests, Repairs(w) PROVE LogoutInv'
  <2>1. /\ UNCHANGED <<db, local, logout>> /\ Present(w)
        /\ req[w].at \in {"check", "look", "recheck"}
        /\ redis' = [redis EXCEPT ![Key(req[w].at)] = "hot"]
    BY <1>5, <1>a, <1>h DEF Repairs, Repair, Reading, Reads, Steady
  <2>2. PICK at \in {"idle", "save", "undo"} :
          /\ Goto(w, at)
          /\ req[w].at = "look" => at = "save"
          /\ req[w].at = "recheck" => at = "undo"
    BY <2>1 DEF Present
  <2>3. /\ req'[w].at = at /\ req'[w].step = FirstStep(at)
        /\ \A v \in Requests \ {w} : req'[v] = req[v]
    BY <2>2, Landing DEF Stages
  <2>4. Steady(w)'
    BY <2>3 DEF Steady
  <2>5. Removing' => Removing
    BY <2>1, <2>3 DEF Removing
  <2>6. \/ CoversRedis(w)'
        \/ ~CoversRedis(w) /\ redis'["session"] = redis["session"]
    BY <1>d, <2>1, <2>2, <2>3
       DEF CoversRedis, FirstStep, Writes, Key, TypeOK, StoreTypeOK
  <2>7. CoversDb(w)' \/ ~CoversDb(w)
    BY <2>1, <2>2, <2>3 DEF CoversDb
  <2> QED BY <1>c, <2>1, <2>3, <2>4, <2>5, <2>6, <2>7, Carried
<1>6. ASSUME NEW w \in Requests, NEW durable \in BOOLEAN, WritesDb(w, durable)
      PROVE  LogoutInv'
  <2>1. /\ UNCHANGED <<redis, local, logout>> /\ req[w].at \in {"save", "mark"}
        /\ db' = db \cup {Key(req[w].at)}
    BY <1>6, <1>a, <1>h DEF WritesDb, SetDb, Writes, Steady
  <2>2. /\ req'[w].at = req[w].at /\ req'[w].step = "redis"
        /\ \A v \in Requests \ {w} : req'[v] = req[v]
    BY <1>6, <1>a DEF WritesDb, TypeOK, Request
  <2>3. Steady(w)'
    BY <2>1, <2>2 DEF Steady, Key
  <2>4. Removing' => Removing
    BY <2>1, <2>2 DEF Removing
  <2>5. /\ CoversRedis(w) => CoversRedis(w)'
        /\ CoversDb(w)' \/ (~CoversDb(w) /\ ("session" \in db' => "session" \in db))
    BY <2>1, <2>2 DEF CoversRedis, CoversDb, Key
  <2> QED BY <1>c, <2>1, <2>2, <2>3, <2>4, <2>5, Carried
<1>7. ASSUME NEW w \in Requests, WritesRedis(w) PROVE LogoutInv'
  <2>1. /\ UNCHANGED <<db, local, logout>> /\ req[w].at \in {"save", "mark"}
        /\ req[w].step = "redis"
    BY <1>7, <1>a, <1>h DEF WritesRedis, SetRedis, Written, Writes, Steady
  <2>2. \/ req[w].at = "save" /\ Goto(w, "recheck")
        \/ req[w].at = "mark" /\ Goto(w, "remove")
    BY <1>7, <2>1 DEF WritesRedis, Written
  <2>3. /\ \/ req[w].at = "save" /\ req'[w].at = "recheck"
           \/ req[w].at = "mark" /\ req'[w].at = "remove"
        /\ req'[w].step = "redis"
        /\ \A v \in Requests \ {w} : req'[v] = req[v]
    BY <2>2, Landing DEF Stages, FirstStep, Writes
  <2>4. Steady(w)' /\ CoversRedis(w)' /\ CoversDb(w)'
    BY <2>3 DEF Steady, CoversRedis, CoversDb
  <2>5. Removing' => Removing \/ "revoked" \in db'
    BY <1>a, <2>1, <2>3 DEF Removing, Steady
  <2> QED BY <1>c, <2>1, <2>3, <2>4, <2>5, Carried
<1>8. ASSUME NEW w \in Requests, DeletesRedis(w) PROVE LogoutInv'
  <2>1. /\ UNCHANGED <<db, local, logout>> /\ req[w].at \in {"undo", "remove"}
        /\ redis' = [redis EXCEPT !["session"] = "none"]
    BY <1>8, <1>a, <1>h DEF DeletesRedis, DeleteRedis, Deletes, Key
  <2>2. /\ req'[w].at = req[w].at /\ req'[w].step = "db"
        /\ \A v \in Requests \ {w} : req'[v] = req[v]
    BY <1>8, <1>a DEF DeletesRedis, TypeOK, Request
  <2>3. Steady(w)' /\ CoversDb(w)' /\ redis'["session"] = "none"
    BY <1>d, <2>1, <2>2 DEF Steady, CoversDb, TypeOK, StoreTypeOK
  <2>4. Removing' => Removing
    BY <2>1, <2>2 DEF Removing
  <2> QED BY <1>c, <2>1, <2>2, <2>3, <2>4, Carried
<1>9. ASSUME NEW w \in Requests, DeletesDb(w) PROVE LogoutInv'
  <2>1. /\ UNCHANGED redis /\ req[w].at \in {"undo", "remove"} /\ req[w].step = "db"
        /\ db' = db \ {"session"} /\ Goto(w, "idle")
        /\ logout' = "done" => logout = "done" \/ req[w].at = "remove"
    BY <1>9, <1>a, <1>h DEF DeletesDb, DeleteDb, Deletes, Deleted, Key
  <2>2. \A p \in Procs : "session" \notin local'[p]
    BY <1>9, <1>c, <1>h DEF DeletesDb, DeleteDb, TypeOK, StoreTypeOK
  <2>3. /\ req'[w].at = "idle" /\ \A v \in Requests \ {w} : req'[v] = req[v]
    BY <2>1, Landing DEF Stages
  <2>4. Steady(w)' /\ ~CoversRedis(w)
    BY <2>1, <2>3 DEF Steady, CoversRedis
  <2>5. Removing' => Removing
    BY <2>1, <2>3 DEF Removing
  <2>6. "revoked" \in db => "revoked" \in db'
    BY <2>1
  <2> QED BY <2>1, <2>2, <2>3, <2>4, <2>5, <2>6, Carried
<1>10. ASSUME NEW k \in Keys, Expires(k) PROVE LogoutInv'
  <2>1. /\ UNCHANGED <<db, local, req, logout>>
        /\ redis'["session"] # "none" => redis["session"] # "none"
    BY <1>10, <1>d DEF Expires, HotCopyExpires, TypeOK, StoreTypeOK
  <2> QED BY <2>1 DEF LogoutInv, Steady, Removing, CoversRedis, CoversDb
<1>11. CASE UNCHANGED vars
  BY <1>11 DEF vars, LogoutInv, Steady, Removing, CoversRedis, CoversDb
<1> QED BY <1>1, <1>2, <1>3, <1>4, <1>5, <1>6, <1>7, <1>8, <1>9, <1>10, <1>11 DEF Next, Step

\* While the stores answer, a session that was logged out stays out of every store,
\* whatever requests had loaded it before and in whichever order their steps and
\* those of the logout, or of several, are taken.
THEOREM LogoutIsFinal == Spec => []UpdatesRespectLogout
<1>1. TypeOK /\ (Quiet => LogoutInv) => UpdatesRespectLogout
  <2> SUFFICES ASSUME TypeOK, LogoutInv, logout = "done",
                      \A w \in Requests : req[w].at \in {"idle", "held"}
               PROVE  /\ redis["session"] = "none"
                      /\ "session" \notin db
                      /\ \A p \in Procs : "session" \notin local[p]
    BY DEF Quiet, UpdatesRespectLogout, LogoutHolds
  <2>1. \A w \in Requests : ~CoversRedis(w) /\ ~CoversDb(w)
    BY DEF CoversRedis, CoversDb
  <2> QED BY <2>1 DEF LogoutInv, Removing
<1> QED BY <1>1, TypeInit, TypeNext, LogoutInit, LogoutNext, PTL DEF Spec

===============================================================================
