---------------------------- MODULE BrowserSession ----------------------------
(***************************************************************************)
(* One browser session and the requests that carry its cookie              *)
(* (browserSession.ts over cache.ts).  A request loads the session, which  *)
(* may renew it, and may then change it (a token refresh, a JWXT login) or *)
(* log it out; a logout leaves a short-lived revocation mark.  Requests    *)
(* run concurrently in several processes and every store command is a step *)
(* of its own.                                                             *)
(***************************************************************************)
EXTENDS EphemeralStore, FiniteSets

CONSTANT Requests  \* requests in flight at the same time

ASSUME RequestAssumption ==
  /\ Keys = {"session", "revoked"}
  /\ Revocations = {"revoked"}

VARIABLES
  req,      \* req[w]: the request w
  logout    \* "none", "begun" or "done": how far a logout has come

vars == <<redis, db, local, failing, req, logout>>

(* at: the call of the handler under way.  step: how far it is.  up: what    *)
(* its Redis read said.  durable: what its database write said.  answer:     *)
(* what the last load was answered with.                                    *)
Stages == {"idle", "load", "renew", "held", "check", "look", "save", "recheck",
           "undo", "mark", "remove"}
Request == [at : Stages, step : {"redis", "db", "repair"}, proc : Procs,
            up : BOOLEAN, durable : BOOLEAN,
            answer : {"none", "valid", "signedOut", "unavailable"}]

TypeOK ==
  /\ StoreTypeOK
  /\ req \in [Requests -> Request]
  /\ logout \in {"none", "begun", "done"}

Key(at) == IF at \in {"check", "recheck", "mark"} THEN "revoked" ELSE "session"

Reads   == {"load", "check", "look", "recheck"}
Writes  == {"renew", "save", "mark"}
Deletes == {"undo", "remove"}

\* issueBrowserSession has stored the session, wherever it could.
Init ==
  /\ req \in [Requests -> {q \in Request : /\ q.at = "idle" /\ q.step = "redis"
                                           /\ ~q.up /\ ~q.durable
                                           /\ q.answer = "none"}]
  /\ logout = "none"
  /\ failing \in Failures
  /\ \E durable, shared \in BOOLEAN, p \in Procs :
       /\ durable \/ DbMayFail
       /\ shared \/ RedisMayFail
       /\ db = IF durable THEN {"session"} ELSE {}
       /\ redis = [k \in Keys |-> IF k = "session" /\ shared
                                  THEN (IF durable THEN "hot" ELSE "full")
                                  ELSE "none"]
       /\ local = [q \in Procs |-> IF q = p /\ ~durable /\ ~shared
                                   THEN {"session"} ELSE {}]

-------------------------------------------------------------------------------
(* Where a handler goes when its call returns.                              *)

FirstStep(at) == IF at \in Writes THEN "db" ELSE "redis"

Goto(w, at) ==
  req' = [req EXCEPT ![w] = [@ EXCEPT !.at = at, !.step = FirstStep(at)]]

Answer(w, at, a) ==
  req' = [req EXCEPT ![w] = [@ EXCEPT !.at = at, !.step = FirstStep(at),
                                      !.answer = a]]

\* The session or the mark was there.
Present(w) ==
  LET at == req[w].at IN
  \/ at = "load" /\ Answer(w, "held", "valid")
  \/ at = "load" /\ Answer(w, "renew", "valid")
  \/ at = "check" /\ Goto(w, "idle")
  \/ at = "look" /\ Goto(w, "save")
  \/ at = "recheck" /\ Goto(w, "undo")

\* Mutant: what could not be read counts as absent.
MissingIsSignOut(w, complete) ==
  LET at == req[w].at IN
  \/ at = "load" /\ Answer(w, "idle", "signedOut")
  \/ at = "check" /\ Goto(w, "look")
  \/ at \in {"look", "recheck"} /\ Goto(w, "idle")

\* It was not, or (complete false) that could not be told.
Missing(w, complete) ==
  LET at == req[w].at IN
  \/ at = "load" /\ Answer(w, "idle", IF complete THEN "signedOut" ELSE "unavailable")
  \/ at = "check" /\ Goto(w, "look")
  \/ at \in {"look", "recheck"} /\ Goto(w, "idle")

\* Mutant: the mark is not looked for again after the save.
WrittenUnchecked(w) ==
  LET at == req[w].at IN
  \/ at = "renew" /\ Goto(w, "held") /\ UNCHANGED logout
  \/ at = "save" /\ Goto(w, "idle") /\ UNCHANGED logout
  \/ at = "mark" /\ Goto(w, "remove") /\ UNCHANGED logout

Written(w) ==
  LET at == req[w].at IN
  \/ at = "renew" /\ Goto(w, "held") /\ UNCHANGED logout
  \/ at = "save" /\ Goto(w, "recheck") /\ UNCHANGED logout
  \/ at = "mark" /\ Goto(w, "remove") /\ UNCHANGED logout

Deleted(w) ==
  /\ Goto(w, "idle")
  /\ logout' = IF req[w].at = "remove" THEN "done" ELSE logout

-------------------------------------------------------------------------------
(* The handlers.                                                            *)

\* loadBrowserSession begins, in some process.
Load(w, p) ==
  /\ req[w].at = "idle"
  /\ req' = [req EXCEPT ![w].at = "load", ![w].step = "redis", ![w].proc = p,
                        ![w].answer = "none"]
  /\ UNCHANGED <<redis, db, local, logout>>

\* The request was authenticated before the period modelled, and holds the
\* session it loaded.
Hold(w) ==
  /\ req[w].at = "idle"
  /\ Goto(w, "held")
  /\ UNCHANGED <<redis, db, local, logout>>

Finish(w) ==
  /\ req[w].at = "held"
  /\ Goto(w, "idle")
  /\ UNCHANGED <<redis, db, local, logout>>

\* updateBrowserSession begins.
Update(w) ==
  /\ req[w].at = "held"
  /\ Goto(w, "check")
  /\ UNCHANGED <<redis, db, local, logout>>

\* revokeBrowserSession begins.
Revoke(w) ==
  /\ req[w].at = "held"
  /\ Goto(w, "mark")
  /\ logout' = IF logout = "none" THEN "begun" ELSE logout
  /\ UNCHANGED <<redis, db, local>>

-------------------------------------------------------------------------------
(* The steps of its store calls.                                            *)

Reading(w, s) == req[w].at \in Reads /\ req[w].step = s

RedisAnswers(w, r) ==
  LET k == Key(req[w].at) IN
  /\ Reading(w, "redis")
  /\ ReadRedis(k, r)
  /\ UNCHANGED logout
  /\ \/ r = "hit" /\ Present(w)
     \/ r = "miss" /\ OverBudget(k) /\ Missing(w, FALSE)
     \/ /\ r # "hit"
        /\ req' = [req EXCEPT ![w].step = "db", ![w].up = (r = "miss")]

DbAnswers(w, r) ==
  /\ Reading(w, "db")
  /\ ReadDb(req[w].proc, Key(req[w].at), req[w].up, r)
  /\ UNCHANGED logout
  /\ \/ r = "found" /\ req[w].up /\ req' = [req EXCEPT ![w].step = "repair"]
     \/ r = "found" /\ ~req[w].up /\ Present(w)
     \/ r # "found" /\ Missing(w, r = "absent")

\* The reply of the database has come back: the repair goes out before anything
\* the process sends to Redis later.
Repairs(w) ==
  /\ Reading(w, "repair")
  /\ Repair(Key(req[w].at))
  /\ Present(w)
  /\ UNCHANGED logout

WritesDb(w, durable) ==
  /\ req[w].at \in Writes /\ req[w].step = "db"
  /\ SetDb(Key(req[w].at), durable)
  /\ req' = [req EXCEPT ![w].step = "redis", ![w].durable = durable]
  /\ UNCHANGED logout

WritesRedis(w) ==
  /\ req[w].at \in Writes /\ req[w].step = "redis"
  /\ SetRedis(req[w].proc, Key(req[w].at), req[w].durable)
  /\ Written(w)

DeletesRedis(w) ==
  /\ req[w].at \in Deletes /\ req[w].step = "redis"
  /\ DeleteRedis(Key(req[w].at))
  /\ req' = [req EXCEPT ![w].step = "db"]
  /\ UNCHANGED logout

DeletesDb(w) ==
  /\ req[w].at \in Deletes /\ req[w].step = "db"
  /\ DeleteDb(req[w].proc, Key(req[w].at))
  /\ Deleted(w)

Expires(k) ==
  /\ HotCopyExpires(k)
  /\ UNCHANGED <<req, logout>>

Step ==
  \/ \E w \in Requests :
       \/ \E p \in Procs : Load(w, p)
       \/ Hold(w) \/ Finish(w) \/ Update(w) \/ Revoke(w)
       \/ \E r \in {"hit", "miss", "down"} : RedisAnswers(w, r)
       \/ \E r \in {"found", "absent", "unknown"} : DbAnswers(w, r)
       \/ Repairs(w)
       \/ \E durable \in BOOLEAN : WritesDb(w, durable)
       \/ WritesRedis(w) \/ DeletesRedis(w) \/ DeletesDb(w)
  \/ \E k \in Keys : Expires(k)

Next == Step /\ UNCHANGED failing

Spec == Init /\ [][Next]_vars

-------------------------------------------------------------------------------
(* Properties.                                                              *)

\* Once a logout has returned and what was in flight is over, no store has the
\* session: no request can restore it.
LogoutHolds ==
  logout = "done" /\ (\A w \in Requests : req[w].at \in {"idle", "held"})
    => /\ redis["session"] = "none"
       /\ "session" \notin db
       /\ \A p \in Procs : "session" \notin local[p]

\* No request has loaded the session in the period modelled: those that update it
\* or log it out had loaded it before.
NobodyLoads == \A w \in Requests : req[w].at # "load" /\ req[w].answer = "none"

\* While the stores answer, LogoutHolds of the requests that had loaded the session
\* before the logout: an update cannot restore it.  (A load can, by its renewal or
\* by the repair of the Redis copy.)
UpdatesRespectLogout == failing = {} /\ NobodyLoads => LogoutHolds

\* "A store failure is not a sign-out": a request is told that it is signed out
\* only when the session is being or has been logged out.
FailureIsNotSignOut ==
  \A w \in Requests : req[w].answer = "signedOut" => logout # "none"

\* A copy in Redis that will expire before the session is never the only one: the
\* database has a row under it until a logout begins.
HotCopyIsBacked ==
  logout = "none" /\ redis["session"] = "hot" => "session" \in db

===============================================================================
