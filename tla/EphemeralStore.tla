---------------------------- MODULE EphemeralStore ----------------------------
(***************************************************************************)
(* The store of sessions and markers (cache.ts): a row of the database     *)
(* holds a durable key for its full life, Redis a hot copy that may expire *)
(* earlier, and the memory of one process what neither would take.  Every  *)
(* call is a sequence of steps, one per await, each of which may find its  *)
(* store unavailable; a write that fails may have been carried out.        *)
(*                                                                         *)
(* A value is present or not: what it says is not told apart.              *)
(***************************************************************************)
EXTENDS Naturals

CONSTANTS
  Procs,        \* processes of the main service
  Keys,         \* durable keys
  Revocations,  \* those that are revocation marks
  Failures      \* the sets of stores that may fail in the same behaviour

ASSUME KeyAssumption == Revocations \subseteq Keys
ASSUME FailureAssumption == Failures \subseteq SUBSET {"redis", "db"}

VARIABLES
  redis,    \* redis[k]: "full" lives as long as the session, "hot" seven days
  db,       \* the keys that have a row
  local,    \* local[p]: the keys in the memory of p
  failing   \* the stores that may fail in this behaviour

RedisMayFail == "redis" \in failing
DbMayFail == "db" \in failing

store == <<redis, db, local>>

StoreTypeOK ==
  /\ redis \in [Keys -> {"none", "hot", "full"}]
  /\ db \subseteq Keys
  /\ local \in [Procs -> SUBSET Keys]
  /\ failing \in Failures

-------------------------------------------------------------------------------
(* readEphemeralValueChecked.                                               *)

\* The first step's answer r.
ReadRedis(k, r) ==
  /\ \/ r = "hit" /\ redis[k] # "none"
     \/ r = "miss" /\ redis[k] = "none"
     \/ r = "down" /\ RedisMayFail
  /\ UNCHANGED store

\* A miss of Redis may be over the budget of database reads, unless the key is
\* a revocation mark.
OverBudget(k) == k \notin Revocations

\* The second step's answer r; up says whether Redis had answered.  The memory
\* of the process is asked only when both stores are down.
ReadDb(p, k, up, r) ==
  /\ \/ r = "found" /\ k \in db
     \/ r = "absent" /\ k \notin db
     \/ r = "unknown" /\ DbMayFail /\ (up \/ k \notin local[p])
     \/ r = "found" /\ DbMayFail /\ ~up /\ k \in local[p]
  /\ UNCHANGED store

\* What the database had is put back into Redis, when that had answered.
Repair(k) ==
  /\ \/ redis' = [redis EXCEPT ![k] = "hot"]
     \/ RedisMayFail /\ UNCHANGED redis
  /\ UNCHANGED <<db, local>>

-------------------------------------------------------------------------------
(* setEphemeralValue: the database, then Redis.                             *)

SetDb(k, durable) ==
  /\ IF durable THEN db' = db \cup {k}
                ELSE DbMayFail /\ db' \in {db, db \cup {k}}
  /\ UNCHANGED <<redis, local>>

\* Mutant: a copy is kept for seven days although it is the only one.
SetRedisHot(p, k, durable) ==
  /\ redis' = [redis EXCEPT ![k] = "hot"]
  /\ UNCHANGED <<db, local>>

SetRedis(p, k, durable) ==
  LET written == [redis EXCEPT ![k] = IF durable THEN "hot" ELSE "full"]
  IN /\ \/ redis' = written /\ UNCHANGED local
        \/ /\ RedisMayFail
           /\ redis' \in {redis, written}
           /\ local' = IF durable THEN local ELSE [local EXCEPT ![p] = @ \cup {k}]
     /\ UNCHANGED db

-------------------------------------------------------------------------------
(* deleteEphemeralValue: Redis, then the database.  Failures are ignored.   *)

DeleteRedis(k) ==
  LET deleted == [redis EXCEPT ![k] = "none"]
  IN /\ redis' = deleted \/ (RedisMayFail /\ redis' \in {redis, deleted})
     /\ UNCHANGED <<db, local>>

DeleteDb(p, k) ==
  /\ db' = db \ {k} \/ (DbMayFail /\ db' \in {db, db \ {k}})
  /\ local' = [local EXCEPT ![p] = @ \ {k}]
  /\ UNCHANGED redis

-------------------------------------------------------------------------------
\* A copy in Redis ends after its seven days.
HotCopyExpires(k) ==
  /\ redis[k] = "hot"
  /\ redis' = [redis EXCEPT ![k] = "none"]
  /\ UNCHANGED <<db, local>>

===============================================================================
