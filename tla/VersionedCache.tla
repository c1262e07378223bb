--------------------------- MODULE VersionedCache ---------------------------
(***************************************************************************)
(* The versioned cache (cache.ts, withCache and bumpCacheVersion), one      *)
(* entry of one domain of it.  An entry is kept in Redis and in the memory  *)
(* of each process, under a key that has the domain's version in it.  The   *)
(* version is a counter in Redis, which a process asks for at most once a    *)
(* second, and which is raised after a change of the data: what was kept    *)
(* under the old version is not looked for any more.                        *)
(*                                                                         *)
(* Entries age: one may be served while it is renewed, or be too old.  The  *)
(* model lets an entry be of any age whenever it is read, and one too old   *)
(* stands for one that has been dropped as well.                            *)
(***************************************************************************)
EXTENDS Naturals, FiniteSets

CONSTANTS
  Procs,      \* processes of the service
  Reads,      \* callers of withCache at one time
  Writes,     \* handlers that change the data at one time
  None,       \* no value, or no answer of Redis
  MaxChanges, \* bound: changes of the data, and versions
  MaxLoads,   \* bound: loads under way at one time
  MaxFaults   \* bound: failing commands of Redis, and restarts

ASSUME CacheAssumption == {MaxChanges, MaxLoads, MaxFaults} \subseteq Nat /\ None \notin Nat

\* A value is the number of the change that it shows.
Values == 0..MaxChanges
Versions == 0..MaxChanges

VARIABLES
  data,     \* the latest committed change
  version,  \* the domain's version in Redis
  shared,   \* shared[v]: what Redis has under version v
  known,    \* known[p]: the version process p remembers
  checked,  \* processes that have asked for it within the last second
  hot,      \* hot[p][v]: what p has in its memory under version v
  load,     \* load[p][v]: p's load of that entry
  read,     \* read[r]: the call of withCache
  write,    \* write[w]: a change and its invalidation
  covers,   \* history: covers[v]: the changes that version v invalidates
  skipped,  \* history: Redis did not count an invalidation
  faults

vars == <<data, version, shared, known, checked, hot, load, read, write, covers, skipped,
          faults>>

Load == [at : {"none"}] \cup [at : {"asked"}]
        \cup [at : {"answered", "storing"}, value : Values]

Read == [at : {"idle"}]
        \cup [at : {"asking"}, proc : Procs, got : Versions]
        \cup [at : {"looking"}, proc : Procs, version : Versions, got : Values \cup {None}]
        \cup [at : {"waiting"}, proc : Procs, version : Versions]
        \cup [at : {"done"}, proc : Procs, version : Versions, value : Values]

Write == [at : {"idle"}]
         \cup [at : {"committed"}, proc : Procs, change : Values]
         \cup [at : {"bumped"}, proc : Procs, next : Versions]

TypeOK ==
  /\ data \in Values /\ version \in Versions
  /\ shared \in [Versions -> Values \cup {None}]
  /\ known \in [Procs -> Versions] /\ checked \subseteq Procs
  /\ hot \in [Procs -> [Versions -> Values \cup {None}]]
  /\ load \in [Procs -> [Versions -> Load]]
  /\ read \in [Reads -> Read]
  /\ write \in [Writes -> Write]
  /\ covers \in [Versions -> Values] /\ skipped \in BOOLEAN
  /\ faults \in 0..MaxFaults

Idle == [at |-> "idle"]
NoLoad == [at |-> "none"]

Init ==
  /\ data = 0 /\ version = 0
  /\ shared = [v \in Versions |-> None]
  /\ known = [p \in Procs |-> 0] /\ checked = {}
  /\ hot = [p \in Procs |-> [v \in Versions |-> None]]
  /\ load = [p \in Procs |-> [v \in Versions |-> NoLoad]]
  /\ read = [r \in Reads |-> Idle]
  /\ write = [w \in Writes |-> Idle]
  /\ covers = [v \in Versions |-> 0] /\ skipped = FALSE
  /\ faults = 0

redis == <<version, shared>>
remembered == <<known, checked>>
history == <<covers, skipped>>

Fault == faults < MaxFaults /\ faults' = faults + 1

-------------------------------------------------------------------------------
(* Reading.                                                                 *)

\* startCacheLoad: a load of the entry that is under way is shared.
StartLoad(p, v) ==
  IF load[p][v] # NoLoad THEN UNCHANGED load
  ELSE /\ Cardinality({l \in Procs \X Versions : load[l[1]][l[2]] # NoLoad}) < MaxLoads
       /\ load' = [load EXCEPT ![p][v] = [at |-> "asked"]]

Await(r, p, v) ==
  /\ read' = [read EXCEPT ![r] = [at |-> "waiting", proc |-> p, version |-> v]]
  /\ StartLoad(p, v)

\* A stale entry is served too, and renewed in the background.
Serve(r, p, v, value) ==
  /\ read' = [read EXCEPT ![r] = [at |-> "done", proc |-> p, version |-> v,
                                  value |-> value]]
  /\ UNCHANGED load \/ StartLoad(p, v)

\* The rest of withCache in the step in which the version is known: a caller that
\* wants a refresh loads, what is in memory is served, Redis is asked for the rest.
Look(r, p, v) ==
  \/ Await(r, p, v)
  \/ hot[p][v] # None /\ Serve(r, p, v, hot[p][v])
  \/ /\ read' = [read EXCEPT ![r] = [at |-> "looking", proc |-> p, version |-> v,
                                     got |-> shared[v]]]
     /\ UNCHANGED load

Begin(r, p) ==
  /\ read[r] = Idle
  /\ IF p \in checked THEN Look(r, p, known[p])
     ELSE /\ read' = [read EXCEPT ![r] = [at |-> "asking", proc |-> p, got |-> version]]
          /\ UNCHANGED load
  /\ UNCHANGED <<data, redis, remembered, hot, write, history, faults>>

\* Mutant: the answer is used and not remembered.
AnsweredOnly(r) ==
  /\ read[r].at = "asking"
  /\ checked' = checked \cup {read[r].proc}
  /\ Look(r, read[r].proc, read[r].got)
  /\ UNCHANGED <<data, redis, known, hot, write, history, faults>>

\* rememberLocalVersion, whatever has been remembered since Redis was asked.
Answered(r) ==
  /\ read[r].at = "asking"
  /\ known' = [known EXCEPT ![read[r].proc] = read[r].got]
  /\ checked' = checked \cup {read[r].proc}
  /\ Look(r, read[r].proc, read[r].got)
  /\ UNCHANGED <<data, redis, hot, write, history, faults>>

NotAnswered(r) ==
  /\ read[r].at = "asking"
  /\ Fault
  /\ checked' = checked \cup {read[r].proc}
  /\ Look(r, read[r].proc, known[read[r].proc])
  /\ UNCHANGED <<data, redis, known, hot, write, history>>

\* What Redis has goes into memory as well.
Found(r) ==
  /\ read[r].at = "looking"
  /\ LET p == read[r].proc  v == read[r].version  got == read[r].got
     IN \/ Await(r, p, v) /\ UNCHANGED hot
        \/ got # None /\ Serve(r, p, v, got) /\ hot' = [hot EXCEPT ![p][v] = got]
  /\ UNCHANGED <<data, redis, remembered, write, history, faults>>

\* Redis fails: the memory is looked at once more.
NotFound(r) ==
  /\ read[r].at = "looking"
  /\ Fault
  /\ LET p == read[r].proc  v == read[r].version
     IN \/ Await(r, p, v)
        \/ hot[p][v] # None /\ Serve(r, p, v, hot[p][v])
  /\ UNCHANGED <<data, redis, remembered, hot, write, history>>

Return(r) ==
  /\ read[r].at = "done"
  /\ read' = [read EXCEPT ![r] = Idle]
  /\ UNCHANGED <<data, redis, remembered, hot, load, write, history, faults>>

-------------------------------------------------------------------------------
(* Loading.                                                                 *)

Waiting(p, v) == {r \in Reads : /\ read[r].at = "waiting"
                                /\ read[r].proc = p /\ read[r].version = v}

Finish(p, v, outcome) ==
  /\ load' = [load EXCEPT ![p][v] = NoLoad]
  /\ read' = [r \in Reads |-> IF r \in Waiting(p, v) THEN outcome ELSE read[r]]

\* The loader's query.
Query(p, v) ==
  /\ load[p][v].at = "asked"
  /\ load' = [load EXCEPT ![p][v] = [at |-> "answered", value |-> data]]
  /\ UNCHANGED <<data, redis, remembered, hot, read, write, history, faults>>

\* It fails for all who wait.
LoadFails(p, v) ==
  /\ load[p][v].at \in {"asked", "answered"}
  /\ Finish(p, v, Idle)
  /\ UNCHANGED <<data, redis, remembered, hot, write, history, faults>>

Loaded(p, v) ==
  /\ load[p][v].at = "answered"
  /\ hot' = [hot EXCEPT ![p][v] = load[p][v].value]
  /\ load' = [load EXCEPT ![p][v] = [at |-> "storing", value |-> load[p][v].value]]
  /\ UNCHANGED <<data, redis, remembered, read, write, history, faults>>

Answer(p, v) == [at |-> "done", proc |-> p, version |-> v, value |-> load[p][v].value]

\* Mutant: the key is made when the value is stored.
StoredUnderLatest(p, v) ==
  /\ load[p][v].at = "storing"
  /\ shared' = [shared EXCEPT ![version] = load[p][v].value]
  /\ Finish(p, v, Answer(p, v))
  /\ UNCHANGED <<data, version, remembered, hot, write, history, faults>>

\* Redis takes it.
Stored(p, v) ==
  /\ load[p][v].at = "storing"
  /\ shared' = [shared EXCEPT ![v] = load[p][v].value]
  /\ Finish(p, v, Answer(p, v))
  /\ UNCHANGED <<data, version, remembered, hot, write, history, faults>>

\* Redis fails, whether or not it has taken it: it goes into memory once more.
NotStored(p, v) ==
  /\ load[p][v].at = "storing"
  /\ Fault
  /\ UNCHANGED shared \/ shared' = [shared EXCEPT ![v] = load[p][v].value]
  /\ hot' = [hot EXCEPT ![p][v] = load[p][v].value]
  /\ Finish(p, v, Answer(p, v))
  /\ UNCHANGED <<data, version, remembered, write, history>>

-------------------------------------------------------------------------------
(* Changing the data.                                                       *)

\* A handler commits a change; the routes and services that do so invalidate the
\* domain next.
Commit(w, p) ==
  /\ write[w] = Idle
  /\ data < MaxChanges
  /\ data' = data + 1
  /\ write' = [write EXCEPT ![w] = [at |-> "committed", proc |-> p, change |-> data + 1]]
  /\ UNCHANGED <<redis, remembered, hot, load, read, history, faults>>

Larger(a, b) == IF a > b THEN a ELSE b

\* incrementRedisKey.
Count(change) ==
  /\ version < MaxChanges
  /\ version' = version + 1
  /\ covers' = [covers EXCEPT ![version + 1] = Larger(covers[version], change)]

Bump(w) ==
  /\ write[w].at = "committed"
  /\ Count(write[w].change)
  /\ write' = [write EXCEPT ![w] = [at |-> "bumped", proc |-> write[w].proc,
                                    next |-> version + 1]]
  /\ UNCHANGED <<data, shared, remembered, hot, load, read, skipped, faults>>

Bumped(w) ==
  /\ write[w].at = "bumped"
  /\ known' = [known EXCEPT ![write[w].proc] = write[w].next]
  /\ checked' = checked \cup {write[w].proc}
  /\ write' = [write EXCEPT ![w] = Idle]
  /\ UNCHANGED <<data, redis, hot, load, read, history, faults>>

\* Redis fails, whether or not it has counted: the process counts for itself.
BumpFails(w) ==
  /\ write[w].at = "committed"
  /\ Fault
  /\ known[write[w].proc] < MaxChanges
  /\ \/ Count(write[w].change) /\ UNCHANGED skipped
     \/ skipped' = TRUE /\ UNCHANGED <<version, covers>>
  /\ known' = [known EXCEPT ![write[w].proc] = @ + 1]
  /\ checked' = checked \cup {write[w].proc}
  /\ write' = [write EXCEPT ![w] = Idle]
  /\ UNCHANGED <<data, shared, hot, load, read>>

-------------------------------------------------------------------------------
\* A second passes.
Expire(p) ==
  /\ p \in checked
  /\ checked' = checked \ {p}
  /\ UNCHANGED <<data, redis, known, hot, load, read, write, history, faults>>

\* A process restarts; an invalidation that it had not sent is never sent.
Restart(p) ==
  /\ Fault
  /\ known' = [known EXCEPT ![p] = 0]
  /\ checked' = checked \ {p}
  /\ hot' = [hot EXCEPT ![p] = [v \in Versions |-> None]]
  /\ load' = [load EXCEPT ![p] = [v \in Versions |-> NoLoad]]
  /\ read' = [r \in Reads |-> IF read[r] # Idle /\ read[r].proc = p THEN Idle ELSE read[r]]
  /\ write' = [w \in Writes |-> IF write[w] # Idle /\ write[w].proc = p THEN Idle
                                ELSE write[w]]
  /\ UNCHANGED <<data, redis, history>>

ReadSteps(r) == Answered(r) \/ NotAnswered(r) \/ Found(r) \/ NotFound(r) \/ Return(r)
LoadSteps(p, v) == Query(p, v) \/ LoadFails(p, v) \/ Loaded(p, v)
                    \/ Stored(p, v) \/ NotStored(p, v)

Next ==
  \/ \E r \in Reads : ReadSteps(r) \/ \E p \in Procs : Begin(r, p)
  \/ \E w \in Writes : Bump(w) \/ Bumped(w) \/ BumpFails(w) \/ \E p \in Procs : Commit(w, p)
  \/ \E p \in Procs : \/ Expire(p) \/ Restart(p)
                      \/ \E v \in Versions : LoadSteps(p, v)

Spec == Init /\ [][Next]_vars

\* Commands and queries are answered or fail, and time passes.
FairSpec ==
  /\ Spec
  /\ \A r \in Reads : WF_vars(ReadSteps(r))
  /\ \A w \in Writes : WF_vars(Bumped(w))
  /\ \A p \in Procs : WF_vars(Expire(p)) /\ \A v \in Versions : WF_vars(LoadSteps(p, v))

-------------------------------------------------------------------------------
(* Properties.                                                              *)

\* "never serves the stale value from an older version": what is served under a version is
\* at least as new as all that the version invalidates, whoever loaded it, whenever,
\* into Redis or memory.  (An invalidation that Redis did not count gives a process a
\* version that Redis gives to a later one.)
ServedIsValid ==
  ~skipped => \A r \in Reads : read[r].at = "done" => read[r].value >= covers[read[r].version]

\* An invalidation reaches every process: from some time on nobody is served what it
\* invalidates.  (The process that sent it may go back for a while, when an answer that Redis
\* gave before comes after.)
InvalidationsReach ==
  \A d \in 1..MaxChanges :
    covers[version] >= d ~>
      skipped \/ [](\A r \in Reads : read[r].at = "done" => read[r].value >= d)

===============================================================================
