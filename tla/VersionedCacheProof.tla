-------------------------- MODULE VersionedCacheProof --------------------------
(***************************************************************************)
(* Proofs about VersionedCache, for any processes, callers and bounds.      *)
(***************************************************************************)
EXTENDS VersionedCache, TLAPS

USE CacheAssumption DEF Values, Versions

-------------------------------------------------------------------------------
(* Types.                                                                   *)

LEMMA StartLoadType ==
  ASSUME TypeOK, NEW p \in Procs, NEW v \in Versions, StartLoad(p, v)
  PROVE  load' \in [Procs -> [Versions -> Load]]
<1>1. load \in [Procs -> [Versions -> Load]]
  BY DEF TypeOK
<1>2. [at |-> "asked"] \in Load
  BY DEF Load
<1>3. load' = load \/ load' = [load EXCEPT ![p][v] = [at |-> "asked"]]
  BY ZenonT(30) DEF StartLoad
<1>4. QED
  BY <1>1, <1>2, <1>3

LEMMA AwaitType ==
  ASSUME TypeOK, NEW r \in Reads, NEW p \in Procs, NEW v \in Versions, Await(r, p, v)
  PROVE  read' \in [Reads -> Read] /\ load' \in [Procs -> [Versions -> Load]]
<1>1. [at |-> "waiting", proc |-> p, version |-> v] \in Read
  BY DEF Read
<1>2. QED
  BY <1>1, StartLoadType DEF TypeOK, Await

LEMMA ServeType ==
  ASSUME TypeOK, NEW r \in Reads, NEW p \in Procs, NEW v \in Versions, NEW x \in Values,
         Serve(r, p, v, x)
  PROVE  read' \in [Reads -> Read] /\ load' \in [Procs -> [Versions -> Load]]
<1>1. [at |-> "done", proc |-> p, version |-> v, value |-> x] \in Read
  BY DEF Read
<1>2. QED
  BY <1>1, StartLoadType DEF TypeOK, Serve

LEMMA LookType ==
  ASSUME TypeOK, NEW r \in Reads, NEW p \in Procs, NEW v \in Versions, Look(r, p, v)
  PROVE  read' \in [Reads -> Read] /\ load' \in [Procs -> [Versions -> Load]]
<1>1. hot[p][v] \in Values \cup {None} /\ shared[v] \in Values \cup {None}
  BY DEF TypeOK
<1>2. [at |-> "looking", proc |-> p, version |-> v, got |-> shared[v]] \in Read
  BY <1>1 DEF Read
<1>3. CASE Await(r, p, v)
  BY <1>3, AwaitType
<1>4. CASE hot[p][v] # None /\ Serve(r, p, v, hot[p][v])
  BY <1>1, <1>4, ServeType
<1>5. CASE UNCHANGED load
           /\ read' = [read EXCEPT ![r] = [at |-> "looking", proc |-> p, version |-> v,
                                           got |-> shared[v]]]
  BY <1>2, <1>5 DEF TypeOK
<1>6. QED
  BY <1>3, <1>4, <1>5 DEF Look

\* The fields of a call and of a change.
LEMMA ReadFields ==
  ASSUME TypeOK, NEW r \in Reads
  PROVE  /\ read[r] \in Read
         /\ read[r].at = "asking" => read[r].proc \in Procs /\ read[r].got \in Versions
         /\ read[r].at = "looking" => /\ read[r].proc \in Procs /\ read[r].version \in Versions
                                      /\ read[r].got \in Values \cup {None}
         /\ read[r].at = "waiting" => read[r].proc \in Procs /\ read[r].version \in Versions
         /\ read[r].at = "done" => read[r].version \in Versions /\ read[r].value \in Values
  BY DEF TypeOK, Read

LEMMA WriteFields ==
  ASSUME TypeOK, NEW w \in Writes
  PROVE  /\ write[w].at = "committed" => write[w].proc \in Procs /\ write[w].change \in Values
         /\ write[w].at = "bumped" => write[w].proc \in Procs /\ write[w].next \in Versions
  BY DEF TypeOK, Write

LEMMA LoadFields ==
  ASSUME TypeOK, NEW p \in Procs, NEW v \in Versions
  PROVE  /\ load[p][v] \in Load
         /\ load[p][v].at \in {"answered", "storing"} => load[p][v].value \in Values
<1>1. load[p][v] \in Load
  BY DEF TypeOK
<1>2. QED
  BY <1>1 DEF Load

LEMMA CountType ==
  ASSUME TypeOK, NEW change \in Values, Count(change)
  PROVE  version' \in Versions /\ covers' \in [Versions -> Values]
  BY DEF TypeOK, Count, Larger

LEMMA IdleTypes == Idle \in Read /\ Idle \in Write /\ NoLoad \in Load
  BY DEF Idle, NoLoad, Read, Write, Load

\* A load that ends leaves its callers with a good answer, or with none.
LEMMA FinishType ==
  ASSUME TypeOK, NEW p \in Procs, NEW v \in Versions, NEW x \in Read, Finish(p, v, x)
  PROVE  read' \in [Reads -> Read] /\ load' \in [Procs -> [Versions -> Load]]
<1>1. load \in [Procs -> [Versions -> Load]] /\ read \in [Reads -> Read]
  BY DEF TypeOK
<1>2. QED
  BY <1>1, IdleTypes DEF Finish

LEMMA AnswerType ==
  ASSUME NEW p \in Procs, NEW v \in Versions, load[p][v].value \in Values
  PROVE  Answer(p, v) \in Read
  BY DEF Answer, Read

LEMMA TypeNext == TypeOK /\ [Next]_vars => TypeOK'
<1> SUFFICES ASSUME TypeOK, [Next]_vars PROVE TypeOK'
  OBVIOUS
<1> USE DEF TypeOK
<1>1. ASSUME NEW r \in Reads, NEW p \in Procs, Begin(r, p) PROVE TypeOK'
  <2>1. CASE p \in checked /\ Look(r, p, known[p])
    BY <1>1, <2>1, LookType DEF Begin, redis, remembered, history
  <2>2. CASE /\ read' = [read EXCEPT ![r] = [at |-> "asking", proc |-> p, got |-> version]]
             /\ UNCHANGED load
    <3>1. [at |-> "asking", proc |-> p, got |-> version] \in Read
      BY DEF Read
    <3>2. QED
      BY <1>1, <2>2, <3>1 DEF Begin, redis, remembered, history
  <2>3. QED
    BY <1>1, <2>1, <2>2 DEF Begin
<1>2. ASSUME NEW r \in Reads, Answered(r) PROVE TypeOK'
  <2>1. read[r].proc \in Procs /\ read[r].got \in Versions
    BY <1>2, ReadFields DEF Answered
  <2>2. read' \in [Reads -> Read] /\ load' \in [Procs -> [Versions -> Load]]
    BY <1>2, <2>1, LookType DEF Answered
  <2>3. QED
    BY <1>2, <2>1, <2>2 DEF Answered, redis, history
<1>3. ASSUME NEW r \in Reads, NotAnswered(r) PROVE TypeOK'
  <2>1. read[r].proc \in Procs /\ known[read[r].proc] \in Versions
    BY <1>3, ReadFields DEF NotAnswered
  <2>2. read' \in [Reads -> Read] /\ load' \in [Procs -> [Versions -> Load]]
    BY <1>3, <2>1, LookType DEF NotAnswered
  <2>3. QED
    BY <1>3, <2>1, <2>2 DEF NotAnswered, Fault, redis, history
<1>4. ASSUME NEW r \in Reads, Found(r) PROVE TypeOK'
  <2> DEFINE p == read[r].proc  v == read[r].version  got == read[r].got
  <2>1. p \in Procs /\ v \in Versions /\ got \in Values \cup {None}
    BY <1>4, ReadFields DEF Found
  <2>2. CASE Await(r, p, v) /\ UNCHANGED hot
    BY <1>4, <2>1, <2>2, AwaitType DEF Found, redis, remembered, history
  <2>3. CASE got # None /\ Serve(r, p, v, got) /\ hot' = [hot EXCEPT ![p][v] = got]
    BY <1>4, <2>1, <2>3, ServeType DEF Found, redis, remembered, history
  <2>4. QED
    BY <1>4, <2>2, <2>3 DEF Found
<1>5. ASSUME NEW r \in Reads, NotFound(r) PROVE TypeOK'
  <2> DEFINE p == read[r].proc  v == read[r].version
  <2>1. p \in Procs /\ v \in Versions /\ hot[p][v] \in Values \cup {None}
    BY <1>5, ReadFields DEF NotFound
  <2>2. read' \in [Reads -> Read] /\ load' \in [Procs -> [Versions -> Load]]
    BY <1>5, <2>1, AwaitType, ServeType DEF NotFound
  <2>3. QED
    BY <1>5, <2>2 DEF NotFound, Fault, redis, remembered, history
<1>6. ASSUME NEW r \in Reads, Return(r) PROVE TypeOK'
  BY <1>6, IdleTypes DEF Return, redis, remembered, history
<1>7. ASSUME NEW p \in Procs, NEW v \in Versions, Query(p, v) PROVE TypeOK'
  <2>1. [at |-> "answered", value |-> data] \in Load
    BY DEF Load
  <2>2. QED
    BY <1>7, <2>1 DEF Query, redis, remembered, history
<1>8. ASSUME NEW p \in Procs, NEW v \in Versions, LoadFails(p, v) PROVE TypeOK'
  <2>1. read' \in [Reads -> Read] /\ load' \in [Procs -> [Versions -> Load]]
    BY <1>8, FinishType, IdleTypes DEF LoadFails
  <2>2. QED
    BY <1>8, <2>1 DEF LoadFails, redis, remembered, history
<1>9. ASSUME NEW p \in Procs, NEW v \in Versions, Loaded(p, v) PROVE TypeOK'
  <2>1. load[p][v].value \in Values
    BY <1>9, LoadFields DEF Loaded
  <2>2. [at |-> "storing", value |-> load[p][v].value] \in Load
    BY <2>1 DEF Load
  <2>3. QED
    BY <1>9, <2>1, <2>2 DEF Loaded, redis, remembered, history
<1>10. ASSUME NEW p \in Procs, NEW v \in Versions, Stored(p, v) \/ NotStored(p, v)
       PROVE  TypeOK'
  <2>1. load[p][v].value \in Values
    BY <1>10, LoadFields DEF Stored, NotStored
  <2>2. read' \in [Reads -> Read] /\ load' \in [Procs -> [Versions -> Load]]
    BY <1>10, <2>1, FinishType, AnswerType DEF Stored, NotStored
  <2>3. CASE Stored(p, v)
    BY <2>1, <2>2, <2>3 DEF Stored, remembered, history
  <2>4. CASE NotStored(p, v)
    <3>1. shared' \in [Versions -> Values \cup {None}]
      BY <2>1, <2>4 DEF NotStored
    <3>a. faults' \in 0..MaxFaults
      BY <2>4 DEF NotStored, Fault
    <3>2. hot' \in [Procs -> [Versions -> Values \cup {None}]]
      BY <2>1, <2>4 DEF NotStored
    <3>3. QED
      BY <2>2, <2>4, <3>1, <3>a, <3>2 DEF NotStored, remembered, history
  <2>5. QED
    BY <1>10, <2>3, <2>4
<1>11. ASSUME NEW w \in Writes, NEW p \in Procs, Commit(w, p) PROVE TypeOK'
  <2>1. [at |-> "committed", proc |-> p, change |-> data + 1] \in Write /\ data' \in Values
    BY <1>11 DEF Commit, Write
  <2>2. QED
    BY <1>11, <2>1 DEF Commit, redis, remembered, history
<1>12. ASSUME NEW w \in Writes, Bump(w) PROVE TypeOK'
  <2>1. write[w].proc \in Procs /\ write[w].change \in Values
    BY <1>12, WriteFields DEF Bump
  <2>2. version' \in Versions /\ covers' \in [Versions -> Values]
    BY <1>12, <2>1, CountType DEF Bump
  <2>3. [at |-> "bumped", proc |-> write[w].proc, next |-> version + 1] \in Write
    BY <1>12, <2>1, <2>2 DEF Bump, Count, Write
  <2>4. QED
    BY <1>12, <2>2, <2>3 DEF Bump, remembered
<1>13. ASSUME NEW w \in Writes, Bumped(w) PROVE TypeOK'
  BY <1>13, WriteFields, IdleTypes DEF Bumped, redis, history
<1>14. ASSUME NEW w \in Writes, BumpFails(w) PROVE TypeOK'
  <2>1. write[w].proc \in Procs /\ write[w].change \in Values
    BY <1>14, WriteFields DEF BumpFails
  <2>2. version' \in Versions /\ covers' \in [Versions -> Values] /\ skipped' \in BOOLEAN
    BY <1>14, <2>1, CountType DEF BumpFails
  <2>3. known' \in [Procs -> Versions]
    BY <1>14, <2>1 DEF BumpFails
  <2>4. QED
    BY <1>14, <2>1, <2>2, <2>3, IdleTypes DEF BumpFails, Fault
<1>15. ASSUME NEW p \in Procs, Expire(p) \/ Restart(p) PROVE TypeOK'
  <2>1. CASE Expire(p)
    BY <2>1 DEF Expire, redis, history
  <2>2. CASE Restart(p)
    <3>1. /\ known' \in [Procs -> Versions] /\ checked' \subseteq Procs
          /\ hot' \in [Procs -> [Versions -> Values \cup {None}]]
      BY <2>2 DEF Restart
    <3>2. /\ load' \in [Procs -> [Versions -> Load]]
          /\ read' \in [Reads -> Read] /\ write' \in [Writes -> Write]
      BY <2>2, IdleTypes DEF Restart
    <3>3. QED
      BY <2>2, <3>1, <3>2 DEF Restart, Fault, redis, history
  <2>3. QED
    BY <1>15, <2>1, <2>2
<1>16. CASE UNCHANGED vars
  BY <1>16 DEF vars
<1>17. QED
  BY <1>1, <1>2, <1>3, <1>4, <1>5, <1>6, <1>7, <1>8, <1>9, <1>10, <1>11, <1>12, <1>13,
     <1>14, <1>15, <1>16 DEF Next, ReadSteps, LoadSteps

LEMMA TypeInit == Init => TypeOK
<1> SUFFICES ASSUME Init PROVE TypeOK
  OBVIOUS
<1>1. 0 \in Values /\ 0 \in 0..MaxFaults
  OBVIOUS
<1>2. /\ shared \in [Versions -> Values \cup {None}] /\ known \in [Procs -> Versions]
      /\ hot \in [Procs -> [Versions -> Values \cup {None}]]
      /\ covers \in [Versions -> Values]
  BY <1>1 DEF Init
<1>3. /\ load \in [Procs -> [Versions -> Load]]
      /\ read \in [Reads -> Read] /\ write \in [Writes -> Write]
  BY IdleTypes DEF Init
<1>4. QED
  BY <1>1, <1>2, <1>3 DEF Init, TypeOK

\* Every variable has values of its type, for any processes, callers and bounds.
THEOREM TypeCorrect == Spec => []TypeOK
  BY TypeInit, TypeNext, PTL DEF Spec

-------------------------------------------------------------------------------
(* Validity: as long as Redis counts every invalidation, what is kept under a  *)
(* version, anywhere and on its way, shows all changes the version covers.     *)

Good(v, x) == v <= version /\ covers[v] <= x

SharedValid == \A v \in Versions : shared[v] # None => Good(v, shared[v])

HotValid == \A p \in Procs : \A v \in Versions : hot[p][v] # None => Good(v, hot[p][v])

LoadValid ==
  \A p \in Procs : \A v \in Versions :
    /\ load[p][v].at # "none" => v <= version
    /\ load[p][v].at \in {"answered", "storing"} => Good(v, load[p][v].value)

ReadIsValid(o) ==
  /\ o.at = "asking" => o.got <= version
  /\ o.at \in {"looking", "waiting", "done"} => o.version <= version
  /\ o.at = "looking" /\ o.got # None => Good(o.version, o.got)
  /\ o.at = "done" => Good(o.version, o.value)

WriteIsValid(o) ==
  /\ o.at = "committed" => o.change <= data
  /\ o.at = "bumped" => o.next <= version

ReadsValid == \A r \in Reads : ReadIsValid(read[r])
WritesValid == \A w \in Writes : WriteIsValid(write[w])

VersionsValid ==
  /\ \A p \in Procs : known[p] <= version
  /\ \A v \in Versions : covers[v] <= data

Valid == /\ SharedValid /\ HotValid /\ LoadValid
         /\ ReadsValid /\ WritesValid /\ VersionsValid

CacheInv == TypeOK /\ (~skipped => Valid)

\* The changes of the version, the data and the history in a step.
Versioning ==
  \/ UNCHANGED <<version, covers>> /\ data' \in {data, data + 1}
  \/ /\ UNCHANGED data
     /\ \E change \in Values : change <= data /\ Count(change)

\* A newer version is for entries that do not exist yet.
LEMMA GoodStays ==
  ASSUME TypeOK, Versioning, NEW v \in Versions, NEW x, Good(v, x)
  PROVE  v <= version' /\ covers'[v] <= x
  BY DEF TypeOK, Good, Count, Versioning

LEMMA VersionsGrow ==
  ASSUME TypeOK, Versioning
  PROVE  /\ version <= version' /\ data <= data' /\ version \in Nat /\ version' \in Nat
         /\ data \in Nat /\ data' \in Nat
  BY DEF TypeOK, Versioning, Count

LEMMA CoversStay ==
  ASSUME TypeOK, Versioning, VersionsValid, NEW v \in Versions
  PROVE  covers'[v] <= data'
<1>1. covers[v] \in Nat /\ covers[v] <= data /\ covers[version] <= data /\ data \in Nat
      /\ covers \in [Versions -> Values] /\ version \in Versions /\ covers[version] \in Nat
  <2>1. covers \in [Versions -> Values] /\ version \in Versions /\ data \in Nat
    BY DEF TypeOK
  <2>2. covers[v] \in Values /\ covers[version] \in Values
    BY <2>1
  <2>3. QED
    BY <2>1, <2>2 DEF VersionsValid
<1>2. CASE UNCHANGED <<version, covers>> /\ data' \in {data, data + 1}
  BY <1>1, <1>2
<1>3. ASSUME NEW change \in Values, change <= data, Count(change), UNCHANGED data
      PROVE  covers'[v] <= data'
  BY <1>1, <1>3 DEF Count, Larger
<1>4. QED
  BY <1>2, <1>3 DEF Versioning

\* What a step leaves alone stays valid.
LEMMA SharedStays ==
  ASSUME TypeOK, Versioning, SharedValid, UNCHANGED shared
  PROVE  SharedValid'
  BY GoodStays DEF SharedValid, Good

LEMMA HotStays ==
  ASSUME TypeOK, Versioning, HotValid, UNCHANGED hot
  PROVE  HotValid'
  BY GoodStays DEF HotValid, Good

LEMMA LoadStays ==
  ASSUME TypeOK, Versioning, LoadValid, UNCHANGED load
  PROVE  LoadValid'
<1> SUFFICES ASSUME NEW p \in Procs, NEW v \in Versions
             PROVE  /\ load[p][v].at # "none" => v <= version'
                    /\ load[p][v].at \in {"answered", "storing"} =>
                         v <= version' /\ covers'[v] <= load[p][v].value
  BY DEF LoadValid, Good
<1>1. v \in Nat
  OBVIOUS
<1>2. QED
  BY <1>1, GoodStays, VersionsGrow DEF LoadValid

\* A call that is left alone.
LEMMA ReadStays ==
  ASSUME TypeOK, Versioning, NEW r \in Reads, ReadIsValid(read[r]), read'[r] = read[r]
  PROVE  ReadIsValid(read[r])'
<1> DEFINE o == read[r]
<1>1. /\ o.at = "asking" => o.got \in Nat
      /\ o.at \in {"looking", "waiting", "done"} => o.version \in Versions
  BY ReadFields
<1>2. /\ o.at = "asking" => o.got <= version'
      /\ o.at \in {"looking", "waiting", "done"} => o.version <= version'
  BY <1>1, VersionsGrow DEF ReadIsValid
<1>3. /\ o.at = "looking" /\ o.got # None => covers'[o.version] <= o.got
      /\ o.at = "done" => covers'[o.version] <= o.value
  BY <1>1, GoodStays DEF ReadIsValid
<1>4. QED
  BY <1>2, <1>3 DEF ReadIsValid, Good

LEMMA WriteStays ==
  ASSUME TypeOK, Versioning, NEW w \in Writes, WriteIsValid(write[w]), write'[w] = write[w]
  PROVE  WriteIsValid(write[w])'
<1>1. /\ write[w].at = "committed" => write[w].change \in Nat
      /\ write[w].at = "bumped" => write[w].next \in Nat
  BY WriteFields
<1>2. QED
  BY <1>1, VersionsGrow DEF WriteIsValid

\* A step that changes nothing but the version, the data or the memory of versions.
LEMMA KnownStays ==
  ASSUME TypeOK, Versioning, VersionsValid, UNCHANGED known
  PROVE  VersionsValid'
  BY VersionsGrow, CoversStay DEF VersionsValid, TypeOK

\* Most steps leave the versions and the data alone.
LEMMA Unversioned ==
  ASSUME UNCHANGED <<data, version, covers>>
  PROVE  Versioning
  BY DEF Versioning

LEMMA OthersReadOn ==
  ASSUME TypeOK, Versioning, ReadsValid,
         \A r \in Reads : read'[r] = read[r] \/ ReadIsValid(read[r])'
  PROVE  ReadsValid'
  BY ReadStays DEF ReadsValid

LEMMA OthersWriteOn ==
  ASSUME TypeOK, Versioning, WritesValid,
         \A w \in Writes : write'[w] = write[w] \/ WriteIsValid(write[w])'
  PROVE  WritesValid'
  BY WriteStays DEF WritesValid

\* What a call of withCache does with a valid version.
LEMMA StartLoadIsValid ==
  ASSUME TypeOK, LoadValid, UNCHANGED <<version, covers>>,
         NEW p \in Procs, NEW v \in Versions, v <= version, StartLoad(p, v)
  PROVE  LoadValid'
<1>1. load \in [Procs -> [Versions -> Load]]
  BY DEF TypeOK
<1>2. load' = load \/ load' = [load EXCEPT ![p][v] = [at |-> "asked"]]
  BY ZenonT(30) DEF StartLoad
<1>3. QED
  BY <1>1, <1>2 DEF LoadValid, Good

LEMMA AwaitIsValid ==
  ASSUME TypeOK, LoadValid, UNCHANGED <<version, covers>>,
         NEW r \in Reads, NEW p \in Procs, NEW v \in Versions, v <= version, Await(r, p, v)
  PROVE  /\ LoadValid' /\ ReadIsValid(read[r])'
         /\ \A q \in Reads : q # r => read'[q] = read[q]
<1>1. read' = [read EXCEPT ![r] = [at |-> "waiting", proc |-> p, version |-> v]]
      /\ read \in [Reads -> Read]
  BY DEF Await, TypeOK
<1>2. read'[r] = [at |-> "waiting", proc |-> p, version |-> v]
      /\ \A q \in Reads : q # r => read'[q] = read[q]
  BY <1>1
<1>3. ReadIsValid(read[r])'
  BY <1>2 DEF ReadIsValid
<1>4. QED
  BY <1>2, <1>3, StartLoadIsValid DEF Await

LEMMA ServeIsValid ==
  ASSUME TypeOK, LoadValid, UNCHANGED <<version, covers>>,
         NEW r \in Reads, NEW p \in Procs, NEW v \in Versions, NEW x, Good(v, x),
         Serve(r, p, v, x)
  PROVE  /\ LoadValid' /\ ReadIsValid(read[r])'
         /\ \A q \in Reads : q # r => read'[q] = read[q]
<1>1. read' = [read EXCEPT ![r] = [at |-> "done", proc |-> p, version |-> v, value |-> x]]
      /\ read \in [Reads -> Read]
  BY DEF Serve, TypeOK
<1>2. read'[r] = [at |-> "done", proc |-> p, version |-> v, value |-> x]
      /\ \A q \in Reads : q # r => read'[q] = read[q]
  BY <1>1
<1>3. ReadIsValid(read[r])'
  BY <1>2 DEF ReadIsValid, Good
<1>4. LoadValid'
  BY StartLoadIsValid DEF Serve, Good, LoadValid
<1>5. QED
  BY <1>2, <1>3, <1>4

LEMMA LookIsValid ==
  ASSUME TypeOK, LoadValid, HotValid, SharedValid, UNCHANGED <<version, covers>>,
         NEW r \in Reads, NEW p \in Procs, NEW v \in Versions, v <= version, Look(r, p, v)
  PROVE  /\ LoadValid' /\ ReadIsValid(read[r])'
         /\ \A q \in Reads : q # r => read'[q] = read[q]
<1>1. CASE Await(r, p, v)
  BY <1>1, AwaitIsValid
<1>2. CASE hot[p][v] # None /\ Serve(r, p, v, hot[p][v])
  BY <1>2, ServeIsValid DEF HotValid
<1>3. CASE UNCHANGED load
           /\ read' = [read EXCEPT ![r] = [at |-> "looking", proc |-> p, version |-> v,
                                           got |-> shared[v]]]
  <2>1. read'[r] = [at |-> "looking", proc |-> p, version |-> v, got |-> shared[v]]
        /\ \A q \in Reads : q # r => read'[q] = read[q]
    BY <1>3 DEF TypeOK
  <2>2. ReadIsValid(read[r])'
    BY <2>1 DEF ReadIsValid, SharedValid, Good
  <2>3. QED
    BY <1>3, <2>1, <2>2 DEF LoadValid, Good
<1>4. QED
  BY <1>1, <1>2, <1>3 DEF Look

\* The steps of a call.
LEMMA ReadingIsValid ==
  ASSUME TypeOK, Valid, NEW r \in Reads,
         ReadSteps(r) \/ \E p \in Procs : Begin(r, p)
  PROVE  Valid'
<1>1. UNCHANGED <<data, version, covers, shared, write>>
  BY DEF ReadSteps, Begin, Answered, NotAnswered, Found, NotFound, Return, redis, history
<1>2. /\ LoadValid' /\ HotValid' /\ ReadIsValid(read[r])'
      /\ \A q \in Reads : q # r => read'[q] = read[q]
      /\ \A p \in Procs : known'[p] <= version
  <2> USE DEF Valid
  <2>1. CASE \E p \in Procs : Begin(r, p)
    <3>1. PICK p \in Procs : Begin(r, p)
      BY <2>1
    <3>2. CASE Look(r, p, known[p])
      BY <1>1, <3>1, <3>2, LookIsValid DEF Begin, TypeOK, VersionsValid, remembered,
           HotValid, Good
    <3>3. CASE /\ read' = [read EXCEPT ![r] = [at |-> "asking", proc |-> p, got |-> version]]
               /\ UNCHANGED load
      <4>1. read'[r] = [at |-> "asking", proc |-> p, got |-> version]
            /\ \A q \in Reads : q # r => read'[q] = read[q]
        BY <3>3 DEF TypeOK
      <4>2. ReadIsValid(read[r])'
        BY <1>1, <4>1 DEF ReadIsValid, TypeOK
      <4>3. QED
        BY <1>1, <3>1, <3>3, <4>1, <4>2 DEF Begin, VersionsValid, remembered, HotValid,
             LoadValid, Good
    <3>4. QED
      BY <3>1, <3>2, <3>3 DEF Begin
  <2>2. CASE Answered(r) \/ NotAnswered(r)
    <3> DEFINE p == read[r].proc
    <3>1. /\ p \in Procs /\ known[p] \in Versions /\ known[p] <= version
          /\ read[r].at = "asking" /\ read[r].got \in Versions /\ read[r].got <= version
      BY <2>2, ReadFields DEF Answered, NotAnswered, TypeOK, VersionsValid, ReadsValid,
           ReadIsValid
    <3>2. PICK v \in {read[r].got, known[p]} : Look(r, p, v)
      BY <2>2 DEF Answered, NotAnswered
    <3>3. HotValid' /\ \A q \in Procs : known'[q] <= version
      BY <1>1, <2>2, <3>1 DEF Answered, NotAnswered, TypeOK, VersionsValid, HotValid, Good
    <3>4. QED
      BY <1>1, <3>1, <3>2, <3>3, LookIsValid
  <2>3. CASE Found(r) \/ NotFound(r)
    <3> DEFINE p == read[r].proc  v == read[r].version  got == read[r].got
    <3>1. /\ read[r].at = "looking" /\ p \in Procs /\ v \in Versions /\ v <= version
          /\ got # None => Good(v, got)
      BY <2>3, ReadFields DEF Found, NotFound, ReadsValid, ReadIsValid
    <3>2. \A q \in Procs : known'[q] <= version
      BY <2>3 DEF Found, NotFound, VersionsValid, remembered
    <3>3. CASE Await(r, p, v) /\ UNCHANGED hot
      BY <1>1, <3>1, <3>2, <3>3, AwaitIsValid DEF HotValid, Good
    <3>4. CASE got # None /\ Serve(r, p, v, got) /\ hot' = [hot EXCEPT ![p][v] = got]
      <4>1. HotValid'
        BY <1>1, <3>1, <3>4 DEF HotValid, Good, TypeOK
      <4>2. QED
        BY <1>1, <3>1, <3>2, <3>4, <4>1, ServeIsValid
    <3>5. CASE hot[p][v] # None /\ Serve(r, p, v, hot[p][v]) /\ UNCHANGED hot
      <4>1. Good(v, hot[p][v]) /\ HotValid'
        BY <1>1, <3>1, <3>5 DEF HotValid, Good
      <4>2. QED
        BY <1>1, <3>1, <3>2, <3>5, <4>1, ServeIsValid
    <3>6. QED
      BY <2>3, <3>3, <3>4, <3>5 DEF Found, NotFound
  <2>4. CASE Return(r)
    <3>1. read'[r] = Idle /\ \A q \in Reads : q # r => read'[q] = read[q]
      BY <2>4 DEF Return, TypeOK
    <3>2. ReadIsValid(read[r])'
      BY <3>1 DEF ReadIsValid, Idle
    <3>3. QED
      BY <1>1, <2>4, <3>1, <3>2 DEF Return, HotValid, LoadValid, Good, VersionsValid,
           remembered
  <2>5. QED
    BY <2>1, <2>2, <2>3, <2>4 DEF ReadSteps
<1>3. Versioning
  BY <1>1, Unversioned
<1>4. SharedValid' /\ WritesValid'
  BY <1>1, <1>3, SharedStays, OthersWriteOn DEF Valid
<1>5. ReadsValid'
  BY <1>2, <1>3, OthersReadOn DEF Valid
<1>6. VersionsValid'
  BY <1>1, <1>2 DEF Valid, VersionsValid
<1>7. QED
  BY <1>2, <1>4, <1>5, <1>6 DEF Valid

\* The steps of a load.
LEMMA LoadingIsValid ==
  ASSUME TypeOK, Valid, NEW p \in Procs, NEW v \in Versions, LoadSteps(p, v)
  PROVE  Valid'
<1>1. UNCHANGED <<data, version, covers, known, write>> /\ load[p][v].at # "none"
  BY DEF LoadSteps, Query, LoadFails, Loaded, Stored, NotStored, remembered, redis, history
<1>2. v <= version /\ load \in [Procs -> [Versions -> Load]]
  BY <1>1 DEF Valid, LoadValid, TypeOK
<1>3. Versioning
  BY <1>1, Unversioned
<1>4. load[p][v].at \in {"answered", "storing"} => Good(v, load[p][v].value)
  BY DEF Valid, LoadValid
<1>5. LoadValid'
  <2>1. ASSUME NEW l, load' = [load EXCEPT ![p][v] = l],
               l.at \in {"answered", "storing"} => Good(v, l.value)
        PROVE  LoadValid'
    BY <1>1, <1>2, <2>1 DEF Valid, LoadValid, Good
  <2>2. CASE Query(p, v)
    <3> DEFINE l == [at |-> "answered", value |-> data]
    <3>1. l.value = data /\ load' = [load EXCEPT ![p][v] = l]
      BY <2>2 DEF Query
    <3>2. Good(v, l.value)
      BY <1>2, <3>1 DEF Valid, VersionsValid, Good
    <3> HIDE DEF l
    <3>3. QED
      BY <3>1, <3>2, <2>1
  <2>3. CASE Loaded(p, v)
    <3> DEFINE l == [at |-> "storing", value |-> load[p][v].value]
    <3>1. Good(v, l.value) /\ load' = [load EXCEPT ![p][v] = l]
      BY <1>4, <2>3 DEF Loaded
    <3> HIDE DEF l
    <3>2. QED
      BY <3>1, <2>1
  <2>4. CASE LoadFails(p, v) \/ Stored(p, v) \/ NotStored(p, v)
    <3>1. load' = [load EXCEPT ![p][v] = NoLoad]
      BY <2>4 DEF LoadFails, Stored, NotStored, Finish
    <3>2. NoLoad.at = "none"
      BY DEF NoLoad
    <3>3. QED
      BY <3>1, <3>2, <2>1
  <2>5. QED
    BY <2>2, <2>3, <2>4 DEF LoadSteps
<1>6. HotValid'
  <2>1. UNCHANGED hot \/ /\ load[p][v].at \in {"answered", "storing"}
                         /\ hot' = [hot EXCEPT ![p][v] = load[p][v].value]
    BY DEF LoadSteps, Query, LoadFails, Loaded, Stored, NotStored
  <2>2. HotValid /\ hot \in [Procs -> [Versions -> Values \cup {None}]]
    BY DEF Valid, TypeOK
  <2>3. CASE UNCHANGED hot
    BY <1>3, <2>2, <2>3, HotStays
  <2>4. CASE /\ load[p][v].at \in {"answered", "storing"}
             /\ hot' = [hot EXCEPT ![p][v] = load[p][v].value]
    <3>1. Good(v, load[p][v].value)
      BY <1>4, <2>4
    <3>2. ASSUME NEW q \in Procs, NEW u \in Versions, hot'[q][u] # None
          PROVE  Good(u, hot'[q][u])
      BY <2>2, <2>4, <3>1, <3>2 DEF HotValid
    <3>3. QED
      BY <1>1, <3>2 DEF HotValid, Good
  <2>5. QED
    BY <2>1, <2>3, <2>4
<1>7. SharedValid'
  <2>1. UNCHANGED shared \/ /\ load[p][v].at = "storing"
                            /\ shared' = [shared EXCEPT ![v] = load[p][v].value]
    BY DEF LoadSteps, Query, LoadFails, Loaded, Stored, NotStored, redis
  <2>2. QED
    BY <1>1, <1>4, <2>1 DEF Valid, SharedValid, Good, TypeOK
<1>8. ReadsValid'
  <2>1. \A r \in Reads : read'[r] = read[r] \/ ReadIsValid(read[r])'
    <3>1. CASE Query(p, v) \/ Loaded(p, v)
      BY <3>1 DEF Query, Loaded
    <3>2. CASE LoadFails(p, v)
      BY <3>2 DEF LoadFails, Finish, ReadIsValid, Idle
    <3>3. CASE Stored(p, v) \/ NotStored(p, v)
      <4>1. \A r \in Reads : read'[r] = read[r] \/ read'[r] = Answer(p, v)
        BY <3>3 DEF Stored, NotStored, Finish
      <4>2. Good(v, load[p][v].value)
        BY <1>4, <3>3 DEF Stored, NotStored
      <4>3. QED
        BY <1>1, <4>1, <4>2 DEF ReadIsValid, Answer, Good
    <3>4. QED
      BY <3>1, <3>2, <3>3 DEF LoadSteps
  <2>2. QED
    BY <1>3, <2>1, OthersReadOn DEF Valid
<1>9. WritesValid' /\ VersionsValid'
  BY <1>1, <1>3, OthersWriteOn, KnownStays DEF Valid
<1>10. QED
  BY <1>5, <1>6, <1>7, <1>8, <1>9 DEF Valid

\* The steps of a change, of time and of a process that restarts.
LEMMA CommitIsValid ==
  ASSUME TypeOK, Valid, NEW w \in Writes, NEW p \in Procs, Commit(w, p)
  PROVE  Valid'
<1>1. Versioning /\ data' = data + 1 /\ UNCHANGED <<shared, hot, load, read, known>>
  BY DEF Commit, Versioning, redis, remembered, history
<1>2. \A u \in Writes : write'[u] = write[u] \/ WriteIsValid(write[u])'
  <2>1. /\ \A u \in Writes : u # w => write'[u] = write[u]
        /\ write'[w] = [at |-> "committed", proc |-> p, change |-> data + 1]
    BY DEF Commit, TypeOK
  <2>2. WriteIsValid(write[w])'
    BY <1>1, <2>1 DEF WriteIsValid, TypeOK
  <2>3. QED
    BY <2>1, <2>2
<1>3. QED
  BY <1>1, <1>2, SharedStays, HotStays, LoadStays, OthersReadOn, OthersWriteOn, KnownStays
     DEF Valid

LEMMA BumpIsValid ==
  ASSUME TypeOK, Valid, NEW w \in Writes,
         Bump(w) \/ Bumped(w) \/ (BumpFails(w) /\ ~skipped')
  PROVE  Valid'
<1>0. UNCHANGED <<data, shared, hot, load, read>>
  BY DEF Bump, Bumped, BumpFails, redis
<1>1. Versioning /\ write[w].at \in {"committed", "bumped"}
  <2>1. CASE Bumped(w)
    BY <2>1, Unversioned DEF Bumped, redis, history
  <2>2. CASE Bump(w) \/ (BumpFails(w) /\ ~skipped')
    <3>1. write[w].at = "committed" /\ Count(write[w].change) /\ UNCHANGED data
      BY <2>2 DEF Bump, BumpFails
    <3>2. write[w].change \in Values /\ write[w].change <= data
      BY <3>1, WriteFields DEF Valid, WritesValid, WriteIsValid
    <3>3. QED
      BY <3>1, <3>2 DEF Versioning
  <2>3. QED
    BY <2>1, <2>2
<1>2. \A u \in Writes : write'[u] = write[u] \/ WriteIsValid(write[u])'
  <2>1. CASE Bump(w)
    <3>1. /\ \A u \in Writes : u # w => write'[u] = write[u]
          /\ write'[w].at = "bumped" /\ write'[w].next = version' /\ version' \in Nat
      BY <2>1 DEF Bump, Count, TypeOK
    <3>2. WriteIsValid(write[w])'
      BY <3>1 DEF WriteIsValid
    <3>3. QED
      BY <3>1, <3>2
  <2>2. CASE Bumped(w) \/ BumpFails(w)
    <3>1. write' = [write EXCEPT ![w] = Idle]
      BY <2>2 DEF Bumped, BumpFails
    <3>2. WriteIsValid(Idle)'
      BY DEF WriteIsValid, Idle
    <3>3. QED
      BY <3>1, <3>2 DEF TypeOK
  <2>3. QED
    BY <2>1, <2>2
<1>3. VersionsValid'
  <2>1. CASE Bump(w)
    BY <1>1, <2>1, KnownStays DEF Bump, remembered, Valid
  <2>2. ASSUME NEW p \in Procs, known'[p] # known[p]
        PROVE  known'[p] <= version'
    <3>1. CASE Bumped(w)
      BY <3>1, <2>2, WriteFields DEF Bumped, TypeOK, Valid, WritesValid, WriteIsValid, redis
    <3>2. CASE BumpFails(w) /\ ~skipped'
      <4>1. Count(write[w].change) /\ known' = [known EXCEPT ![write[w].proc] = @ + 1]
        BY <3>2 DEF BumpFails
      <4>2. known[p] <= version /\ known[p] \in Nat /\ known'[p] = known[p] + 1
            /\ version' = version + 1 /\ version \in Nat
        BY <4>1, <2>2 DEF Count, TypeOK, Valid, VersionsValid
      <4>3. QED
        BY <4>2
    <3>3. CASE Bump(w)
      BY <3>3, <2>2 DEF Bump, remembered
    <3>4. QED
      BY <3>1, <3>2, <3>3
  <2>3. \A p \in Procs : known'[p] <= version'
    BY <1>1, <2>2, VersionsGrow DEF Valid, VersionsValid, TypeOK
  <2>4. QED
    BY <1>1, <2>3, CoversStay DEF Valid, VersionsValid
<1>4. QED
  BY <1>0, <1>1, <1>2, <1>3, SharedStays, HotStays, LoadStays, OthersReadOn, OthersWriteOn
     DEF Valid

LEMMA RestartIsValid ==
  ASSUME TypeOK, Valid, NEW p \in Procs, Expire(p) \/ Restart(p)
  PROVE  Valid'
<1>1. UNCHANGED <<data, version, covers, shared>>
  BY DEF Expire, Restart, redis, history
<1>2. Versioning
  BY <1>1, Unversioned
<1>3. HotValid' /\ LoadValid'
  <2>1. CASE Expire(p)
    BY <1>2, <2>1, HotStays, LoadStays DEF Expire, Valid
  <2>2. CASE Restart(p)
    <3>1. HotValid'
      BY <1>1, <2>2 DEF Restart, Valid, HotValid, Good, TypeOK
    <3>2. LoadValid'
      BY <1>1, <2>2 DEF Restart, Valid, LoadValid, NoLoad, Good, TypeOK
    <3>3. QED
      BY <3>1, <3>2
  <2>3. QED
    BY <2>1, <2>2
<1>4. /\ \A r \in Reads : read'[r] = read[r] \/ ReadIsValid(read[r])'
      /\ \A w \in Writes : write'[w] = write[w] \/ WriteIsValid(write[w])'
  BY DEF Expire, Restart, Idle, ReadIsValid, WriteIsValid
<1>5. VersionsValid'
  <2>1. known' = known \/ known' = [known EXCEPT ![p] = 0]
    BY DEF Expire, Restart
  <2>2. \A q \in Procs : known'[q] <= version /\ 0 <= version
    BY <2>1 DEF Valid, VersionsValid, TypeOK
  <2>3. QED
    BY <1>1, <2>2 DEF Valid, VersionsValid
<1>6. QED
  BY <1>1, <1>2, <1>3, <1>4, <1>5, SharedStays, OthersReadOn, OthersWriteOn DEF Valid

LEMMA CacheInit == Init => CacheInv
<1> SUFFICES ASSUME Init PROVE Valid
  BY TypeInit DEF CacheInv
<1>1. SharedValid /\ HotValid /\ VersionsValid
  BY DEF Init, SharedValid, HotValid, VersionsValid
<1>2. LoadValid /\ ReadsValid /\ WritesValid
  BY DEF Init, LoadValid, ReadsValid, WritesValid, ReadIsValid, WriteIsValid, Idle, NoLoad
<1>3. QED
  BY <1>1, <1>2 DEF Valid

LEMMA CacheNext == CacheInv /\ [Next]_vars => CacheInv'
<1> SUFFICES ASSUME CacheInv, [Next]_vars, ~skipped' PROVE Valid'
  BY TypeNext DEF CacheInv
<1>1. TypeOK
  BY DEF CacheInv
<1>2. ~skipped
  BY <1>1 DEF TypeOK, Next, vars, ReadSteps, LoadSteps, Begin, Answered, NotAnswered, Found,
     NotFound, Return, Query, LoadFails, Loaded, Stored, NotStored, Commit, Bump, Bumped,
     BumpFails, Expire, Restart, history
<1>3. Valid
  BY <1>2 DEF CacheInv
<1>4. CASE UNCHANGED vars
  <2>1. Versioning /\ UNCHANGED <<shared, hot, load, read, write, known>>
    BY <1>4, Unversioned DEF vars
  <2>2. QED
    BY <1>1, <1>3, <2>1, SharedStays, HotStays, LoadStays, OthersReadOn, OthersWriteOn,
       KnownStays DEF Valid
<1>5. QED
  BY <1>1, <1>3, <1>4, ReadingIsValid, LoadingIsValid, CommitIsValid, BumpIsValid,
     RestartIsValid DEF Next

\* "never serves the stale value from an older version", for any processes, callers and
\* changes, however late a load, an answer of Redis or an invalidation comes.
THEOREM NothingStaleIsServed == Spec => []ServedIsValid
<1>1. CacheInv => ServedIsValid
  BY ReadFields DEF CacheInv, Valid, ReadsValid, ReadIsValid, Good, ServedIsValid, TypeOK
<1>2. QED
  BY <1>1, CacheInit, CacheNext, PTL DEF Spec
===============================================================================
