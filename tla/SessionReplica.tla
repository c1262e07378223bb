---------------------------- MODULE SessionReplica ----------------------------
(***************************************************************************)
(* The encrypted replica record of one JWXT session, and every operation   *)
(* of the main service that reads or writes it.                            *)
(*                                                                         *)
(* A session lives on one campus node (its owner).  After each request the *)
(* node returns copies of the session encrypted for the nodes that may     *)
(* take over, and the main service stores them in one record with the      *)
(* owner and an ownership epoch (jwxtSessionReplica.ts).  Requests,        *)
(* takeovers, the backfill sweep and logouts run concurrently in several   *)
(* processes; each is an operation w with a program counter, and every     *)
(* await of the code is a boundary between two actions.                    *)
(***************************************************************************)
EXTENDS Naturals, FiniteSets

CONSTANTS
  Agents,         \* the nodes that can hold the session
  LocalAgents,    \* those that run inside the main process
  HomeAgent,      \* the node the session token was issued by
  Ops,            \* operations in flight at the same time
  NoOp, NoRecord, \* sentinels
  MaxTime,        \* bound on the nodes' clock readings
  MaxEpoch,       \* bound on the number of takeovers
  MaxCopies       \* most copies a record keeps

Times == 1..MaxTime
Tenure == [owner : Agents, epoch : Nat \ {0}]
Record == [owner : Agents, epoch : Nat \ {0}, capturedAt : Times,
           copies : [Agents -> 0..MaxTime]]

ASSUME AgentsAssumption == HomeAgent \in Agents /\ LocalAgents \subseteq Agents
ASSUME SentinelAssumption == /\ NoOp \notin Ops
                             /\ NoRecord \notin Record \cup Tenure
ASSUME BoundsAssumption == /\ MaxTime \in Nat \ {0}
                           /\ MaxEpoch \in Nat \ {0}
                           /\ MaxCopies \in Nat \ {0}

VARIABLES
  rec,        \* the stored record, or NoRecord
  lock,       \* the operation whose write lease is in Redis, or NoOp
  live,       \* live[a]: lastSeenAt of the session a holds; 0 when a has none
  op,         \* op[w]: the operation w
  loggedOut,  \* history: a logout has completed
  last        \* history: the tenure of the record most recently deleted

vars == <<rec, lock, live, op, loggedOut, last>>

PCs == {"idle", "routed", "sent", "served", "saving", "reading", "writing",
        "deleting", "closing"}
Kinds == {"query", "takeover", "backfill", "logout"}

(* node: the node asked.  before: the tenure read when the operation began, *)
(* the source of the save's expected epoch and owner.  captured, to: the    *)
(* lastSeenAt and the recipients of the copies to save, or to import from.  *)
(* seen: the record the save read under the lock.                           *)
Op == [pc : PCs, kind : Kinds, node : Agents, before : Tenure \cup {NoRecord},
       captured : 0..MaxTime, to : SUBSET Agents,
       seen : Record \cup {NoRecord}]

TypeOK ==
  /\ rec \in Record \cup {NoRecord}
  /\ lock \in Ops \cup {NoOp}
  /\ live \in [Agents -> 0..MaxTime]
  /\ op \in [Ops -> Op]
  /\ loggedOut \in BOOLEAN
  /\ last \in Tenure \cup {NoRecord}

TenureOf(r) == IF r = NoRecord THEN NoRecord
               ELSE [owner |-> r.owner, epoch |-> r.epoch]

Idle == [pc |-> "idle", kind |-> "query", node |-> HomeAgent,
         before |-> NoRecord, captured |-> 0, to |-> {}, seen |-> NoRecord]

Holders(copies) == {a \in Agents : copies[a] # 0}

\* The login has put the session on its home node; nothing is stored yet.
Init ==
  /\ rec = NoRecord
  /\ lock = NoOp
  /\ live \in {[a \in Agents |-> IF a = HomeAgent THEN t ELSE 0] : t \in Times}
  /\ op = [w \in Ops |-> Idle]
  /\ loggedOut = FALSE
  /\ last = NoRecord

-------------------------------------------------------------------------------
(* Starting an operation, and what happens on the node.                     *)

Owner == IF rec = NoRecord THEN HomeAgent ELSE rec.owner

\* requestWithToken: a request is routed to the stored owner.
StartQuery(w) ==
  /\ op[w].pc = "idle"
  /\ op' = [op EXCEPT ![w] = [Idle EXCEPT !.pc = "routed", !.node = Owner]]
  /\ UNCHANGED <<rec, lock, live, loggedOut, last>>

\* requestJwxtAgent reads the record again, after the routing; the local node
\* has no such read.
Attach(w) ==
  /\ op[w].pc = "routed"
  /\ op' = [op EXCEPT ![w].pc = "sent",
                      ![w].before = IF op[w].node \in LocalAgents
                                    THEN NoRecord ELSE TenureOf(rec)]
  /\ UNCHANGED <<rec, lock, live, loggedOut, last>>

\* recoverSessionOwner: node a, which the record holds a copy for, is asked to
\* import it (a may be the owner itself, whose memory was lost).
StartTakeover(w, a) ==
  /\ op[w].pc = "idle"
  /\ rec # NoRecord
  /\ rec.epoch < MaxEpoch
  /\ rec.copies[a] # 0
  /\ op' = [op EXCEPT ![w] = [Idle EXCEPT !.pc = "sent", !.kind = "takeover",
                                          !.node = a, !.before = TenureOf(rec),
                                          !.captured = rec.copies[a]]]
  /\ UNCHANGED <<rec, lock, live, loggedOut, last>>

\* The sweep: a node that holds a copy rewraps it for the nodes that lack one.
StartBackfill(w, a) ==
  /\ op[w].pc = "idle"
  /\ rec # NoRecord
  /\ rec.copies[a] # 0
  /\ Holders(rec.copies) # Agents
  /\ op' = [op EXCEPT ![w] = [Idle EXCEPT !.pc = "sent", !.kind = "backfill",
                                          !.node = a, !.before = TenureOf(rec),
                                          !.captured = rec.copies[a]]]
  /\ UNCHANGED <<rec, lock, live, loggedOut, last>>

\* One round of logouts is enough for what they race with.
StartLogout(w) ==
  /\ op[w].pc = "idle"
  /\ ~loggedOut
  /\ op' = [op EXCEPT ![w] = [Idle EXCEPT !.pc = "sent", !.kind = "logout",
                                          !.node = Owner]]
  /\ UNCHANGED <<rec, lock, live, loggedOut, last>>

\* The node answers the request with its session and stamps it with its clock,
\* which no other node's clock bounds.
Serve(w, t) ==
  /\ op[w].pc = "sent" /\ op[w].kind = "query"
  /\ live[op[w].node] # 0
  /\ live' = [live EXCEPT ![op[w].node] = t]
  /\ op' = [op EXCEPT ![w].pc = "served"]
  /\ UNCHANGED <<rec, lock, loggedOut, last>>

\* session.import-encrypted-snapshot replaces whatever session the node had.
Import(w) ==
  /\ op[w].pc = "sent" /\ op[w].kind = "takeover"
  /\ live' = [live EXCEPT ![op[w].node] = op[w].captured]
  /\ op' = [op EXCEPT ![w].pc = "served"]
  /\ UNCHANGED <<rec, lock, loggedOut, last>>

\* A refused import answers like any failed request: the copies it returns, if
\* the node has a session of its own, are saved without the takeover options.
ImportRefused(w) ==
  /\ op[w].pc = "sent" /\ op[w].kind = "takeover"
  /\ op[w].node \notin LocalAgents
  /\ op' = [op EXCEPT ![w].pc = "served", ![w].kind = "query"]
  /\ UNCHANGED <<rec, lock, live, loggedOut, last>>

\* The node encrypts its session for itself and for the recipients it was last
\* told of; for more than MaxCopies it fails and sends no copies.
Recipients(a) == {T \in SUBSET Agents : a \in T /\ Cardinality(T) <= MaxCopies}

Export(w, T) ==
  LET a == op[w].node
      imported == op[w].kind = "takeover" /\ a \in LocalAgents
  IN /\ op[w].pc = "served"
     /\ live[a] # 0 \/ imported
     /\ T \in Recipients(a)
     /\ op' = [op EXCEPT ![w].pc = "saving", ![w].to = T,
                         ![w].captured = IF imported THEN @ ELSE live[a]]
     /\ UNCHANGED <<rec, lock, live, loggedOut, last>>

\* session.replicate-encrypted touches no session: the copies keep the time of
\* the copy they were made from.
Rewrap(w, T) ==
  /\ op[w].pc = "sent" /\ op[w].kind = "backfill"
  /\ T \in Recipients(op[w].node)
  /\ op' = [op EXCEPT ![w].pc = "saving", ![w].to = T]
  /\ UNCHANGED <<rec, lock, live, loggedOut, last>>

\* No session on the node, no copies in the answer, a lost answer or a timeout.
Abandon(w) ==
  /\ op[w].pc \in {"routed", "sent", "served"}
  /\ op[w].kind # "logout"
  /\ op' = [op EXCEPT ![w] = Idle]
  /\ UNCHANGED <<rec, lock, live, loggedOut, last>>

-------------------------------------------------------------------------------
(* saveJwxtSessionReplicaKey.                                               *)

\* The backfill saves in the name of the owner it read, the rest in the name
\* of the node that answered.
SavesAs(o) == IF o.kind = "backfill" THEN o.before.owner ELSE o.node

ExpectsEpoch(o) == o.before # NoRecord
ExpectsOwner(o) == o.kind \in {"takeover", "backfill"}

\* Mutants: the freshness test is missing; a missing record refuses nothing.
SaveAllowedStale(o, ex) ==
  /\ ex = NoRecord => ~ExpectsEpoch(o) /\ o.kind = "query"
  /\ ex # NoRecord =>
       /\ ExpectsEpoch(o) => ex.epoch = o.before.epoch
       /\ ExpectsOwner(o) => ex.owner = o.before.owner
       /\ ex.owner # SavesAs(o) => o.kind = "takeover"

SaveAllowedRevives(o, ex) ==
  ex # NoRecord =>
    /\ ExpectsEpoch(o) => ex.epoch = o.before.epoch
    /\ ExpectsOwner(o) => ex.owner = o.before.owner
    /\ ex.owner # SavesAs(o) => o.kind = "takeover"
    /\ ex.capturedAt <= o.captured

SaveAllowed(o, ex) ==
  /\ ex = NoRecord => ~ExpectsEpoch(o) /\ o.kind = "query"
  /\ ex # NoRecord =>
       /\ ExpectsEpoch(o) => ex.epoch = o.before.epoch
       /\ ExpectsOwner(o) => ex.owner = o.before.owner
       /\ ex.owner # SavesAs(o) => o.kind = "takeover"
       /\ ex.capturedAt <= o.captured

\* The copies after a merge: the backfill only adds, any other save replaces.
MergedCopy(o, old, a) ==
  IF o.kind = "backfill"
  THEN IF old[a] # 0 THEN old[a] ELSE IF a \in o.to THEN o.captured ELSE 0
  ELSE IF a \in o.to THEN o.captured ELSE old[a]

\* Which copies survive the cut to MaxCopies: the backfill lists the stored
\* copies first, any other save the new ones.
KeptOneLess(o, old) ==  \* Mutant: the cut is one too early.
  LET all   == {a \in Agents : MergedCopy(o, old, a) # 0}
      first == IF o.kind = "backfill" THEN Holders(old) ELSE o.to
  IN {K \in SUBSET all :
        /\ first \subseteq K \/ K \subseteq first
        /\ Cardinality(K) < MaxCopies
        /\ K # all => Cardinality(K) = MaxCopies - 1}

Kept(o, old) ==
  LET all   == {a \in Agents : MergedCopy(o, old, a) # 0}
      first == IF o.kind = "backfill" THEN Holders(old) ELSE o.to
  IN {K \in SUBSET all :
        /\ first \subseteq K
        /\ Cardinality(K) <= MaxCopies
        /\ K # all => Cardinality(K) = MaxCopies}

\* Mutant: an epoch for every save.
NewRecordAlwaysMoves(o, ex, K) ==
  [owner |-> SavesAs(o), epoch |-> IF ex = NoRecord THEN 1 ELSE ex.epoch + 1,
   capturedAt |-> o.captured,
   copies |-> [a \in Agents |-> IF a \in K THEN o.captured ELSE 0]]

NewRecord(o, ex, K) ==
  LET old == IF ex = NoRecord THEN [a \in Agents |-> 0] ELSE ex.copies
  IN [owner      |-> SavesAs(o),
      epoch      |-> IF ex = NoRecord THEN 1
                     ELSE IF ex.owner # SavesAs(o) THEN ex.epoch + 1
                     ELSE ex.epoch,
      capturedAt |-> o.captured,
      copies     |-> [a \in Agents |-> IF a \in K THEN MergedCopy(o, old, a)
                                       ELSE 0]]

Written(o) ==
  LET old == IF o.seen = NoRecord THEN [a \in Agents |-> 0] ELSE o.seen.copies
  IN {NewRecord(o, o.seen, K) : K \in Kept(o, old)}

\* Without a copy for its owner nothing is saved.
Savable(o) == SavesAs(o) \in o.to

\* Mutant: the lock excludes nobody.
LockShared(w) ==
  /\ op[w].pc = "saving"
  /\ Savable(op[w])
  /\ lock' = w
  /\ op' = [op EXCEPT ![w].pc = "reading"]
  /\ UNCHANGED <<rec, live, loggedOut, last>>

Lock(w) ==
  /\ op[w].pc = "saving"
  /\ Savable(op[w])
  /\ lock = NoOp
  /\ lock' = w
  /\ op' = [op EXCEPT ![w].pc = "reading"]
  /\ UNCHANGED <<rec, live, loggedOut, last>>

\* Nor is the lock waited for: a save that finds it taken is given up.
NotLocked(w) ==
  /\ op[w].pc = "saving"
  /\ ~Savable(op[w]) \/ lock # NoOp
  /\ op' = [op EXCEPT ![w] = Idle]
  /\ UNCHANGED <<rec, lock, live, loggedOut, last>>

\* The compare-and-delete at the end leaves another holder's lease alone.
Released(w) == IF lock = w THEN NoOp ELSE lock

Read(w) ==
  /\ op[w].pc = "reading"
  /\ SaveAllowed(op[w], rec)
  /\ op' = [op EXCEPT ![w].pc = "writing", ![w].seen = rec]
  /\ UNCHANGED <<rec, lock, live, loggedOut, last>>

Refuse(w) ==
  /\ op[w].pc = "reading"
  /\ ~SaveAllowed(op[w], rec)
  /\ op' = [op EXCEPT ![w] = Idle]
  /\ lock' = Released(w)
  /\ UNCHANGED <<rec, live, loggedOut, last>>

Write(w) ==
  /\ op[w].pc = "writing"
  /\ rec' \in Written(op[w])
  /\ op' = [op EXCEPT ![w] = Idle]
  /\ lock' = Released(w)
  /\ UNCHANGED <<live, loggedOut, last>>

\* A process that stalls for longer than the lease loses it and does not know.
Lapse ==
  /\ lock # NoOp
  /\ lock' = NoOp
  /\ UNCHANGED <<rec, live, op, loggedOut, last>>

-------------------------------------------------------------------------------
(* Logout.  The record is deleted without the write lock.                   *)

Delete ==
  /\ rec' = NoRecord
  /\ last' = IF rec = NoRecord THEN last ELSE TenureOf(rec)

LogoutAtNode(w) ==
  /\ op[w].pc = "sent" /\ op[w].kind = "logout"
  /\ live' = [live EXCEPT ![op[w].node] = 0]
  /\ op' = [op EXCEPT ![w].pc = "deleting"]
  /\ UNCHANGED <<rec, lock, loggedOut, last>>

LogoutUnreachable(w) ==
  /\ op[w].pc = "sent" /\ op[w].kind = "logout"
  /\ op' = [op EXCEPT ![w].pc = "closing"]
  /\ UNCHANGED <<rec, lock, live, loggedOut, last>>

\* The gateway deletes the record when the logout's answer carries no copies.
DeleteOnAnswer(w) ==
  /\ op[w].pc = "deleting"
  /\ live[op[w].node] = 0
  /\ Delete
  /\ op' = [op EXCEPT ![w].pc = "closing"]
  /\ UNCHANGED <<lock, live, loggedOut>>

\* logout's finally: the record goes whatever the node answered.
FinishLogout(w) ==
  /\ op[w].pc \in {"deleting", "closing"}
  /\ Delete
  /\ loggedOut' = TRUE
  /\ op' = [op EXCEPT ![w] = Idle]
  /\ UNCHANGED <<lock, live>>

-------------------------------------------------------------------------------
Next ==
  \E w \in Ops :
    \/ StartQuery(w) \/ Attach(w) \/ StartLogout(w)
    \/ \E a \in Agents : StartTakeover(w, a) \/ StartBackfill(w, a)
    \/ \E t \in Times : Serve(w, t)
    \/ Import(w) \/ ImportRefused(w) \/ Abandon(w)
    \/ \E T \in SUBSET Agents : Export(w, T) \/ Rewrap(w, T)
    \/ Lock(w) \/ NotLocked(w)
    \/ Read(w) \/ Refuse(w) \/ Write(w)
    \/ LogoutAtNode(w) \/ LogoutUnreachable(w)
    \/ DeleteOnAnswer(w) \/ FinishLogout(w)

Spec == Init /\ [][Next]_vars

\* In Spec a save takes less time than its lease.  The same with saves that may stall
\* for longer: what needs no lock is proved of this one.
LapsingNext == Next \/ Lapse
LapsingSpec == Init /\ [][LapsingNext]_vars

-------------------------------------------------------------------------------
(* Properties.                                                              *)

\* Operation w's write is the step being taken.
Writes(w) == op[w].pc = "writing" /\ op'[w].pc = "idle"

\* Until the record is first deleted, the owner's own copy carries the time of
\* the record and no copy is newer: when the owner lost its memory and restores
\* itself, no other node's copy would have been fresher.  (After a delete a
\* request can start the record again at epoch 1, and a backfill that began
\* before the delete then adds its newer copy without the owner's.)
OwnerCopyIsFreshest ==
  rec # NoRecord /\ last = NoRecord =>
                    /\ rec.copies[rec.owner] = rec.capturedAt
                    /\ \A a \in Agents : rec.copies[a] <= rec.capturedAt

\* A stored record can be read back and used: it has at most the number of
\* copies beyond which the reader discards it as corrupt, and one of them is
\* for its owner, who restores itself from it.  This needs no lock.
RecordIsUsable ==
  rec # NoRecord => /\ Cardinality(Holders(rec.copies)) <= MaxCopies
                    /\ rec.owner \in Holders(rec.copies)

\* Fencing: at the moment it writes, and not only when it checked, a save that
\* replaces a record replaces the tenure its operation started from; one that
\* started from none writes only for the node that owns the session.
WritesAreFenced ==
  [][\A w \in Ops : Writes(w) /\ rec # NoRecord =>
       IF op[w].before = NoRecord THEN rec.owner = op[w].node
       ELSE rec.epoch = op[w].before.epoch]_vars

\* A stored session is never overwritten by an older one.
CaptureNeverRegresses ==
  [][rec # NoRecord /\ rec' # NoRecord => rec'.capturedAt >= rec.capturedAt]_vars

\* A logout that has left no record and no session in a node's memory, when no save
\* is past its check, no import under way and no answer to a request that found no
\* record waits to be saved: those three are what can undo a logout.
Gone ==
  /\ rec = NoRecord
  /\ \A a \in Agents : live[a] = 0
  /\ \A w \in Ops :
       /\ op[w].pc # "writing"
       /\ op[w].kind = "takeover" => op[w].pc # "sent"
       /\ op[w].pc \in {"saving", "reading"} => op[w].before # NoRecord

\* It is final, whatever takeovers, backfills and answers to requests it has overtaken
\* do with the copies they still carry, and whatever is begun later.
GoneForGood == [][Gone => Gone']_vars

\* The replica store implements the abstract ownership: the owner and the epoch
\* change only as SessionOwnership says, in whatever order the steps of
\* concurrent saves, takeovers, sweeps and logouts come.

Ownership == INSTANCE SessionOwnership
  WITH NoOwner <- NoRecord, current <- TenureOf(rec), last <- last

ImplementsOwnership == Ownership!Spec

\* tests/jwxtSessionReplica.test.ts: a backfill cannot resurrect a logout.
BackfillCannotResurrectLogout ==
  [][\A w \in Ops : Writes(w) /\ op[w].kind = "backfill" /\ loggedOut
                      => rec # NoRecord]_vars
===============================================================================
