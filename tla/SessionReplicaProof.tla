-------------------------- MODULE SessionReplicaProof --------------------------
(***************************************************************************)
(* Proofs about SessionReplica, for any set of nodes and of concurrent     *)
(* operations and any bounds.                                              *)
(***************************************************************************)
EXTENDS SessionReplica, TLAPS

\* What the operations carry that the types do not say: a save has a capture
\* time, and takeovers and backfills start from a record.
Carries(o) ==
  /\ o.pc = "routed" => o.kind = "query"
  /\ o.pc \in {"served", "saving", "reading", "writing"} => o.kind # "logout"
  /\ o.pc \in {"saving", "reading", "writing"} => o.captured # 0
  /\ o.kind \in {"takeover", "backfill"} =>
       o.before # NoRecord /\ o.captured # 0

CarriesOK == \A w \in Ops : Carries(op[w])

TypeInv == TypeOK /\ CarriesOK

\* SavesAs is a node, for every operation that saves.
LEMMA SavesAsAgent ==
  ASSUME TypeInv, NEW w \in Ops
  PROVE  SavesAs(op[w]) \in Agents
  BY SentinelAssumption DEF TypeInv, TypeOK, CarriesOK, Carries, Op, Tenure, SavesAs

\* Every record a save can write is well formed.
LEMMA WrittenIsRecord ==
  ASSUME TypeInv, NEW w \in Ops, op[w].pc = "writing",
         NEW r \in Written(op[w])
  PROVE  r \in Record
<1> DEFINE o == op[w]
           old == IF o.seen = NoRecord THEN [a \in Agents |-> 0]
                  ELSE o.seen.copies
<1>1. /\ o \in Op
      /\ o.captured \in Times
      /\ SavesAs(o) \in Agents
  BY SavesAsAgent, BoundsAssumption DEF TypeInv, TypeOK, CarriesOK, Carries, Op, Times
<1>2. PICK K \in Kept(o, old) : r = NewRecord(o, o.seen, K)
  BY DEF Written
<1>3. old \in [Agents -> 0..MaxTime]
  BY <1>1, BoundsAssumption DEF Op, Record
<1>4. \A a \in Agents : MergedCopy(o, old, a) \in 0..MaxTime
  BY <1>1, <1>3, BoundsAssumption DEF MergedCopy, Times, Op
<1>5. [a \in Agents |-> IF a \in K THEN MergedCopy(o, old, a) ELSE 0]
        \in [Agents -> 0..MaxTime]
  BY <1>4, BoundsAssumption
<1>6. (IF o.seen = NoRecord THEN 1
       ELSE IF o.seen.owner # SavesAs(o) THEN o.seen.epoch + 1
       ELSE o.seen.epoch) \in Nat \ {0}
  BY <1>1 DEF Op, Record
<1>7. QED
  BY <1>1, <1>2, <1>5, <1>6 DEF NewRecord, Record

LEMMA IdleIsOp == Idle \in Op /\ Carries(Idle)
  BY AgentsAssumption, BoundsAssumption DEF Idle, Op, PCs, Kinds, Carries

\* A step that changes operation w only, into a well-formed one.
LEMMA OpStep ==
  ASSUME TypeInv, NEW w \in Ops, NEW o \in Op, Carries(o),
         op' = [op EXCEPT ![w] = o]
  PROVE  op' \in [Ops -> Op] /\ CarriesOK'
  BY DEF TypeInv, TypeOK, CarriesOK, Carries

LEMMA TypeInit == Init => TypeInv
<1> SUFFICES ASSUME Init PROVE TypeInv
  OBVIOUS
<1>1. op \in [Ops -> Op] /\ CarriesOK
  BY IdleIsOp DEF Init, CarriesOK
<1>2. live \in [Agents -> 0..MaxTime]
  BY BoundsAssumption DEF Init, Times
<1>3. QED
  BY <1>1, <1>2 DEF Init, TypeInv, TypeOK

LEMMA TypeNext == TypeInv /\ [LapsingNext]_vars => TypeInv'
<1> SUFFICES ASSUME TypeInv, [LapsingNext]_vars PROVE TypeInv'
  OBVIOUS
<1> USE AgentsAssumption, SentinelAssumption, BoundsAssumption
<1> USE DEF TypeInv, TypeOK
<1>a. ASSUME rec \in Record PROVE TenureOf(rec) \in Tenure
  BY <1>a DEF TenureOf, Record, Tenure
<1>b. TenureOf(rec) \in Tenure \cup {NoRecord}
  BY <1>a DEF TenureOf
<1>c. ASSUME NEW a \in Agents, rec \in Record, rec.copies[a] # 0
      PROVE  rec.copies[a] \in 0..MaxTime
  BY <1>c DEF Record
<1>1. ASSUME NEW w \in Ops, StartQuery(w) PROVE TypeInv'
  <2> DEFINE o == [Idle EXCEPT !.pc = "routed", !.node = Owner]
  <2>1. Owner \in Agents /\ Idle \in Op /\ Carries(Idle)
    BY IdleIsOp DEF Owner, Record
  <2>2. o \in Op /\ Carries(o)
    BY <1>1, <2>1 DEF StartQuery, Idle, CarriesOK, Op, PCs, Kinds, Carries
  <2>3. op' = [op EXCEPT ![w] = o]
    BY <1>1 DEF StartQuery
  <2>4. QED
    BY <2>1, <2>2, <2>3, OpStep, <1>1 DEF StartQuery
<1>2. ASSUME NEW w \in Ops, Attach(w) PROVE TypeInv'
  <2> DEFINE o == [op[w] EXCEPT !.pc = "sent",
                     !.before = IF op[w].node \in LocalAgents
                                THEN NoRecord ELSE TenureOf(rec)]
  <2>1. TenureOf(rec) \in Tenure \cup {NoRecord}
    BY <1>b
  <2>2. o \in Op /\ Carries(o)
    BY <1>2, <2>1 DEF Attach, CarriesOK, Op, PCs, Kinds, Carries
  <2>3. op' = [op EXCEPT ![w] = o]
    BY <1>2 DEF Attach
  <2>4. QED
    BY <2>1, <2>2, <2>3, OpStep, <1>2 DEF Attach
<1>3. ASSUME NEW w \in Ops, NEW a \in Agents, StartTakeover(w, a) PROVE TypeInv'
  <2> DEFINE o == [Idle EXCEPT !.pc = "sent", !.kind = "takeover", !.node = a,
                     !.before = TenureOf(rec), !.captured = rec.copies[a]]
  <2>1. /\ TenureOf(rec) \in Tenure
        /\ rec.copies[a] \in 0..MaxTime
        /\ Idle \in Op /\ Carries(Idle)
    BY <1>a, <1>c, <1>3, IdleIsOp DEF StartTakeover
  <2>2. o \in Op /\ Carries(o)
    BY <1>3, <2>1 DEF StartTakeover, CarriesOK, Op, PCs, Kinds, Carries
  <2>3. op' = [op EXCEPT ![w] = o]
    BY <1>3 DEF StartTakeover
  <2>4. QED
    BY <2>1, <2>2, <2>3, OpStep, <1>3 DEF StartTakeover
<1>4. ASSUME NEW w \in Ops, NEW a \in Agents, StartBackfill(w, a) PROVE TypeInv'
  <2> DEFINE o == [Idle EXCEPT !.pc = "sent", !.kind = "backfill", !.node = a,
                     !.before = TenureOf(rec), !.captured = rec.copies[a]]
  <2>1. /\ TenureOf(rec) \in Tenure
        /\ rec.copies[a] \in 0..MaxTime
        /\ Idle \in Op /\ Carries(Idle)
    BY <1>a, <1>c, <1>4, IdleIsOp DEF StartBackfill
  <2>2. o \in Op /\ Carries(o)
    BY <1>4, <2>1 DEF StartBackfill, CarriesOK, Op, PCs, Kinds, Carries
  <2>3. op' = [op EXCEPT ![w] = o]
    BY <1>4 DEF StartBackfill
  <2>4. QED
    BY <2>1, <2>2, <2>3, OpStep, <1>4 DEF StartBackfill
<1>5. ASSUME NEW w \in Ops, StartLogout(w) PROVE TypeInv'
  <2> DEFINE o == [Idle EXCEPT !.pc = "sent", !.kind = "logout", !.node = Owner]
  <2>1. Owner \in Agents /\ Idle \in Op /\ Carries(Idle)
    BY IdleIsOp DEF Owner, Record
  <2>2. o \in Op /\ Carries(o)
    BY <1>5, <2>1 DEF StartLogout, CarriesOK, Op, PCs, Kinds, Carries
  <2>3. op' = [op EXCEPT ![w] = o]
    BY <1>5 DEF StartLogout
  <2>4. QED
    BY <2>1, <2>2, <2>3, OpStep, <1>5 DEF StartLogout
<1>6. ASSUME NEW w \in Ops, NEW t \in Times, Serve(w, t) PROVE TypeInv'
  <2> DEFINE o == [op[w] EXCEPT !.pc = "served"]
  <2>1. live' \in [Agents -> 0..MaxTime]
    BY <1>6 DEF Serve, Op, Times
  <2>2. o \in Op /\ Carries(o)
    BY <1>6, SMTT(30) DEF Serve, CarriesOK, Op, PCs, Kinds, Carries
  <2>3. op' = [op EXCEPT ![w] = o]
    BY <1>6 DEF Serve
  <2>4. QED
    BY <2>1, <2>2, <2>3, OpStep, <1>6 DEF Serve
<1>7. ASSUME NEW w \in Ops, Import(w) PROVE TypeInv'
  <2> DEFINE o == [op[w] EXCEPT !.pc = "served"]
  <2>1. live' \in [Agents -> 0..MaxTime]
    BY <1>7 DEF Import, Op, Times
  <2>2. o \in Op /\ Carries(o)
    BY <1>7, <2>1 DEF Import, CarriesOK, Op, PCs, Kinds, Carries
  <2>3. op' = [op EXCEPT ![w] = o]
    BY <1>7 DEF Import
  <2>4. QED
    BY <2>1, <2>2, <2>3, OpStep, <1>7 DEF Import
<1>8. ASSUME NEW w \in Ops, ImportRefused(w) PROVE TypeInv'
  <2> DEFINE o == [op[w] EXCEPT !.pc = "served", !.kind = "query"]
  <2>2. o \in Op /\ Carries(o)
    BY <1>8 DEF ImportRefused, CarriesOK, Op, PCs, Kinds, Carries
  <2>3. op' = [op EXCEPT ![w] = o]
    BY <1>8 DEF ImportRefused
  <2>4. QED
    BY <2>2, <2>3, OpStep, <1>8 DEF ImportRefused
<1>9. ASSUME NEW w \in Ops, Abandon(w) PROVE TypeInv'
  <2> DEFINE o == Idle
  <2>1. Idle \in Op /\ Carries(Idle)
    BY IdleIsOp
  <2>2. o \in Op /\ Carries(o)
    BY <1>9, <2>1 DEF Abandon, CarriesOK, Op, PCs, Kinds, Carries
  <2>3. op' = [op EXCEPT ![w] = o]
    BY <1>9 DEF Abandon
  <2>4. QED
    BY <2>1, <2>2, <2>3, OpStep, <1>9 DEF Abandon
<1>10. ASSUME NEW w \in Ops, NEW T \in SUBSET Agents, Export(w, T) PROVE TypeInv'
  <2> DEFINE o == [op[w] EXCEPT !.pc = "saving", !.to = T,
                     !.captured = IF op[w].kind = "takeover" /\ op[w].node \in LocalAgents
                                  THEN @ ELSE live[op[w].node]]
  <2>2. o \in Op /\ Carries(o)
    BY <1>10 DEF Export, CarriesOK, Op, PCs, Kinds, Carries
  <2>3. op' = [op EXCEPT ![w] = o]
    BY <1>10 DEF Export
  <2>4. QED
    BY <2>2, <2>3, OpStep, <1>10 DEF Export
<1>11. ASSUME NEW w \in Ops, NEW T \in SUBSET Agents, Rewrap(w, T) PROVE TypeInv'
  <2> DEFINE o == [op[w] EXCEPT !.pc = "saving", !.to = T]
  <2>2. o \in Op /\ Carries(o)
    BY <1>11 DEF Rewrap, CarriesOK, Op, PCs, Kinds, Carries
  <2>3. op' = [op EXCEPT ![w] = o]
    BY <1>11 DEF Rewrap
  <2>4. QED
    BY <2>2, <2>3, OpStep, <1>11 DEF Rewrap
<1>12. ASSUME NEW w \in Ops, Lock(w) PROVE TypeInv'
  <2> DEFINE o == [op[w] EXCEPT !.pc = "reading"]
  <2>2. o \in Op /\ Carries(o)
    BY <1>12 DEF Lock, CarriesOK, Op, PCs, Kinds, Carries
  <2>3. op' = [op EXCEPT ![w] = o]
    BY <1>12 DEF Lock
  <2>4. QED
    BY <2>2, <2>3, OpStep, <1>12 DEF Lock
<1>13. ASSUME NEW w \in Ops, NotLocked(w) PROVE TypeInv'
  <2> DEFINE o == Idle
  <2>1. Idle \in Op /\ Carries(Idle)
    BY IdleIsOp
  <2>2. o \in Op /\ Carries(o)
    BY <1>13, <2>1 DEF NotLocked, CarriesOK, Op, PCs, Kinds, Carries
  <2>3. op' = [op EXCEPT ![w] = o]
    BY <1>13 DEF NotLocked
  <2>4. QED
    BY <2>1, <2>2, <2>3, OpStep, <1>13 DEF NotLocked
<1>14. ASSUME NEW w \in Ops, Read(w) PROVE TypeInv'
  <2> DEFINE o == [op[w] EXCEPT !.pc = "writing", !.seen = rec]
  <2>2. o \in Op /\ Carries(o)
    BY <1>14 DEF Read, CarriesOK, Op, PCs, Kinds, Carries
  <2>3. op' = [op EXCEPT ![w] = o]
    BY <1>14 DEF Read
  <2>4. QED
    BY <2>2, <2>3, OpStep, <1>14 DEF Read
<1>15. ASSUME NEW w \in Ops, Refuse(w) PROVE TypeInv'
  <2> DEFINE o == Idle
  <2>1. Idle \in Op /\ Carries(Idle)
    BY IdleIsOp
  <2>5. lock' \in Ops \cup {NoOp}
    BY <1>15 DEF Refuse, Released
  <2>2. o \in Op /\ Carries(o)
    BY <1>15, <2>1 DEF Refuse, CarriesOK, Op, PCs, Kinds, Carries
  <2>3. op' = [op EXCEPT ![w] = o]
    BY <1>15 DEF Refuse
  <2>4. QED
    BY <2>1, <2>2, <2>3, <2>5, OpStep, <1>15 DEF Refuse
<1>16. ASSUME NEW w \in Ops, Write(w) PROVE TypeInv'
  <2> DEFINE o == Idle
  <2>1. Idle \in Op /\ Carries(Idle)
    BY IdleIsOp
  <2>5. lock' \in Ops \cup {NoOp}
    BY <1>16 DEF Write, Released
  <2>6. rec' \in Record
    BY <1>16, WrittenIsRecord DEF Write
  <2>2. o \in Op /\ Carries(o)
    BY <1>16, <2>1 DEF Write, CarriesOK, Op, PCs, Kinds, Carries
  <2>3. op' = [op EXCEPT ![w] = o]
    BY <1>16 DEF Write
  <2>4. QED
    BY <2>1, <2>2, <2>3, <2>5, <2>6, OpStep, <1>16 DEF Write
<1>17. ASSUME NEW w \in Ops, LogoutAtNode(w) PROVE TypeInv'
  <2> DEFINE o == [op[w] EXCEPT !.pc = "deleting"]
  <2>1. live' \in [Agents -> 0..MaxTime]
    BY <1>17 DEF LogoutAtNode, Op, Times
  <2>2. o \in Op /\ Carries(o)
    BY <1>17, SMTT(30) DEF LogoutAtNode, CarriesOK, Op, PCs, Kinds, Carries
  <2>3. op' = [op EXCEPT ![w] = o]
    BY <1>17 DEF LogoutAtNode
  <2>4. QED
    BY <2>1, <2>2, <2>3, OpStep, <1>17 DEF LogoutAtNode
<1>18. ASSUME NEW w \in Ops, LogoutUnreachable(w) PROVE TypeInv'
  <2> DEFINE o == [op[w] EXCEPT !.pc = "closing"]
  <2>2. o \in Op /\ Carries(o)
    BY <1>18 DEF LogoutUnreachable, CarriesOK, Op, PCs, Kinds, Carries
  <2>3. op' = [op EXCEPT ![w] = o]
    BY <1>18 DEF LogoutUnreachable
  <2>4. QED
    BY <2>2, <2>3, OpStep, <1>18 DEF LogoutUnreachable
<1>19. ASSUME NEW w \in Ops, DeleteOnAnswer(w) PROVE TypeInv'
  <2> DEFINE o == [op[w] EXCEPT !.pc = "closing"]
  <2>1. rec' = NoRecord /\ last' \in Tenure \cup {NoRecord}
    BY <1>a, <1>19 DEF DeleteOnAnswer, Delete
  <2>2. o \in Op /\ Carries(o)
    BY <1>19, <2>1 DEF DeleteOnAnswer, CarriesOK, Op, PCs, Kinds, Carries
  <2>3. op' = [op EXCEPT ![w] = o]
    BY <1>19 DEF DeleteOnAnswer
  <2>4. QED
    BY <2>1, <2>2, <2>3, OpStep, <1>19 DEF DeleteOnAnswer
<1>20. ASSUME NEW w \in Ops, FinishLogout(w) PROVE TypeInv'
  <2> DEFINE o == Idle
  <2>1. /\ rec' = NoRecord /\ last' \in Tenure \cup {NoRecord}
        /\ Idle \in Op /\ Carries(Idle)
    BY <1>a, <1>20, IdleIsOp DEF FinishLogout, Delete
  <2>2. o \in Op /\ Carries(o)
    BY <1>20, <2>1 DEF FinishLogout, CarriesOK, Op, PCs, Kinds, Carries
  <2>3. op' = [op EXCEPT ![w] = o]
    BY <1>20 DEF FinishLogout
  <2>4. QED
    BY <2>1, <2>2, <2>3, OpStep, <1>20 DEF FinishLogout
<1>21. ASSUME Lapse PROVE TypeInv'
  BY <1>21 DEF Lapse, CarriesOK, Carries
<1>22. ASSUME UNCHANGED vars PROVE TypeInv'
  BY <1>22 DEF vars, CarriesOK, Carries
<1>23. QED
  BY <1>1, <1>2, <1>3, <1>4, <1>5, <1>6, <1>7, <1>8, <1>9, <1>10, <1>11, <1>12, <1>13, <1>14, <1>15, <1>16, <1>17, <1>18, <1>19, <1>20, <1>21, <1>22 DEF Next, LapsingNext

\* The inductive form: beside its type, an operation past its answer
\* carries what its save needs, in every reachable state.
THEOREM TypeInvariant == LapsingSpec => []TypeInv
  BY TypeInit, TypeNext, PTL DEF LapsingSpec

\* Every variable has values of its type in every reachable state.
THEOREM TypeCorrect == LapsingSpec => []TypeOK
  BY TypeInvariant, PTL DEF TypeInv

-------------------------------------------------------------------------------
(* A stored record is always usable, even when leases lapse: what a save    *)
(* writes depends on the record it read and on its own copies only.         *)

Usable(r) == r # NoRecord => /\ Cardinality(Holders(r.copies)) <= MaxCopies
                             /\ r.owner \in Holders(r.copies)

\* What a save has established about the record it read and its own copies.
SaveReady(o) ==
  /\ o.pc \in {"reading", "writing"} => SavesAs(o) \in o.to
  /\ o.pc = "writing" => SaveAllowed(o, o.seen) /\ Usable(o.seen)

SaveInv == \A w \in Ops : SaveReady(op[w])

UsableInv == TypeInv /\ Usable(rec) /\ SaveInv

LEMMA WrittenIsUsable ==
  ASSUME TypeInv, NEW w \in Ops, op[w].pc = "writing", SaveReady(op[w]),
         NEW r \in Written(op[w])
  PROVE  Usable(r)
<1> DEFINE o == op[w]
           old == IF o.seen = NoRecord THEN [a \in Agents |-> 0]
                  ELSE o.seen.copies
<1>1. PICK K \in Kept(o, old) : r = NewRecord(o, o.seen, K)
  BY DEF Written
<1>2. /\ K \subseteq {a \in Agents : MergedCopy(o, old, a) # 0}
      /\ Cardinality(K) <= MaxCopies
      /\ (IF o.kind = "backfill" THEN Holders(old) ELSE o.to) \subseteq K
  BY <1>1 DEF Kept
<1>3. /\ r.owner = SavesAs(o)
      /\ r.copies = [a \in Agents |-> IF a \in K THEN MergedCopy(o, old, a)
                                       ELSE 0]
  BY <1>1 DEF NewRecord
<1>4. Holders(r.copies) = K
  BY <1>2, <1>3 DEF Holders
<1>5. SavesAs(o) \in K
  <2>1. CASE o.kind = "backfill"
    <3>1. o.seen # NoRecord /\ o.seen.owner = SavesAs(o)
      BY <2>1 DEF SaveReady, SaveAllowed, ExpectsOwner, SavesAs
    <3>2. SavesAs(o) \in Holders(old)
      BY <3>1 DEF SaveReady, Usable
    <3>3. QED
      BY <2>1, <3>2, <1>2
  <2>2. CASE o.kind # "backfill"
    BY <2>2, <1>2 DEF SaveReady
  <2>3. QED
    BY <2>1, <2>2
<1>6. QED
  BY <1>2, <1>3, <1>4, <1>5 DEF Usable

\* SaveReady does not mention the state, so a step keeps it for an operation
\* that it leaves alone.
LEMMA SaveInvNext ==
  ASSUME TypeInv, Usable(rec), SaveInv, [LapsingNext]_vars
  PROVE  SaveInv'
<1> SUFFICES ASSUME NEW v \in Ops PROVE SaveReady(op'[v])
  BY DEF SaveInv
<1>0. op \in [Ops -> Op] /\ SaveReady(op[v])
  BY DEF TypeInv, TypeOK, SaveInv
<1>1. CASE op'[v] = op[v]
  BY <1>0, <1>1
<1>2. CASE op'[v].pc \notin {"reading", "writing"}
  BY <1>2 DEF SaveReady
<1>3. ASSUME Lock(v) PROVE SaveReady(op'[v])
  BY <1>3, <1>0 DEF Lock, Savable, SaveReady, SavesAs
<1>4. ASSUME Read(v) PROVE SaveReady(op'[v])
  <2>1. op'[v] = [op[v] EXCEPT !.pc = "writing", !.seen = rec]
    BY <1>4, <1>0 DEF Read
  <2>2. SaveAllowed(op'[v], rec) /\ SavesAs(op'[v]) = SavesAs(op[v])
    BY <2>1, <1>4, <1>0 DEF Read, SaveAllowed, SavesAs, ExpectsEpoch,
                           ExpectsOwner, Op
  <2>3. QED
    BY <2>1, <2>2, <1>4, <1>0 DEF SaveReady, Op, Read
<1>5. op'[v] = op[v] \/ op'[v].pc \notin {"reading", "writing"} \/ Lock(v) \/ Read(v)
  <2> DEFINE Q == \/ op'[v] = op[v] \/ op'[v].pc \notin {"reading", "writing"}
                  \/ Lock(v) \/ Read(v)
  <2>1. ASSUME NEW w \in Ops, NEW a \in Agents,
               StartQuery(w) \/ StartLogout(w) \/ StartTakeover(w, a)
                 \/ StartBackfill(w, a)
        PROVE  Q
    BY <1>0, <2>1 DEF StartQuery, StartLogout, StartTakeover, StartBackfill, Idle
  <2>2. ASSUME NEW w \in Ops, NEW t \in Times,
               Attach(w) \/ Serve(w, t) \/ Import(w) \/ ImportRefused(w)
        PROVE  Q
    BY <1>0, <2>2 DEF Attach, Serve, Import, ImportRefused, Op
  <2>3. ASSUME NEW w \in Ops, NEW T \in SUBSET Agents,
               Export(w, T) \/ Rewrap(w, T)
        PROVE  Q
    BY <1>0, <2>3 DEF Export, Rewrap, Op
  <2>4. ASSUME NEW w \in Ops,
               \/ Abandon(w) \/ NotLocked(w) \/ Refuse(w)
               \/ Write(w) \/ FinishLogout(w)
        PROVE  Q
    BY <1>0, <2>4 DEF Abandon, NotLocked, Refuse, Write,
                     FinishLogout, Idle
  <2>5. ASSUME NEW w \in Ops, Lock(w) \/ Read(w)
        PROVE  Q
    BY <1>0, <2>5 DEF Lock, Read
  <2>6. ASSUME NEW w \in Ops,
               LogoutAtNode(w) \/ LogoutUnreachable(w) \/ DeleteOnAnswer(w)
        PROVE  Q
    BY <1>0, <2>6 DEF LogoutAtNode, LogoutUnreachable, DeleteOnAnswer, Op
  <2>7. CASE Lapse \/ UNCHANGED vars
    BY <2>7 DEF Lapse, vars
  <2>8. QED
    BY <2>1, <2>2, <2>3, <2>4, <2>5, <2>6, <2>7, AgentsAssumption,
       BoundsAssumption DEF LapsingNext, Next, Times
<1>6. QED
  BY <1>1, <1>2, <1>3, <1>4, <1>5

LEMMA UsableNext == UsableInv /\ [LapsingNext]_vars => UsableInv'
<1> SUFFICES ASSUME UsableInv, [LapsingNext]_vars PROVE UsableInv'
  OBVIOUS
<1>1. TypeInv' /\ SaveInv'
  BY TypeNext, SaveInvNext DEF UsableInv
<1>2. \/ rec' = rec \/ rec' = NoRecord
      \/ \E w \in Ops : op[w].pc = "writing" /\ rec' \in Written(op[w])
  BY DEF LapsingNext, Next, vars, StartQuery, Attach, StartLogout, StartTakeover,
     StartBackfill, Serve, Import, ImportRefused, Abandon, Export, Rewrap,
     Lock, NotLocked, Read, Refuse, Write, LogoutAtNode,
     LogoutUnreachable, DeleteOnAnswer, FinishLogout, Lapse, Delete
<1>3. ASSUME NEW w \in Ops, op[w].pc = "writing", rec' \in Written(op[w])
      PROVE  Usable(rec')
  BY <1>3, WrittenIsUsable DEF UsableInv, SaveInv
<1>4. Usable(rec')
  BY <1>2, <1>3 DEF UsableInv, Usable
<1>5. QED
  BY <1>1, <1>4 DEF UsableInv, Usable

\* The record that is stored can be read back and holds a copy for its owner,
\* for any number of nodes and operations, with or without a reliable lock.
THEOREM RecordAlwaysUsable == LapsingSpec => []RecordIsUsable
<1>1. Init => UsableInv
  BY TypeInit DEF Init, UsableInv, Usable, SaveInv, SaveReady, Idle
<1>2. UsableInv => RecordIsUsable
  BY DEF UsableInv, Usable, RecordIsUsable
<1>3. QED
  BY <1>1, <1>2, UsableNext, PTL DEF LapsingSpec

-------------------------------------------------------------------------------
(* Under an intact lock, the record a save writes over is the record it     *)
(* read, or the record has been deleted in between.                         *)

Held(w) ==
  /\ op[w].pc \in {"reading", "writing"} => lock = w
  /\ op[w].pc = "writing" =>
       \/ rec = op[w].seen
       \/ /\ rec = NoRecord
          /\ op[w].seen # NoRecord
          /\ last = TenureOf(op[w].seen)

FenceInv == UsableInv /\ \A w \in Ops : Held(w)

\* Steps that leave the record and the lock alone.
Quiet == UNCHANGED <<rec, lock, last>>

\* Operation v is not writing and does not enter the lock.
Outside(v) == op[v].pc # "writing" /\ op'[v].pc \notin {"reading", "writing"}

\* The ways a step can change the record, the lock or a save under the lock.
LEMMA StepCases ==
  ASSUME TypeInv, [Next]_vars
  PROVE  \/ /\ Quiet
            /\ \A v \in Ops : op'[v] = op[v] \/ Outside(v)
         \/ \E w \in Ops : Lock(w) \/ Read(w) \/ Refuse(w) \/ Write(w)
         \/ \E w \in Ops : DeleteOnAnswer(w) \/ FinishLogout(w)
<1> DEFINE Q == /\ Quiet
                /\ \A v \in Ops : op'[v] = op[v] \/ Outside(v)
<1>0. op \in [Ops -> Op]
  BY DEF TypeInv, TypeOK
<1>1. ASSUME NEW w \in Ops, NEW a \in Agents,
             StartQuery(w) \/ StartLogout(w) \/ StartTakeover(w, a)
               \/ StartBackfill(w, a)
      PROVE  Q
  BY <1>0, <1>1 DEF StartQuery, StartLogout, StartTakeover, StartBackfill, Idle,
                    Quiet, Outside, Outside
<1>2. ASSUME NEW w \in Ops, NEW t \in Times,
             Attach(w) \/ Serve(w, t) \/ Import(w) \/ ImportRefused(w)
      PROVE  Q
  BY <1>0, <1>2 DEF Attach, Serve, Import, ImportRefused, Op, Quiet, Outside
<1>3. ASSUME NEW w \in Ops, NEW T \in SUBSET Agents,
             Export(w, T) \/ Rewrap(w, T)
      PROVE  Q
  BY <1>0, <1>3 DEF Export, Rewrap, Op, Quiet, Outside
<1>4. ASSUME NEW w \in Ops, Abandon(w) \/ NotLocked(w)
      PROVE  Q
  BY <1>0, <1>4 DEF Abandon, NotLocked, Idle, Quiet, Outside
<1>5. ASSUME NEW w \in Ops, LogoutAtNode(w) \/ LogoutUnreachable(w)
      PROVE  Q
  BY <1>0, <1>5 DEF LogoutAtNode, LogoutUnreachable, Op, Quiet, Outside
<1>6. ASSUME UNCHANGED vars PROVE Q
  BY <1>6 DEF vars, Quiet, Outside
<1>7. QED
  BY <1>1, <1>2, <1>3, <1>4, <1>5, <1>6, AgentsAssumption, BoundsAssumption
     DEF Next, Times

LEMMA FenceNext == FenceInv /\ [Next]_vars => FenceInv'
<1> SUFFICES ASSUME FenceInv, [Next]_vars, NEW v \in Ops PROVE Held(v)'
  BY UsableNext DEF FenceInv, LapsingNext
<1>0. /\ op \in [Ops -> Op] /\ TypeInv
      /\ Held(v) /\ \A w \in Ops : Held(w)
      /\ v # NoOp
  BY SentinelAssumption DEF FenceInv, UsableInv, TypeInv, TypeOK
<1>1. CASE Quiet /\ (op'[v] = op[v] \/ op'[v].pc \notin {"reading", "writing"})
  BY <1>0, <1>1 DEF Held, Quiet
<1>2. ASSUME NEW w \in Ops, Lock(w) PROVE Held(v)'
  <2>1. op[v].pc \notin {"reading", "writing"}
    BY <1>0, <1>2 DEF Held, Lock
  <2>2. CASE v = w
    BY <1>0, <1>2, <2>2 DEF Held, Lock, Op
  <2>3. CASE v # w
    BY <1>0, <1>2, <2>1, <2>3 DEF Held, Lock
  <2>4. QED
    BY <2>2, <2>3
<1>3. ASSUME NEW w \in Ops, Read(w) PROVE Held(v)'
  <2>1. CASE v = w
    BY <1>0, <1>3, <2>1 DEF Held, Read, Op
  <2>2. CASE v # w
    BY <1>0, <1>3, <2>2 DEF Held, Read
  <2>3. QED
    BY <2>1, <2>2
<1>4. ASSUME NEW w \in Ops, Refuse(w) \/ Write(w) PROVE Held(v)'
  <2>1. CASE v = w
    BY <1>0, <1>4, <2>1 DEF Held, Refuse, Write, Idle
  <2>2. CASE v # w
    <3>1. op[v].pc \notin {"reading", "writing"}
      BY <1>0, <1>4, <2>2 DEF Held, Refuse, Write
    <3>2. QED
      BY <1>0, <1>4, <2>2, <3>1 DEF Held, Refuse, Write
  <2>3. QED
    BY <2>1, <2>2
<1>5. ASSUME NEW w \in Ops, DeleteOnAnswer(w) \/ FinishLogout(w)
      PROVE  Held(v)'
  <2>1. rec' = NoRecord /\ lock' = lock
        /\ last' = IF rec = NoRecord THEN last ELSE TenureOf(rec)
    BY <1>5 DEF DeleteOnAnswer, FinishLogout, Delete
  <2>2. op'[v] = op[v] \/ op'[v].pc \notin {"reading", "writing"}
    BY <1>0, <1>5 DEF DeleteOnAnswer, FinishLogout, Idle, Op
  <2>3. CASE op'[v] = op[v]
    BY <1>0, <2>1, <2>3 DEF Held
  <2>4. CASE op'[v].pc \notin {"reading", "writing"}
    BY <2>4 DEF Held
  <2>5. QED
    BY <2>2, <2>3, <2>4
<1>6. QED
  BY <1>0, <1>1, <1>2, <1>3, <1>4, <1>5, StepCases DEF Outside

LEMMA FenceInit == Init => FenceInv
  BY TypeInit DEF Init, FenceInv, UsableInv, Usable, SaveInv, SaveReady, Held,
                  Idle

LEMMA FenceInvariant == Spec => []FenceInv
  BY FenceInit, FenceNext, PTL DEF Spec

\* An operation that stops writing has written.
LEMMA OnlyWriteWrites ==
  ASSUME TypeInv, [Next]_vars, NEW w \in Ops, Writes(w)
  PROVE  Write(w)
<1>0. op \in [Ops -> Op] /\ op[w].pc = "writing" /\ op'[w].pc = "idle"
  BY DEF TypeInv, TypeOK, Writes
<1>1. \E u \in Ops : \/ Lock(u) \/ Read(u) \/ Refuse(u) \/ Write(u)
                     \/ DeleteOnAnswer(u) \/ FinishLogout(u)
  BY <1>0, StepCases DEF Outside
<1>2. QED
  BY <1>0, <1>1 DEF Lock, Read, Refuse, Write, DeleteOnAnswer, FinishLogout, Op

\* Fencing, for any number of nodes and of concurrent operations: under an
\* intact lock no save replaces the record of another tenure than its own.
THEOREM SavesAreFenced == Spec => WritesAreFenced
<1> DEFINE A == \A w \in Ops : Writes(w) /\ rec # NoRecord =>
                  IF op[w].before = NoRecord THEN rec.owner = op[w].node
                  ELSE rec.epoch = op[w].before.epoch
<1>1. FenceInv /\ [Next]_vars => [A]_vars
  <2> SUFFICES ASSUME FenceInv, [Next]_vars, NEW w \in Ops, Writes(w),
                      rec # NoRecord
               PROVE  IF op[w].before = NoRecord THEN rec.owner = op[w].node
                      ELSE rec.epoch = op[w].before.epoch
    OBVIOUS
  <2>1. rec = op[w].seen /\ SaveAllowed(op[w], rec) /\ Carries(op[w])
    BY DEF FenceInv, UsableInv, SaveInv, SaveReady, Held, Writes, TypeInv,
           CarriesOK
  <2>2. CASE op[w].before = NoRecord
    BY <2>1, <2>2 DEF SaveAllowed, SavesAs, Carries
  <2>3. CASE op[w].before # NoRecord
    BY <2>1, <2>3 DEF SaveAllowed, ExpectsEpoch
  <2>4. QED
    BY <2>2, <2>3
<1>2. Spec => []FenceInv
  BY FenceInvariant
<1>3. QED
  BY <1>1, <1>2, PTL DEF Spec, WritesAreFenced

\* Freshness, likewise: a stored session is never overwritten by an older one.
THEOREM CapturesNeverRegress == Spec => CaptureNeverRegresses
<1> DEFINE A == rec # NoRecord /\ rec' # NoRecord =>
                  rec'.capturedAt >= rec.capturedAt
<1>1. FenceInv /\ [Next]_vars => [A]_vars
  <2> SUFFICES ASSUME FenceInv, [Next]_vars, rec # NoRecord, rec' # NoRecord
               PROVE  rec'.capturedAt >= rec.capturedAt
    OBVIOUS
  <2>0. TypeInv /\ rec \in Record
    BY DEF FenceInv, UsableInv, TypeInv, TypeOK
  <2>1. CASE rec' = rec
    BY <2>0, <2>1, BoundsAssumption DEF Record, Times
  <2>2. ASSUME NEW w \in Ops, Write(w)
        PROVE  rec'.capturedAt >= rec.capturedAt
    <3>1. rec = op[w].seen /\ SaveAllowed(op[w], rec)
      BY <2>2 DEF FenceInv, UsableInv, SaveInv, SaveReady, Held, Write
    <3>2. rec'.capturedAt = op[w].captured
      BY <2>2 DEF Write, Written, NewRecord
    <3>3. op[w].captured \in Nat
      BY <2>0, BoundsAssumption DEF TypeInv, TypeOK, Op
    <3>4. QED
      BY <3>1, <3>2, <3>3, <2>0, BoundsAssumption DEF SaveAllowed, Record, Times
  <2>3. rec' = rec \/ \E w \in Ops : Write(w)
    BY <2>0, StepCases DEF Quiet, Lock, Read, Refuse, DeleteOnAnswer,
                           FinishLogout, Delete
  <2>4. QED
    BY <2>1, <2>2, <2>3
<1>2. Spec => []FenceInv
  BY FenceInvariant
<1>3. QED
  BY <1>1, <1>2, PTL DEF Spec, CaptureNeverRegresses

LEMMA TenureOfRecord ==
  ASSUME NEW r \in Record
  PROVE  /\ TenureOf(r) = [owner |-> r.owner, epoch |-> r.epoch]
         /\ TenureOf(r) \in Tenure
         /\ TenureOf(r) # NoRecord
  BY SentinelAssumption DEF TenureOf, Record, Tenure

\* While no record has been deleted, the owner's copy is the freshest, and no backfill
\* under way brings one that is fresher than the record.
Fresh(r) == r # NoRecord => /\ r.copies[r.owner] = r.capturedAt
                            /\ \A a \in Agents : r.copies[a] <= r.capturedAt

Overtaken(o) == o.kind = "backfill" => rec # NoRecord /\ o.captured <= rec.capturedAt

FreshInv == FenceInv /\ (last = NoRecord => Fresh(rec) /\ \A w \in Ops : Overtaken(op[w]))

LEMMA WrittenIsFresh ==
  ASSUME TypeInv, NEW w \in Ops, op[w].pc = "writing", SaveReady(op[w]),
         op[w].seen # NoRecord => Fresh(op[w].seen),
         op[w].kind = "backfill" => op[w].captured <= op[w].seen.capturedAt,
         NEW r \in Written(op[w])
  PROVE  Fresh(r) /\ op[w].captured = r.capturedAt
<1> DEFINE o == op[w]
           old == IF o.seen = NoRecord THEN [a \in Agents |-> 0]
                  ELSE o.seen.copies
<1>1. PICK K \in Kept(o, old) : r = NewRecord(o, o.seen, K)
  BY DEF Written
<1>2. (IF o.kind = "backfill" THEN Holders(old) ELSE o.to) \subseteq K
  BY <1>1 DEF Kept
<1>3. /\ r.owner = SavesAs(o) /\ r.capturedAt = o.captured
      /\ r.copies = [a \in Agents |-> IF a \in K THEN MergedCopy(o, old, a)
                                       ELSE 0]
  BY <1>1 DEF NewRecord
<1>4. /\ o \in Op /\ Carries(o) /\ SaveAllowed(o, o.seen) /\ SavesAs(o) \in o.to
      /\ o.captured \in Nat /\ SavesAs(o) \in Agents
      /\ o.seen # NoRecord => o.seen \in Record /\ Usable(o.seen)
  BY SavesAsAgent, BoundsAssumption DEF TypeInv, TypeOK, Op, CarriesOK, SaveReady
<1>5. o.seen # NoRecord => /\ o.seen.capturedAt \in Nat /\ o.seen.capturedAt <= o.captured
                           /\ \A a \in Agents : old[a] \in Nat /\ old[a] <= o.captured
  <2> SUFFICES ASSUME o.seen # NoRecord
               PROVE  /\ o.seen.capturedAt \in Nat /\ o.seen.capturedAt <= o.captured
                      /\ \A a \in Agents : old[a] \in Nat /\ old[a] <= o.captured
    OBVIOUS
  <2>1. /\ o.seen.capturedAt \in Nat
        /\ \A a \in Agents : o.seen.copies[a] \in Nat
    BY <1>4, BoundsAssumption DEF Record, Times
  <2>2. o.seen.capturedAt <= o.captured
    BY <1>4 DEF SaveAllowed
  <2>3. \A a \in Agents : o.seen.copies[a] <= o.seen.capturedAt
    BY DEF Fresh
  <2>4. QED
    BY <2>1, <2>2, <2>3, <1>4
<1>6. \A a \in Agents : r.copies[a] <= o.captured
  <2> SUFFICES ASSUME NEW a \in Agents PROVE r.copies[a] <= o.captured
    OBVIOUS
  <2>1. old[a] \in Nat /\ old[a] <= o.captured
    BY <1>4, <1>5
  <2>2. MergedCopy(o, old, a) <= o.captured
    BY <2>1, <1>4 DEF MergedCopy
  <2>3. QED
    BY <2>2, <1>3, <1>4
<1>7. r.copies[SavesAs(o)] = o.captured
  <2>1. CASE o.kind = "backfill"
    <3>1. o.seen # NoRecord /\ o.seen.owner = SavesAs(o)
      BY <2>1, <1>4 DEF SaveAllowed, ExpectsOwner, SavesAs
    <3>2. SavesAs(o) \in Holders(old) /\ old[SavesAs(o)] = o.seen.capturedAt
      BY <3>1, <1>4 DEF Usable, Fresh
    <3>3. o.seen.capturedAt = o.captured
      BY <2>1, <3>1, <1>4, <1>5
    <3>4. SavesAs(o) \in K /\ MergedCopy(o, old, SavesAs(o)) = old[SavesAs(o)]
      BY <2>1, <3>2, <1>2 DEF MergedCopy, Holders
    <3>5. QED
      BY <3>2, <3>3, <3>4, <1>3, <1>4
  <2>2. CASE o.kind # "backfill"
    <3>1. SavesAs(o) \in K /\ MergedCopy(o, old, SavesAs(o)) = o.captured
      BY <2>2, <1>2, <1>4 DEF MergedCopy
    <3>2. QED
      BY <3>1, <1>3, <1>4
  <2>3. QED
    BY <2>1, <2>2
<1>8. QED
  BY <1>3, <1>6, <1>7 DEF Fresh

\* A backfill carries the time of a copy of the record it found.
LEMMA BackfillsAreKnown ==
  ASSUME TypeInv, [Next]_vars, NEW v \in Ops, op'[v].kind = "backfill"
  PROVE  \/ op[v].kind = "backfill" /\ op'[v].captured = op[v].captured
         \/ rec # NoRecord /\ rec' = rec
            /\ \E a \in Agents : op'[v].captured = rec.copies[a]
<1> DEFINE Q == \/ op[v].kind = "backfill" /\ op'[v].captured = op[v].captured
                \/ rec # NoRecord /\ rec' = rec
                   /\ \E a \in Agents : op'[v].captured = rec.copies[a]
<1>0. op \in [Ops -> Op] /\ op[v] \in Op
  BY DEF TypeInv, TypeOK
<1>1. ASSUME NEW w \in Ops, NEW a \in Agents,
             StartQuery(w) \/ StartLogout(w) \/ StartTakeover(w, a)
      PROVE  Q
  BY <1>0, <1>1 DEF StartQuery, StartLogout, StartTakeover, Idle
<1>2. ASSUME NEW w \in Ops, NEW a \in Agents, StartBackfill(w, a)
      PROVE  Q
  BY <1>0, <1>2 DEF StartBackfill, Idle
<1>3. ASSUME NEW w \in Ops, NEW t \in Times,
             Attach(w) \/ Serve(w, t) \/ Import(w) \/ ImportRefused(w)
      PROVE  Q
  BY <1>0, <1>3 DEF Attach, Serve, Import, ImportRefused, Op
<1>4. ASSUME NEW w \in Ops, NEW T \in SUBSET Agents, Export(w, T) \/ Rewrap(w, T)
      PROVE  Q
  <2>1. CASE Export(w, T)
    BY <1>0, <2>1 DEF Export, Op
  <2>2. CASE Rewrap(w, T)
    BY <1>0, <2>2 DEF Rewrap, Op
  <2>3. QED
    BY <1>4, <2>1, <2>2
<1>5. ASSUME NEW w \in Ops,
             \/ Abandon(w) \/ NotLocked(w) \/ Refuse(w)
             \/ Write(w) \/ FinishLogout(w)
      PROVE  Q
  BY <1>0, <1>5 DEF Abandon, NotLocked, Refuse, Write, FinishLogout, Idle
<1>6. ASSUME NEW w \in Ops, Lock(w) \/ Read(w)
      PROVE  Q
  BY <1>0, <1>6 DEF Lock, Read, Op
<1>7. ASSUME NEW w \in Ops, LogoutAtNode(w) \/ LogoutUnreachable(w) \/ DeleteOnAnswer(w)
      PROVE  Q
  BY <1>0, <1>7 DEF LogoutAtNode, LogoutUnreachable, DeleteOnAnswer, Op
<1>8. ASSUME UNCHANGED vars PROVE Q
  BY <1>8 DEF vars
<1>9. QED
  BY <1>1, <1>2, <1>3, <1>4, <1>5, <1>6, <1>7, <1>8, AgentsAssumption, BoundsAssumption
     DEF Next, Times

LEMMA FreshNext == FreshInv /\ [Next]_vars => FreshInv'
<1> SUFFICES ASSUME FreshInv, [Next]_vars, last' = NoRecord
             PROVE  Fresh(rec') /\ \A v \in Ops : Overtaken(op[v])'
  BY FenceNext DEF FreshInv
<1>0. TypeInv /\ FenceInv /\ rec \in Record \cup {NoRecord}
  BY DEF FreshInv, FenceInv, UsableInv, TypeInv, TypeOK
<1>1. \/ rec' = rec /\ last' = last
      \/ \E w \in Ops : Write(w)
      \/ rec' = NoRecord /\ last' = IF rec = NoRecord THEN last ELSE TenureOf(rec)
  BY <1>0, StepCases DEF Quiet, Lock, Read, Refuse, DeleteOnAnswer, FinishLogout, Delete
<1>2. last = NoRecord /\ (rec' = rec \/ \E w \in Ops : Write(w))
  BY <1>0, <1>1, TenureOfRecord DEF Write
<1>3. Fresh(rec) /\ \A v \in Ops : Overtaken(op[v])
  BY <1>2 DEF FreshInv
<1>4. ASSUME NEW w \in Ops, Write(w)
      PROVE  /\ Fresh(rec') /\ rec' # NoRecord
             /\ rec # NoRecord => rec.capturedAt <= rec'.capturedAt
  <2>1. op[w].pc = "writing" /\ rec' \in Written(op[w]) /\ SaveReady(op[w]) /\ Held(w)
    BY <1>4, <1>0 DEF Write, FenceInv, UsableInv, SaveInv
  <2>2. rec = op[w].seen
    <3>1. op[w].seen \in Record \cup {NoRecord}
      BY <1>0 DEF TypeInv, TypeOK, Op
    <3>2. CASE op[w].seen # NoRecord /\ last = TenureOf(op[w].seen)
      BY <1>2, <3>1, <3>2, TenureOfRecord
    <3>3. QED
      BY <2>1, <3>2 DEF Held
  <2>3. Fresh(rec') /\ op[w].captured = rec'.capturedAt
    BY <2>1, <2>2, <1>0, <1>3, WrittenIsFresh DEF Overtaken
  <2>4. rec' # NoRecord
    BY <2>1, <1>0, WrittenIsRecord, SentinelAssumption
  <2>5. rec # NoRecord => rec.capturedAt <= op[w].captured
    BY <2>1, <2>2 DEF SaveReady, SaveAllowed
  <2>6. QED
    BY <2>3, <2>4, <2>5
<1>5. Fresh(rec') /\ (rec # NoRecord => /\ rec' # NoRecord
                                       /\ rec.capturedAt <= rec'.capturedAt)
  <2>1. CASE rec' = rec
    BY <2>1, <1>0, <1>3, BoundsAssumption DEF Record, Times
  <2>2. QED
    BY <2>1, <1>2, <1>4
<1>6. ASSUME NEW v \in Ops, op'[v].kind = "backfill"
      PROVE  rec' # NoRecord /\ op'[v].captured <= rec'.capturedAt
  <2>1. CASE op[v].kind = "backfill" /\ op'[v].captured = op[v].captured
    <3>1. rec # NoRecord /\ op[v].captured <= rec.capturedAt /\ op[v].captured \in Nat
      BY <2>1, <1>0, <1>3, BoundsAssumption DEF Overtaken, TypeInv, TypeOK, Op
    <3>2. rec' # NoRecord /\ rec' \in Record
      BY <3>1, <1>0, <1>5, TypeNext DEF TypeInv, TypeOK, LapsingNext
    <3>3. QED
      BY <2>1, <3>1, <3>2, <1>0, <1>5, BoundsAssumption DEF Record, Times
  <2>2. CASE rec # NoRecord /\ rec' = rec
             /\ \E a \in Agents : op'[v].captured = rec.copies[a]
    BY <2>2, <1>3 DEF Fresh
  <2>3. QED
    BY <1>0, <1>6, <2>1, <2>2, BackfillsAreKnown
<1>7. QED
  BY <1>5, <1>6 DEF Overtaken

\* Under an intact lock the owner's own copy is the freshest one there is, from the
\* first save until the record is deleted.
THEOREM OwnersRestoreTheFreshest == Spec => []OwnerCopyIsFreshest
<1>1. Init => FreshInv
  BY FenceInit DEF Init, FreshInv, Fresh, Overtaken, Idle
<1>2. FreshInv => OwnerCopyIsFreshest
  BY DEF FreshInv, Fresh, OwnerCopyIsFreshest
<1>3. QED
  BY <1>1, <1>2, FreshNext, PTL DEF Spec

\* No operation brings a session back that is gone: without a record and without a
\* session in memory there is nothing to start from, and what is under way expects the
\* epoch of the record that was deleted.  The lock plays no part in it.
LEMMA GoneNext == TypeInv /\ Gone /\ LapsingNext => Gone'
<1> SUFFICES ASSUME TypeInv, Gone, LapsingNext PROVE Gone'
  OBVIOUS
<1> DEFINE Harmless(o) == /\ o.pc # "writing"
                          /\ o.kind = "takeover" => o.pc # "sent"
                          /\ o.pc \in {"saving", "reading"} => o.before # NoRecord
           Moves(w) == /\ rec' = NoRecord /\ \A a \in Agents : live'[a] = 0
                       /\ \A v \in Ops : v # w => op'[v] = op[v]
                       /\ Harmless(op'[w])
<1>0. /\ op \in [Ops -> Op] /\ live \in [Agents -> 0..MaxTime]
      /\ rec = NoRecord /\ (\A a \in Agents : live[a] = 0)
      /\ \A w \in Ops : op[w].node \in Agents /\ Harmless(op[w])
  BY DEF TypeInv, TypeOK, Op, Gone
<1>1. ASSUME NEW w \in Ops, StartQuery(w) \/ Attach(w) \/ StartLogout(w) PROVE Moves(w)
  <2>1. CASE StartQuery(w) \/ StartLogout(w)
    BY <1>0, <2>1 DEF StartQuery, StartLogout, Idle, Op
  <2>2. CASE Attach(w)
    <3>1. op[w] \in Op /\ op[w].kind = "query"
      BY <1>0, <2>2 DEF Attach, TypeInv, CarriesOK, Carries
    <3>2. op'[w].pc = "sent" /\ op'[w].kind = "query"
      BY <1>0, <2>2, <3>1 DEF Attach, Op
    <3>3. QED
      BY <1>0, <2>2, <3>2 DEF Attach
  <2>3. QED
    BY <1>1, <2>1, <2>2
<1>2. ASSUME NEW w \in Ops, NEW a \in Agents, StartTakeover(w, a) \/ StartBackfill(w, a)
      PROVE  FALSE
  BY <1>0, <1>2 DEF StartTakeover, StartBackfill
<1>3. ASSUME NEW w \in Ops, NEW t \in Times,
             Serve(w, t) \/ Import(w) \/ ImportRefused(w) \/ Write(w)
      PROVE  FALSE
  BY <1>0, <1>3 DEF Serve, Import, ImportRefused, Write
<1>4. ASSUME NEW w \in Ops, NEW T \in SUBSET Agents, Export(w, T) \/ Rewrap(w, T)
      PROVE  Moves(w)
  BY <1>0, <1>4 DEF Export, Rewrap, TypeInv, CarriesOK, Carries, Op
<1>5. ASSUME NEW w \in Ops, Read(w) PROVE FALSE
  BY <1>0, <1>5 DEF Read, SaveAllowed, ExpectsEpoch
<1>6. ASSUME NEW w \in Ops, Abandon(w) \/ NotLocked(w) \/ Lock(w) \/ Refuse(w)
      PROVE  Moves(w)
  BY <1>0, <1>6 DEF Abandon, NotLocked, Lock, Refuse, Idle, Op
<1>7. ASSUME NEW w \in Ops, LogoutAtNode(w) \/ LogoutUnreachable(w) PROVE Moves(w)
  BY <1>0, <1>7 DEF LogoutAtNode, LogoutUnreachable, Op
<1>8. ASSUME NEW w \in Ops, DeleteOnAnswer(w) \/ FinishLogout(w) PROVE Moves(w)
  BY <1>0, <1>8 DEF DeleteOnAnswer, FinishLogout, Delete, Idle, Op
<1>9. CASE Lapse
  BY <1>9 DEF Lapse, Gone
<1>10. CASE \E w \in Ops : Moves(w)
  BY <1>0, <1>10 DEF Gone
<1> HIDE DEF Moves
<1>11. CASE Next
  BY <1>1, <1>2, <1>3, <1>4, <1>5, <1>6, <1>7, <1>8, <1>10, <1>11, BoundsAssumption
     DEF Next, Times
<1>12. QED
  BY <1>9, <1>11 DEF LapsingNext

\* A logout that nothing was overtaking is final.
THEOREM LogoutsStayFinal == LapsingSpec => GoneForGood
<1>1. TypeInv /\ [LapsingNext]_vars => [Gone => Gone']_vars
  BY GoneNext
<1>2. QED
  BY <1>1, TypeInvariant, PTL DEF LapsingSpec, GoneForGood

-------------------------------------------------------------------------------
(* Refinement: the stored record implements the abstract ownership.         *)

\* A write moves the abstract ownership from the tenure of the record read.
LEMMA WriteMovesTenure ==
  ASSUME TypeInv, NEW w \in Ops, Write(w)
  PROVE  /\ TenureOf(rec') =
              IF op[w].seen = NoRecord
              THEN [owner |-> SavesAs(op[w]), epoch |-> 1]
              ELSE Ownership!After(TenureOf(op[w].seen), SavesAs(op[w]))
         /\ SavesAs(op[w]) \in Agents
<1>1. rec' \in Record /\ SavesAs(op[w]) \in Agents
  BY WrittenIsRecord, SavesAsAgent DEF Write
<1>2. /\ rec'.owner = SavesAs(op[w])
      /\ rec'.epoch = IF op[w].seen = NoRecord THEN 1
                      ELSE IF op[w].seen.owner # SavesAs(op[w])
                           THEN op[w].seen.epoch + 1
                           ELSE op[w].seen.epoch
  BY DEF Write, Written, NewRecord
<1>3. TenureOf(rec') = [owner |-> rec'.owner, epoch |-> rec'.epoch]
  BY <1>1, TenureOfRecord
<1>4. CASE op[w].seen = NoRecord
  BY <1>1, <1>2, <1>3, <1>4
<1>5. CASE op[w].seen # NoRecord
  <2>1. op[w].seen \in Record
    BY <1>5 DEF TypeInv, TypeOK, Op
  <2>2. TenureOf(op[w].seen) = [owner |-> op[w].seen.owner,
                                epoch |-> op[w].seen.epoch]
    BY <2>1, TenureOfRecord
  <2>3. QED
    BY <1>1, <1>2, <1>3, <1>5, <2>2 DEF Ownership!After
<1>6. QED
  BY <1>4, <1>5

\* The stored record, seen as who owns the session under which epoch, only ever
\* changes as the abstract ownership allows: claimed, moved, dropped or resumed.
THEOREM StoreImplementsOwnership == Spec => ImplementsOwnership
<1>1. Init => Ownership!Init
  BY DEF Init, Ownership!Init, TenureOf
<1>2. FenceInv /\ [Next]_vars =>
        [Ownership!Next]_<<TenureOf(rec), last>>
  <2> SUFFICES ASSUME FenceInv, [Next]_vars
               PROVE  \/ Ownership!Next
                      \/ TenureOf(rec)' = TenureOf(rec) /\ last' = last
    OBVIOUS
  <2>0. TypeInv /\ rec \in Record \cup {NoRecord}
    BY DEF FenceInv, UsableInv, TypeInv, TypeOK
  <2>1. CASE UNCHANGED <<rec, last>>
    BY <2>1
  <2>2. ASSUME NEW w \in Ops, Write(w)
        PROVE  Ownership!Next
    <3> DEFINE a == SavesAs(op[w])
    <3>1. /\ a \in Agents /\ last' = last
          /\ TenureOf(rec') = IF op[w].seen = NoRecord
                              THEN [owner |-> a, epoch |-> 1]
                              ELSE Ownership!After(TenureOf(op[w].seen), a)
      BY <2>0, <2>2, WriteMovesTenure DEF Write
    <3>2. Held(w) /\ op[w].pc = "writing"
      BY <2>2 DEF FenceInv, Write
    <3>3. CASE op[w].seen = NoRecord
      <4>1. TenureOf(rec) = NoRecord
        BY <3>2, <3>3 DEF Held, TenureOf
      <4>2. Ownership!Claim(a)
        BY <3>1, <3>3, <4>1 DEF Ownership!Claim
      <4>3. QED
        BY <3>1, <4>2 DEF Ownership!Next
    <3>4. CASE op[w].seen # NoRecord /\ rec = op[w].seen
      <4>1. TenureOf(rec) # NoRecord
        BY <3>4, <2>0, TenureOfRecord
      <4>2. Ownership!Move(a)
        BY <3>1, <3>4, <4>1 DEF Ownership!Move
      <4>3. QED
        BY <3>1, <4>2 DEF Ownership!Next
    <3>5. CASE op[w].seen # NoRecord /\ rec = NoRecord
      <4>1. op[w].seen \in Record
        BY <2>0, <3>5 DEF TypeInv, TypeOK, Op
      <4>2. last = TenureOf(op[w].seen) /\ last # NoRecord
        BY <3>2, <3>5, <4>1, TenureOfRecord DEF Held
      <4>3. Ownership!Resume(a)
        BY <3>1, <3>5, <4>2 DEF Ownership!Resume, TenureOf
      <4>4. QED
        BY <3>1, <4>3 DEF Ownership!Next
    <3>6. QED
      BY <3>2, <3>3, <3>4, <3>5 DEF Held
  <2>3. ASSUME NEW w \in Ops, DeleteOnAnswer(w) \/ FinishLogout(w)
        PROVE  \/ Ownership!Next
               \/ TenureOf(rec)' = TenureOf(rec) /\ last' = last
    <3>1. rec' = NoRecord /\ last' = IF rec = NoRecord THEN last
                                     ELSE TenureOf(rec)
      BY <2>3 DEF DeleteOnAnswer, FinishLogout, Delete
    <3>2. CASE rec = NoRecord
      BY <3>1, <3>2
    <3>3. CASE rec # NoRecord
      <4>1. TenureOf(rec) # NoRecord
        BY <2>0, <3>3, TenureOfRecord
      <4>2. Ownership!Drop
        BY <3>1, <3>3, <4>1 DEF Ownership!Drop, TenureOf
      <4>3. QED
        BY <4>2 DEF Ownership!Next
    <3>4. QED
      BY <3>2, <3>3
  <2>4. QED
    BY <2>0, <2>1, <2>2, <2>3, StepCases DEF Quiet, Lock, Read, Refuse
<1>3. Spec => []FenceInv
  BY FenceInvariant
<1>4. QED
  BY <1>1, <1>2, <1>3, PTL DEF Spec, ImplementsOwnership, Ownership!Spec
===============================================================================
